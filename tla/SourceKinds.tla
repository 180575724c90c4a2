---------------------------- MODULE SourceKinds ----------------------------
(***************************************************************************)
(* The tables of internal/models: the sources by number, by name and by    *)
(* the class of assets they cover.                                         *)
(***************************************************************************)
EXTENDS Integers, Sequences

unknownLabel == "unknown"

SourceUnknown == 0

\* Without the zero value, which Go keeps at index 0.
sourceKindStrings ==
    <<"coingecko", "binance", "uniswap_v3", "alpha_vantage", "twelve_data", "stooq",
      "gold_api", "yahoo", "eia", "fred", "swissquote">>

AllSources == 1..11

String(kind) ==
    IF kind \in DOMAIN sourceKindStrings THEN sourceKindStrings[kind] ELSE unknownLabel

\* The reverse lookup, a table of its own.
sourceKindByString ==
    [coingecko |-> 1, binance |-> 2, uniswap_v3 |-> 3, alpha_vantage |-> 4, twelve_data |-> 5,
     stooq |-> 6, gold_api |-> 7, yahoo |-> 8, eia |-> 9, fred |-> 10, swissquote |-> 11]

\* SourceUnknown where the code also returns an error.
SourceKindFromString(name) ==
    IF name \in DOMAIN sourceKindByString THEN sourceKindByString[name] ELSE SourceUnknown

\* Mutant: a kind is left out of the switch.
AssetClassShort(kind) ==
    CASE kind \in {1, 2, 3} -> "crypto"
      [] kind \in 4..10     -> "rwa"
      [] OTHER              -> unknownLabel

AssetClass(kind) ==
    CASE kind \in {1, 2, 3} -> "crypto"
      [] kind \in 4..11     -> "rwa"
      [] OTHER              -> unknownLabel

=============================================================================
