------------------------------- MODULE Config -------------------------------
(***************************************************************************)
(* What start-up asks of a configuration: Scheme.Validate first, then the  *)
(* constructors it is handed to.  A text that is only tested for being     *)
(* present or for parsing is a Boolean.                                    *)
(***************************************************************************)
EXTENDS SourceKinds, SequencesExt

CONSTANT Canonical   \* the asset ids that are lowercase and without blanks

\* AssetID.Validate, which the handlers and the repository call, too.
ValidID(id) == id # "" /\ id \in Canonical

\* The sections of SourcesConfig.
Crypto == {"coingecko", "binance", "uniswap_v3"}
RWA == {"alpha_vantage", "twelve_data", "stooq", "gold_api", "yahoo", "eia", "fred",
        "swissquote"}

\* The sources that need an API key: by validateSourceKeys, and by their
\* constructors.
Keyed == {"uniswap_v3", "alpha_vantage", "twelve_data", "eia", "fred"}

\* Mutant: a source that is disabled must have its key, too.
KeysOfAll(scheme) == \A kind \in Keyed : scheme.sources[kind].key

validateSourceKeys(scheme) ==
    \A kind \in Keyed : scheme.sources[kind].enabled => scheme.sources[kind].key

Validate(scheme) ==
    /\ scheme.database
    /\ scheme.port # 0
    /\ scheme.minSources >= 1
    /\ scheme.maxDeviation > 0 /\ scheme.maxDeviation <= 100
    /\ scheme.freshnessPolicy \in {"permissive", "strict"}
    /\ scheme.assets # << >>
    /\ \A asset \in ToSet(scheme.assets) :
          /\ asset.id # ""
          /\ asset.class \in {"crypto", "rwa"}
          /\ DOMAIN asset.symbols # {}
          /\ asset.refreshIntervalSec > 0
    /\ validateSourceKeys(scheme)

-----------------------------------------------------------------------------

\* The constructors of the adapters.
Constructs(kind, source) ==
    source.timeout /\ source.url /\ (kind \in Keyed => source.key)

Enabled(scheme) == {kind \in Crypto \cup RWA : scheme.sources[kind].enabled}

NewRegistry(scheme) ==
    /\ Enabled(scheme) # {}
    /\ \A kind \in Enabled(scheme) : Constructs(kind, scheme.sources[kind])

\* Mutant: a source of the other class is let through.
NewAssetMixed(asset) ==
    /\ ValidID(asset.id)
    /\ asset.class \in {"crypto", "rwa"}
    /\ asset.refreshIntervalSec > 0
    /\ DOMAIN asset.symbols # {}
    /\ \A kind \in DOMAIN asset.symbols :
          SourceKindFromString(kind) # SourceUnknown /\ asset.symbols[kind] # ""

NewAsset(asset) ==
    /\ ValidID(asset.id)
    /\ asset.class \in {"crypto", "rwa"}
    /\ asset.refreshIntervalSec > 0
    /\ DOMAIN asset.symbols # {}
    /\ \A kind \in DOMAIN asset.symbols :
          /\ SourceKindFromString(kind) # SourceUnknown
          /\ asset.symbols[kind] # ""
          /\ AssetClass(SourceKindFromString(kind)) = asset.class

parseAssets(scheme) == \A asset \in ToSet(scheme.assets) : NewAsset(asset)

-----------------------------------------------------------------------------
(* What setDefaults provides.  A symbol is any text but the empty one.     *)

Asset(id, class, kinds, interval) ==
    [id |-> id, class |-> class, refreshIntervalSec |-> interval,
     symbols |-> [kind \in kinds |-> id]]

Metal == {"gold_api", "yahoo", "alpha_vantage", "swissquote"}

defaultAssets ==
    [i \in 1..5 |-> Asset(<<"weth", "wbtc", "link", "uni", "aave">>[i], "crypto", Crypto, 180)]
    \o << Asset("xau", "rwa", Metal, 43200), Asset("xag", "rwa", Metal, 43200),
          Asset("spx", "rwa", {"yahoo", "fred"}, 43200),
          Asset("wti", "rwa", {"eia", "fred"}, 43200),
          Asset("hg", "rwa", {"gold_api", "yahoo"}, 43200) >>

ASSUME DefaultsAssumption == \A asset \in ToSet(defaultAssets) : asset.id \in Canonical

setDefaults ==
    [database |-> FALSE, port |-> 50051, timeout |-> TRUE,
     minSources |-> 1, maxDeviation |-> 10, freshnessPolicy |-> "permissive",
     assets |-> defaultAssets,
     sources |-> [kind \in Crypto \cup RWA |->
         [enabled |-> kind \notin {"twelve_data", "stooq"}, key |-> FALSE,
          url |-> TRUE, timeout |-> TRUE]]]

\* With what the operator must add: a password, and the keys of the sources
\* that are enabled.
Supplied ==
    [setDefaults EXCEPT !.database = TRUE,
        !.sources = [kind \in Crypto \cup RWA |->
            [@[kind] EXCEPT !.key = kind \in Keyed /\ setDefaults.sources[kind].enabled]]]

=============================================================================
