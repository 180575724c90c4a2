----------------------------- MODULE MCLifecycle -----------------------------
(***************************************************************************)
(* Constants of the small instances on which TLC checks Lifecycle.         *)
(***************************************************************************)
EXTENDS Lifecycle

CONSTANTS c1, c2, p1

CanonicalIds == {asset.id : asset \in ToSet(defaultAssets)}

\* The defaults with one asset.
With(asset) == [Supplied EXCEPT !.assets = <<asset>>]
Weth == defaultAssets[1]
Good == With(Weth)
On == [enabled |-> TRUE, key |-> FALSE, url |-> TRUE, timeout |-> TRUE]

WithSource(kind, source) == [Good EXCEPT !.sources[kind] = source]

\* Each differs from Good in a respect or two.
Flawed == {
    [Good EXCEPT !.database = FALSE], [Good EXCEPT !.port = 0],
    [Good EXCEPT !.timeout = FALSE], [Good EXCEPT !.minSources = 0],
    [Good EXCEPT !.maxDeviation = 0], [Good EXCEPT !.maxDeviation = 101],
    [Good EXCEPT !.freshnessPolicy = ""], [Good EXCEPT !.assets = << >>],
    With([Weth EXCEPT !.id = ""]), With([Weth EXCEPT !.id = "WETH"]),
    With([Weth EXCEPT !.class = "fx"]), With([Weth EXCEPT !.class = "rwa"]),
    With([Weth EXCEPT !.refreshIntervalSec = 0]),
    With([Weth EXCEPT !.symbols = << >>]),
    With([Weth EXCEPT !.symbols = [kind \in {"kraken"} |-> "weth"]]),
    With([Weth EXCEPT !.symbols = [kind \in {"binance"} |-> ""]]),
    WithSource("eia", On), WithSource("yahoo", [On EXCEPT !.url = FALSE]),
    WithSource("yahoo", [On EXCEPT !.timeout = FALSE]),
    [Good EXCEPT !.sources = [kind \in Crypto \cup RWA |-> [On EXCEPT !.enabled = FALSE]]],
    [Good EXCEPT !.database = FALSE, !.sources = setDefaults.sources] }

\* The defaults with each list of sources that they have.
AllSchemes == Flawed \cup {With(defaultAssets[i]) : i \in {1, 6, 8, 9, 10}}
OneScheme == {Good}
TwoCalls == {c1, c2}
OneUnary == {c1}
OneProbe == {p1}
NoCall == {}
OneCall == {c1}

=============================================================================
