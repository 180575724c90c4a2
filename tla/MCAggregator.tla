---------------------------- MODULE MCAggregator ----------------------------
(***************************************************************************)
(* Constants of the small instances on which TLC checks Aggregator.        *)
(***************************************************************************)
EXTENDS AggregatorRefinement, TLC

CONSTANTS s1, s2, s3, weth, e1, e2

\* One entry, or the same asset listed twice.
OneEntry    == {e1}
TwoEntries  == {e1, e2}
SameId      == [e \in Entries |-> weth]

AllCrypto   == [e \in Entries |-> "crypto"]
AllRWA      == [e \in Entries |-> "rwa"]
AllSymbols  == [e \in Entries |-> Sources]

OneSource    == {s1}
ThreeSources == {s1, s2, s3}

\* With a band of 10%: 20 and 22 accept each other's successor, 26 and 0 are
\* out of band of both; 0 also switches the guard off for the next round.
Pair   == {20, 22}
Steps  == {20, 22, 26}
StepsAndZero == {0, 20, 22}
Spread == {20, 22, 30}

EntrySymmetry == Permutations(TwoEntries)

NoLag  == {0}

\* In half seconds, with a threshold of one second: a clock ahead of ours, and
\* an age that is stale once one more half second passes before it is judged.
Stale  == {-1, 2}

=============================================================================
