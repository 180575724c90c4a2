------------------------------- MODULE Rounds -------------------------------
(***************************************************************************)
(* The arithmetic of one aggregation round: what fetchAll hands to RunOnce, *)
(* which contributions survive the freshness policy, the median over the   *)
(* survivors, the window they span, and the deviation test against the     *)
(* last accepted price.                                                    *)
(*                                                                         *)
(* Prices are integers in a unit of which every configured price is an     *)
(* even multiple, so that the mean of two middle prices is an integer and  *)
(* the code's division by two is exact.  Times are integers, Second of     *)
(* them to the second.                                                     *)
(***************************************************************************)
EXTENDS Integers, FiniteSets, Sequences, Functions

CONSTANTS
    Sources,            \* the source kinds
    MinSources,         \* aggregation.min_sources
    MaxDeviationPct,    \* aggregation.max_deviation, in percent
    FreshnessPolicy,    \* aggregation.freshness_policy
    StaleAfterCrypto,   \* aggregation.stale_after_crypto
    StaleAfterRWA,      \* aggregation.stale_after_rwa
    Second              \* units of the clock in a second

\* What Scheme.Validate enforces of the aggregation section.  The two
\* staleness thresholds are not validated: any integer may be configured.
ASSUME ConfigAssumption ==
    /\ IsFiniteSet(Sources)
    /\ MinSources \in Nat \ {0}
    /\ MaxDeviationPct \in 1..100
    /\ FreshnessPolicy \in {"permissive", "strict"}
    /\ StaleAfterCrypto \in Int
    /\ StaleAfterRWA \in Int
    /\ Second \in Nat \ {0}

-----------------------------------------------------------------------------
(* The outcome of one source in one tick.                                  *)

NoTime == -1000     \* Go's zero time.Time

Result == [status     : {"absent", "fetching", "failed", "fetched"},
           price      : Int,
           fetchedAt  : Int,
           observedAt : Int]

Blank(status) ==
    [status |-> status, price |-> 0, fetchedAt |-> NoTime, observedAt |-> NoTime]

Absent   == Blank("absent")     \* the asset has no symbol for the source
Fetching == Blank("fetching")   \* adapter.Fetch has not returned
Failed   == Blank("failed")     \* an error, or no adapter registered

Fetched(price, fetchedAt, observedAt) ==
    [status |-> "fetched", price |-> price,
     fetchedAt |-> fetchedAt, observedAt |-> observedAt]

\* The raw rows of a round: every successful fetch, stale or not.
Raws(results) == {s \in Sources : results[s].status = "fetched"}

-----------------------------------------------------------------------------
(* Step 2 of RunOnce: which contributions count.                           *)

Threshold(class) == IF class = "rwa" THEN StaleAfterRWA ELSE StaleAfterCrypto

\* int64(d.Seconds()): a duration in whole seconds, rounded towards zero.
WholeSeconds(d) == IF d < 0 THEN -((-d) \div Second) ELSE d \div Second

\* Mutant: the age of the fetch, not of what it observed.
IsFetchStale(r, class, at) == WholeSeconds(at - r.fetchedAt) > Threshold(class)

\* A source that reports no timestamp is never stale; one that is older than
\* the threshold by less than a second is not yet stale.
IsStale(r, class, at) ==
    /\ r.observedAt # NoTime
    /\ WholeSeconds(at - r.observedAt) > Threshold(class)

Included(results, class, at) ==
    {s \in Raws(results) :
        FreshnessPolicy = "strict" => ~ IsStale(results[s], class, at)}

-----------------------------------------------------------------------------
(* Step 3: the median.                                                     *)

\* The sources S in ascending order of price: what sort.Float64s leaves in
\* the copy, equal prices in either order.
Ascending(results, S) ==
    CHOOSE f \in Bijection(1..Cardinality(S), S) :
        \A i, j \in 1..Cardinality(S) :
            i <= j => results[f[i]].price <= results[f[j]].price

\* The i-th price of the sorted slice, from 0.
Nth(results, S, i) == results[Ascending(results, S)[i + 1]].price

\* Mutant: the upper middle price instead of the mean of the two.
UpperMedian(results, S) == Nth(results, S, Cardinality(S) \div 2)

\* Mutant: the index is not halved.
HighestPrice(results, S) == Nth(results, S, Cardinality(S) - 1)

\* The middle price, or the mean of the two middle prices.
computeMedian(results, S) ==
    LET n == Cardinality(S)
    IN  IF n % 2 = 1 THEN Nth(results, S, n \div 2)
        ELSE (Nth(results, S, (n \div 2) - 1) + Nth(results, S, n \div 2)) \div 2

-----------------------------------------------------------------------------
(* Step 5: the window spanned by the included fetches.                     *)

WindowStart(results, included) ==
    CHOOSE t \in {results[s].fetchedAt : s \in included} :
        \A s \in included : t <= results[s].fetchedAt

WindowEnd(results, included) ==
    CHOOSE t \in {results[s].fetchedAt : s \in included} :
        \A s \in included : t >= results[s].fetchedAt

-----------------------------------------------------------------------------
(* Step 4: |median - last| / last > MaxDeviation, for last > 0.            *)

Abs(x) == IF x < 0 THEN -x ELSE x

Deviates(median, last) ==
    Abs(median - last) * 100 > MaxDeviationPct * last

\* Mutant: the guard wants both prices to be positive.
BothPositive(median, last) == last > 0 /\ median > 0 => ~ Deviates(median, last)

\* What the guard lets through: it is skipped for a last price of zero or
\* less.
Accepts(median, last) == last > 0 => ~ Deviates(median, last)

=============================================================================
