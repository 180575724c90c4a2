-------------------------- MODULE AggregatorProofs --------------------------
(***************************************************************************)
(* Type correctness, and what a round rests on, for any assets, entries,   *)
(* sources, prices and bounds: the round RunOnce carries through guard,    *)
(* persist and publish is the one its results amount to.                   *)
(***************************************************************************)
EXTENDS AggregatorInvariant, FiniteOrders, SequenceTheorems

-----------------------------------------------------------------------------
(* The window: WindowStart and WindowEnd return what their comments say.   *)

LEMMA WindowProperties ==
    ASSUME NEW res, NEW S, IsFiniteSet(S), S # {},
           \A s \in S : res[s].fetchedAt \in Int
    PROVE  LET times == {res[s].fetchedAt : s \in S}
           IN  /\ WindowStart(res, S) \in times
               /\ WindowEnd(res, S) \in times
               /\ \A t \in times : /\ WindowStart(res, S) <= t
                                   /\ t <= WindowEnd(res, S)
<1>. DEFINE g == [s \in S |-> res[s].fetchedAt]
            times == {res[s].fetchedAt : s \in S}
<1>1. times = {g[s] : s \in S}
  OBVIOUS
<1>2. IsFiniteSet(times)
  <2>. HIDE DEF g, times
  <2>. QED  BY <1>1, ImageFinite
<1>3. times \in SUBSET Int /\ times # {}
  OBVIOUS
<1>4. /\ \E m \in times : \A x \in times : m <= x
      /\ \E m \in times : \A x \in times : x <= m
  <2>. HIDE DEF times
  <2>. QED  BY <1>2, <1>3, LeastExists, GreatestExists
<1>5. /\ \E m \in times : \A s \in S : m <= res[s].fetchedAt
      /\ \E m \in times : \A s \in S : m >= res[s].fetchedAt
  BY <1>4
<1>6. /\ WindowStart(res, S) \in times
      /\ \A s \in S : WindowStart(res, S) <= res[s].fetchedAt
  BY <1>5 DEF WindowStart
<1>7. /\ WindowEnd(res, S) \in times
      /\ \A s \in S : WindowEnd(res, S) >= res[s].fetchedAt
  BY <1>5 DEF WindowEnd
<1>. QED  BY <1>6, <1>7

-----------------------------------------------------------------------------
(* The median.                                                             *)

\* The prices of the sources S.
Prices(res, S) == [s \in S |-> res[s].price]

\* What Ascending returns.
LEMMA AscendingSorted ==
    ASSUME NEW res, NEW S, IsFiniteSet(S),
           \A s \in S : res[s].price \in Int
    PROVE  Sorted(Prices(res, S), S, Ascending(res, S))
<1>. DEFINE n == Cardinality(S)
            Lists(f) == \A i, j \in 1..n : i <= j => res[f[i]].price <= res[f[j]].price
<1>1. \A s \in S : Prices(res, S)[s] \in Int
  BY DEF Prices
<1>2. PICK f : Sorted(Prices(res, S), S, f)
  BY <1>1, SortedExists
<1>3. \A g \in Bijection(1..n, S) : Lists(g) <=> Sorted(Prices(res, S), S, g)
  BY DEF Sorted, Prices, Bijection, Injection
<1>4. f \in Bijection(1..n, S) /\ Lists(f)
  BY <1>2, <1>3 DEF Sorted
<1>. QED  BY <1>3, <1>4 DEF Ascending

\* computeMedian resists a minority: whichever fewer than half of the
\* contributions are wrong, and by however much, the median lies between two
\* prices of the others.
THEOREM MedianResistsMinority ==
    ASSUME NEW res, NEW S, IsFiniteSet(S), S # {},
           \A s \in S : res[s].price \in Int,
           NEW F \in SUBSET S, 2 * Cardinality(F) < Cardinality(S)
    PROVE  /\ computeMedian(res, S) \in Int
           /\ \E s, t \in S \ F :
                 /\ res[s].price <= computeMedian(res, S)
                 /\ computeMedian(res, S) <= res[t].price
<1>. DEFINE n    == Cardinality(S)
            f    == Ascending(res, S)
            p(i) == res[f[i]].price
            med  == computeMedian(res, S)
<1>1. n \in Nat /\ n # 0 /\ Cardinality(F) \in Nat
  BY FS_CardinalityType, FS_EmptySet, FS_Subset
<1>2. /\ f \in Bijection(1..n, S)
      /\ \A i, j \in 1..n : i <= j => p(i) <= p(j)
  BY AscendingSorted DEF Sorted, Prices, Bijection, Injection
<1>3. \A i \in 1..n : f[i] \in S /\ p(i) \in Int
  BY <1>2 DEF Bijection, Injection
<1>4. PICK lo \in 1..n, hi \in 1..n :
         /\ lo <= hi
         /\ Cardinality(F) < lo /\ Cardinality(F) < n - hi + 1
         /\ med \in Int /\ p(lo) <= med /\ med <= p(hi)
  <2>1. CASE n % 2 = 1
    <3>. DEFINE k == (n \div 2) + 1
    <3>1. k \in 1..n /\ 2 * k = n + 1
      BY <1>1, <2>1
    <3>2. med = p(k)
      BY <2>1 DEF computeMedian, Nth
    <3>3. Cardinality(F) < k /\ Cardinality(F) < n - k + 1
      BY <1>1, <3>1
    <3>4. p(k) \in Int
      BY <1>3, <3>1
    <3>. HIDE DEF f, n, med, k
    <3>. QED  BY <3>1, <3>2, <3>3, <3>4
  <2>2. CASE n % 2 # 1
    <3>. DEFINE k == n \div 2
    <3>1. k \in 1..n /\ k + 1 \in 1..n /\ 2 * k = n
      BY <1>1, <2>2
    <3>2. med = (p(k) + p(k + 1)) \div 2
      <4>1. (k - 1) + 1 = k
        BY <3>1
      <4>. QED  BY <2>2, <4>1 DEF computeMedian, Nth
    <3>3. Cardinality(F) < k /\ Cardinality(F) < n - (k + 1) + 1
      BY <1>1, <3>1
    <3>4. p(k) \in Int /\ p(k + 1) \in Int /\ p(k) <= p(k + 1)
      BY <1>2, <1>3, <3>1
    <3>5. med \in Int /\ p(k) <= med /\ med <= p(k + 1)
      <4>. HIDE DEF f, n, med, k, p
      <4>. QED  BY <3>2, <3>4
    <3>. HIDE DEF f, n, med, k, p
    <3>. QED  BY <3>1, <3>3, <3>5
  <2>. QED  BY <2>1, <2>2
<1>5. PICK i \in 1..lo : f[i] \in S \ F
  <2>1. 1 \in 1..n /\ Cardinality(F) < lo - 1 + 1
    BY <1>1, <1>4
  <2>. HIDE DEF f
  <2>. QED  BY <1>2, <1>4, <2>1, RankOutside
<1>6. PICK j \in hi..n : f[j] \in S \ F
  <2>1. n \in 1..n
    BY <1>1
  <2>. HIDE DEF f
  <2>. QED  BY <1>2, <1>4, <2>1, RankOutside
<1>7. i \in 1..n /\ j \in 1..n /\ i <= lo /\ hi <= j
  BY <1>1, <1>4, <1>5, <1>6
<1>8. p(i) <= p(lo) /\ p(hi) <= p(j)
  BY <1>2, <1>4, <1>7
<1>9. p(i) <= med /\ med <= p(j)
  <2>1. p(i) \in Int /\ p(lo) \in Int /\ p(hi) \in Int /\ p(j) \in Int
    BY <1>3, <1>4, <1>7
  <2>. HIDE DEF p, med
  <2>. QED  BY <1>4, <1>8, <2>1
<1>. QED  BY <1>4, <1>5, <1>6, <1>9

\* Said without sorting, computeMedian is the mean of the two middle prices,
\* which are one when their number is odd.
LEMMA MedianOfRanks ==
    ASSUME NEW res, NEW S, IsFiniteSet(S), S # {},
           \A s \in S : res[s].price \in Int
    PROVE  LET n == Cardinality(S)
               p(k) == res[Ascending(res, S)[k]].price
           IN  /\ (n + 1) \div 2 \in 1..n /\ (n + 2) \div 2 \in 1..n
               /\ \A k \in 1..n : p(k) \in Int
               /\ computeMedian(res, S) = (p((n + 1) \div 2) + p((n + 2) \div 2)) \div 2
<1>. DEFINE n    == Cardinality(S)
            p(i) == res[Ascending(res, S)[i]].price
<1>1. n \in Nat /\ n # 0
  BY FS_CardinalityType, FS_EmptySet
<1>2. \A k \in 1..n : p(k) \in Int
  BY AscendingSorted DEF Sorted, Bijection, Injection
<1>3. CASE n % 2 = 1
  <2>. DEFINE k == (n \div 2) + 1
  <2>1. (n + 1) \div 2 = k /\ (n + 2) \div 2 = k /\ k \in 1..n
    BY <1>1, <1>3
  <2>2. computeMedian(res, S) = p(k)
    BY <1>3 DEF computeMedian, Nth
  <2>3. p(k) \in Int
    BY <1>2, <2>1
  <2>. HIDE DEF p, n, k
  <2>4. (p(k) + p(k)) \div 2 = p(k)
    BY <2>3
  <2>. QED  BY <1>2, <2>1, <2>2, <2>4 DEF p, n
<1>4. CASE n % 2 # 1
  <2>. DEFINE k == n \div 2
  <2>1. (n + 1) \div 2 = k /\ (n + 2) \div 2 = k + 1 /\ k \in 1..n /\ k + 1 \in 1..n
    BY <1>1, <1>4
  <2>2. computeMedian(res, S) = (p(k) + p(k + 1)) \div 2
    <3>1. (k - 1) + 1 = k
      BY <2>1
    <3>. QED  BY <1>4, <3>1 DEF computeMedian, Nth
  <2>. HIDE DEF p, n, k
  <2>. QED  BY <1>2, <2>1, <2>2 DEF p, n
<1>. QED  BY <1>3, <1>4

-----------------------------------------------------------------------------
(* What a round is made of.                                                *)

\* The sources that count are finitely many, and priced.
LEMMA IncludedFacts ==
    ASSUME NEW res, res \in [Sources -> Result], NEW class, NEW at
    PROVE  LET S == Included(res, class, at)
           IN  /\ S \subseteq Sources /\ IsFiniteSet(S)
               /\ Cardinality(S) \in Nat
               /\ \A s \in S : /\ res[s].status = "fetched"
                               /\ res[s].price \in Int
                               /\ res[s].fetchedAt \in Int
<1>1. Included(res, class, at) \subseteq Sources
  BY DEF Included, Raws
<1>2. IsFiniteSet(Included(res, class, at))
  BY <1>1, ConfigAssumption, FS_Subset
<1>. QED  BY <1>1, <1>2, FS_CardinalityType DEF Included, Raws, Result

\* The newest row of a table that is not empty is one of its rows.
LEMMA LatestRowFacts ==
    ASSUME NEW a, db[a] \in Seq(Row), landed[a] \subseteq DOMAIN db[a], landed[a] # {}
    PROVE  \E i \in landed[a] :
              /\ LatestRow(a) = db[a][i]
              /\ \A j \in landed[a] : db[a][j].at <= db[a][i].at
<1>. DEFINE D == landed[a]
            g == [i \in D |-> db[a][i].at]
            T == {g[i] : i \in D}
<1>1. DOMAIN db[a] = 1..Len(db[a]) /\ Len(db[a]) \in Nat
  BY LenProperties
<1>2. \A i \in D : db[a][i] \in Row
  BY <1>1
<1>3. T \in SUBSET Int /\ T # {}
  BY <1>2 DEF Row
<1>4. IsFiniteSet(D)
  <2>1. IsFiniteSet(DOMAIN db[a])
    BY <1>1, FS_Interval
  <2>. QED  BY <2>1, FS_Subset
<1>5. IsFiniteSet(T)
  <2>. HIDE DEF D, g
  <2>. QED  BY <1>4, ImageFinite
<1>6. PICK m \in T : \A x \in T : x <= m
  <2>. HIDE DEF T
  <2>. QED  BY <1>3, <1>5, GreatestExists
<1>7. PICK k \in D : m = g[k]
  BY <1>6
<1>8. \A j \in D : db[a][j].at <= db[a][k].at
  BY <1>6, <1>7
<1>9. \E row \in {db[a][i] : i \in D} : \A i \in D : db[a][i].at <= row.at
  BY <1>8
<1>10. /\ LatestRow(a) \in {db[a][i] : i \in D}
       /\ \A i \in D : db[a][i].at <= LatestRow(a).at
  BY <1>9 DEF LatestRow
<1>. QED  BY <1>10

-----------------------------------------------------------------------------
(* Type correctness.                                                       *)

USE DEF EveryLoop

LEMMA ResultsTyped ==
    /\ NoResults \in [Sources -> Result]
    /\ Absent \in Result /\ Fetching \in Result /\ Failed \in Result
    /\ \A q, t, u \in Int : Fetched(q, t, u) \in Result
BY DEF NoResults, Absent, Fetching, Failed, Blank, Fetched, Result, NoTime

LEMMA RoundTyped == NoRound \in Round
BY DEF NoRound, Round

LEMMA TypeInit == Init => TypeOK
<1>. SUFFICES ASSUME Init  PROVE TypeOK
  OBVIOUS
<1>1. << >> \in Seq(Row) /\ << >> \in Seq(Audit) /\ << >> \in Seq(Publication)
  BY EmptySeq
<1>2. /\ db \in [Assets -> Seq(Row)] /\ landed \in [Assets -> SUBSET Nat]
      /\ \A a \in Assets : landed[a] \subseteq DOMAIN db[a]
      /\ audit \in [Assets -> Seq(Audit)]
      /\ feed \in Seq(Publication)
  BY <1>1 DEF Init
<1>3. results \in [Entries -> [Sources -> Result]] /\ round \in [Entries -> Round]
  BY ResultsTyped, RoundTyped DEF Init
<1>4. lastPrice = EmptyCache /\ DOMAIN EmptyCache = {}
  BY DEF Init, EmptyCache
<1>. QED  BY <1>2, <1>3, <1>4 DEF Init, TypeOK

\* The state of the loops apart from the shared state.
LEMMA EndTickTyped ==
    ASSUME TypeOK, NEW e \in Entries, EndTick(e)
    PROVE  /\ pc' \in [Entries -> InFlight \cup {"start", "idle", "done"}]
           /\ expired' \in [Entries -> BOOLEAN]
           /\ results' \in [Entries -> [Sources -> Result]]
           /\ round' \in [Entries -> Round]
BY ResultsTyped, RoundTyped DEF TypeOK, EndTick

LEMMA GotoTyped ==
    ASSUME TypeOK, NEW e \in Entries, NEW step \in InFlight, Goto(e, step)
    PROVE  /\ pc' \in [Entries -> InFlight \cup {"start", "idle", "done"}]
           /\ expired' \in [Entries -> BOOLEAN]
           /\ results' \in [Entries -> [Sources -> Result]]
           /\ round' \in [Entries -> Round]
BY DEF TypeOK, Goto

LEMMA JudgeTyped ==
    ASSUME TypeOK, NEW e \in Entries, NEW last, Judge(e, last)
    PROVE  /\ pc' \in [Entries -> InFlight \cup {"start", "idle", "done"}]
           /\ expired' \in [Entries -> BOOLEAN]
           /\ results' \in [Entries -> [Sources -> Result]]
           /\ round' \in [Entries -> Round]
<1>1. "persist" \in InFlight
  BY DEF InFlight
<1>. QED  BY <1>1, EndTickTyped, GotoTyped DEF Judge

LEMMA SetLastTyped ==
    ASSUME TypeOK, NEW a \in Assets, NEW p \in Int, setLast(a, p)
    PROVE  /\ DOMAIN lastPrice' \subseteq Assets
           /\ \A b \in DOMAIN lastPrice' : lastPrice'[b] \in Int
BY DEF TypeOK, setLast

LEMMA TypeNext == TypeOK /\ [Next]_vars => TypeOK'
<1>. SUFFICES ASSUME TypeOK, [Next]_vars  PROVE TypeOK'
  OBVIOUS
<1>. USE EntriesAssumption DEF TypeOK
<1>1. ASSUME NEW e \in Entries, BeginTick(e)  PROVE TypeOK'
  <2>1. results' \in [Entries -> [Sources -> Result]]
    <3>1. [s \in Sources |-> IF s \notin SymbolsOf[e] THEN Absent
                             ELSE IF s \in Registered THEN Fetching
                             ELSE Failed] \in [Sources -> Result]
      BY ResultsTyped
    <3>. QED  BY <1>1, <3>1 DEF BeginTick
  <2>2. pc' \in [Entries -> InFlight \cup {"start", "idle", "done"}]
    BY <1>1 DEF BeginTick, InFlight
  <2>3. expired' \in [Entries -> BOOLEAN] /\ fired' \in [Entries -> BOOLEAN]
    BY <1>1 DEF BeginTick
  <2>4. begun' \in [Entries -> Nat]
    BY <1>1 DEF BeginTick
  <2>. QED  BY <1>1, <2>1, <2>2, <2>3, <2>4 DEF BeginTick
<1>2. ASSUME NEW e \in Entries, NEW s \in Sources, FetchReturns(e, s)  PROVE TypeOK'
  <2>1. PICK r \in Answers : results' = [results EXCEPT ![e][s] = r]
    BY <1>2 DEF FetchReturns
  <2>2. r \in Result
    <3>1. CASE r = Failed
      BY <3>1, ResultsTyped
    <3>2. CASE r \in {Fetched(q, now, now - lag) : q \in Quotes, lag \in Lags}
      <4>1. PICK q \in Quotes, lag \in Lags : r = Fetched(q, now, now - lag)
        BY <3>2
      <4>2. q \in Int /\ now \in Int /\ now - lag \in Int
        OBVIOUS
      <4>. QED  BY <4>1, <4>2, ResultsTyped
    <3>. QED  BY <2>1, <3>1, <3>2 DEF Answers
  <2>3. results' \in [Entries -> [Sources -> Result]]
    BY <2>1, <2>2
  <2>. QED  BY <1>2, <2>3 DEF FetchReturns
<1>3. ASSUME NEW e \in Entries, Expire(e)  PROVE TypeOK'
  BY <1>3 DEF Expire
<1>4. ASSUME NEW e \in Entries, TooFewSources(e)  PROVE TypeOK'
  BY <1>4, EndTickTyped DEF TooFewSources, Collected
<1>5. ASSUME NEW e \in Entries, Aggregate(e)  PROVE TypeOK'
  <2>. DEFINE S == Included(results[e], ClassOf[e], now + 1)
              r == [NoRound EXCEPT !.median = computeMedian(results[e], S),
                                   !.at     = now + 1,
                                   !.start  = WindowStart(results[e], S),
                                   !.end    = WindowEnd(results[e], S)]
  <2>1. round' = [round EXCEPT ![e] = r]
    BY <1>5 DEF Aggregate
  <2>2. /\ IsFiniteSet(S) /\ Cardinality(S) >= MinSources /\ Cardinality(S) \in Nat
        /\ \A s \in S : results[e][s].price \in Int /\ results[e][s].fetchedAt \in Int
    <3>1. results[e] \in [Sources -> Result]
      OBVIOUS
    <3>. QED  BY <1>5, <3>1, IncludedFacts DEF Aggregate, EnoughSources
  <2>. HIDE DEF S
  <2>3. S # {}
    <3>1. Cardinality({}) = 0
      BY FS_EmptySet
    <3>. HIDE DEF TypeOK, r
    <3>. QED  BY <2>2, <3>1, ConfigAssumption
  <2>4. computeMedian(results[e], S) \in Int
    <3>1. {} \in SUBSET S
      OBVIOUS
    <3>. HIDE DEF TypeOK, r
    <3>2. 2 * Cardinality({}) < Cardinality(S)
      BY <2>2, FS_EmptySet, ConfigAssumption
    <3>3. \A s \in S : results[e][s].price \in Int
      BY <2>2
    <3>. QED  BY <2>2, <2>3, <3>1, <3>2, <3>3, MedianResistsMinority
  <2>5. WindowStart(results[e], S) \in Int /\ WindowEnd(results[e], S) \in Int
    <3>. DEFINE times == {results[e][s].fetchedAt : s \in S}
    <3>1. WindowStart(results[e], S) \in times /\ WindowEnd(results[e], S) \in times
      BY <2>2, <2>3, WindowProperties
    <3>2. times \subseteq Int
      BY <2>2
    <3>. QED  BY <3>1, <3>2
  <2>6. r \in Round
    <3>1. now + 1 \in Int
      OBVIOUS
    <3>. HIDE DEF TypeOK
    <3>. QED  BY <2>4, <2>5, <3>1, RoundTyped DEF Round
  <2>. HIDE DEF r
  <2>7. round' \in [Entries -> Round]
    BY <2>1, <2>6
  <2>. QED  BY <1>5, <2>7 DEF Aggregate, Collected, InFlight
<1>6. ASSUME NEW e \in Entries, CacheHit(e)  PROVE TypeOK'
  BY <1>6, JudgeTyped DEF CacheHit
<1>7. ASSUME NEW e \in Entries, CacheMiss(e)  PROVE TypeOK'
  BY <1>7, GotoTyped DEF CacheMiss, InFlight
<1>8. ASSUME NEW e \in Entries, LoadNone(e)  PROVE TypeOK'
  BY <1>8, GotoTyped DEF LoadNone, InFlight
<1>9. ASSUME NEW e \in Entries, LoadFails(e)  PROVE TypeOK'
  BY <1>9 DEF LoadFails, InFlight, Round
<1>10. ASSUME NEW e \in Entries, LoadRow(e)  PROVE TypeOK'
  <2>1. LatestRow(IdOf[e]).median \in Int
    <3>1. /\ db[IdOf[e]] \in Seq(Row) /\ landed[IdOf[e]] # {}
          /\ landed[IdOf[e]] \subseteq DOMAIN db[IdOf[e]]
      BY <1>10 DEF LoadRow
    <3>2. PICK i \in landed[IdOf[e]] : LatestRow(IdOf[e]) = db[IdOf[e]][i]
      BY <3>1, LatestRowFacts
    <3>3. db[IdOf[e]][i] \in Row
      BY <3>1, <3>2, ElementOfSeq, LenProperties
    <3>. QED  BY <3>2, <3>3 DEF Row
  <2>. DEFINE r == [round[e] EXCEPT !.row = LatestRow(IdOf[e]).median]
  <2>2. r \in Round
    <3>1. round[e] \in Round
      OBVIOUS
    <3>. QED  BY <2>1, <3>1 DEF Round
  <2>3. round' = [round EXCEPT ![e] = r]
    BY <1>10 DEF LoadRow
  <2>. HIDE DEF r
  <2>4. round' \in [Entries -> Round]
    BY <2>2, <2>3
  <2>. QED  BY <1>10, <2>4 DEF LoadRow, InFlight
<1>11. ASSUME NEW e \in Entries, SeedLast(e)  PROVE TypeOK'
  <2>1. IdOf[e] \in Assets /\ round[e].row \in Int
    BY DEF Round
  <2>. QED  BY <1>11, <2>1, JudgeTyped, SetLastTyped DEF SeedLast
<1>12. ASSUME NEW e \in Entries, PersistFails(e)  PROVE TypeOK'
  BY <1>12, EndTickTyped DEF PersistFails
<1>13. ASSUME NEW e \in Entries, PersistCommits(e)  PROVE TypeOK'
  <2>. DEFINE a == IdOf[e]
  <2>1. a \in Assets /\ round[e].median \in Int /\ round[e].at \in Int /\ round[e].blind \in BOOLEAN
    BY DEF Round
  <2>2. [median |-> round[e].median, at |-> round[e].at] \in Row
    BY <2>1 DEF Row
  <2>3. db' \in [Assets -> Seq(Row)]
    BY <1>13, <2>1, <2>2 DEF PersistCommits
  <2>4. PICK acked, lands \in BOOLEAN :
          /\ IF acked THEN Goto(e, "cache") ELSE EndTick(e)
          /\ landed' = [landed EXCEPT ![a] = IF lands THEN @ \cup {Len(db[a]) + 1} ELSE @]
          /\ audit' = [audit EXCEPT ![a] = Append(@,
                [acked |-> acked, blind |-> round[e].blind, epoch |-> epoch])]
    BY <1>13 DEF PersistCommits
  <2>5. audit' \in [Assets -> Seq(Audit)]
    <3>1. [acked |-> acked, blind |-> round[e].blind, epoch |-> epoch] \in Audit
      BY <2>1 DEF Audit
    <3>. QED  BY <2>1, <2>4, <3>1
  <2>6. "cache" \in InFlight
    BY DEF InFlight
  <2>7. landed' \in [Assets -> SUBSET Nat]
    <3>1. Len(db[a]) \in Nat
      BY <2>1, LenProperties
    <3>. QED  BY <2>1, <2>4, <3>1
  <2>8. \A b \in Assets : landed'[b] \subseteq DOMAIN db'[b]
    <3>. SUFFICES ASSUME NEW b \in Assets  PROVE landed'[b] \subseteq DOMAIN db'[b]
      OBVIOUS
    <3>1. CASE b = a
      <4>1. db[a] \in Seq(Row)
        BY <2>1
      <4>2. db'[a] = Append(db[a], [median |-> round[e].median, at |-> round[e].at])
        BY <1>13, <2>1 DEF PersistCommits
      <4>3. /\ DOMAIN db[a] = 1..Len(db[a]) /\ Len(db[a]) \in Nat
            /\ DOMAIN db'[a] = 1..(Len(db[a]) + 1)
        BY <2>2, <4>1, <4>2, AppendProperties, LenProperties
      <4>4. landed'[a] \subseteq landed[a] \cup {Len(db[a]) + 1}
        BY <2>1, <2>4
      <4>5. landed[a] \subseteq 1..Len(db[a])
        BY <2>1, <4>3
      <4>. HIDE DEF TypeOK
      <4>6. landed'[a] \subseteq 1..(Len(db[a]) + 1)
        BY <4>3, <4>4, <4>5
      <4>. QED  BY <3>1, <4>3, <4>6
    <3>2. CASE b # a
      <4>1. landed'[b] = landed[b] /\ db'[b] = db[b]
        BY <1>13, <2>4, <3>2 DEF PersistCommits
      <4>. QED  BY <4>1
    <3>. QED  BY <3>1, <3>2
  <2>. QED  BY <1>13, <2>3, <2>4, <2>5, <2>6, <2>7, <2>8, EndTickTyped, GotoTyped
            DEF PersistCommits
<1>14. ASSUME NEW e \in Entries, CacheLast(e)  PROVE TypeOK'
  <2>1. IdOf[e] \in Assets /\ round[e].median \in Int /\ "publish" \in InFlight
    BY DEF Round, InFlight
  <2>. QED  BY <1>14, <2>1, GotoTyped, SetLastTyped DEF CacheLast
<1>15. ASSUME NEW e \in Entries, Publish(e)  PROVE TypeOK'
  <2>1. Aggregated(e) \in Publication
    BY DEF Aggregated, Publication, Round
  <2>. QED  BY <1>15, <2>1, EndTickTyped DEF Publish
<1>16. ASSUME NEW e \in Entries, TickerFires(e)  PROVE TypeOK'
  BY <1>16 DEF TickerFires
<1>17. ASSUME NEW e \in Entries, LoopExits(e)  PROVE TypeOK'
  BY <1>17 DEF LoopExits
<1>18. ASSUME NEW a \in Assets, CommitLands(a)  PROVE TypeOK'
  <2>1. PICK i \in DOMAIN db[a] : landed' = [landed EXCEPT ![a] = @ \cup {i}]
    BY <1>18 DEF CommitLands
  <2>2. i \in Nat
    <3>1. db[a] \in Seq(Row)
      OBVIOUS
    <3>. QED  BY <3>1, LenProperties
  <2>3. landed' \in [Assets -> SUBSET Nat]
    BY <2>1, <2>2
  <2>4. \A b \in Assets : landed'[b] \subseteq DOMAIN db[b]
    BY <2>1
  <2>. QED  BY <1>18, <2>3, <2>4 DEF CommitLands, loopVars
<1>19. CASE StopBegins
  BY <1>19 DEF StopBegins
<1>20. CASE StopReturns
  BY <1>20 DEF StopReturns, loopVars
<1>21. CASE Crash
  BY <1>21, ResultsTyped, RoundTyped DEF Crash, EmptyCache
<1>22. CASE Restart
  BY <1>22 DEF Restart, loopVars
<1>23. CASE Advance
  BY <1>23 DEF Advance, loopVars
<1>24. CASE UNCHANGED vars
  BY <1>24 DEF vars, loopVars
<1>. QED
  BY <1>1, <1>2, <1>3, <1>4, <1>5, <1>6, <1>7, <1>8, <1>9, <1>10, <1>11, <1>12,
     <1>13, <1>14, <1>15, <1>16, <1>17, <1>18, <1>19, <1>20, <1>21, <1>22, <1>23, <1>24
     DEF Next, Loop, Tick, getLast

\* Every variable keeps its type: prices and times stay numbers, whatever the
\* sources answer, and what is persisted and published is well formed.
THEOREM TypeCorrect == Spec => []TypeOK
BY TypeInit, TypeNext, PTL DEF Spec

-----------------------------------------------------------------------------
(* Ages in whole seconds.                                                  *)

LEMMA Quotient ==
    \A a \in Int : \A b \in Nat \ {0} :
        /\ a \div b \in Int
        /\ b * (a \div b) <= a
        /\ a < b * (a \div b) + b
OBVIOUS

LEMMA Scaled == \A x, y \in Int : \A b \in Nat \ {0} : x <= y => b * x <= b * y
OBVIOUS

\* Cut to whole seconds, an age exceeds a threshold that is not negative when
\* it exceeds it by a second or more.
LEMMA WholeSecondsBound ==
    ASSUME NEW d \in Int, NEW t \in Nat
    PROVE  WholeSeconds(d) > t <=> d >= (1 + t) * Second
<1>. DEFINE q == d \div Second
<1>0. Second \in Nat \ {0} /\ Second * (1 + t) = (1 + t) * Second
  BY ConfigAssumption
<1>1. CASE d < 0
  <2>1. (-d) \div Second >= 0 /\ (-d) \div Second \in Int
    <3>1. Second * ((-d) \div Second) + Second > 0 /\ (-d) \div Second \in Int
      BY <1>0, <1>1, Quotient
    <3>2. ASSUME (-d) \div Second <= -1  PROVE FALSE
      <4>1. Second * ((-d) \div Second) <= Second * (-1)
        BY <1>0, <3>1, <3>2, Scaled
      <4>. QED  BY <1>0, <3>1, <4>1
    <3>. QED  BY <3>1, <3>2
  <2>2. ~ (WholeSeconds(d) > t)
    BY <1>1, <2>1 DEF WholeSeconds
  <2>3. Second * (1 + t) >= 0
    <3>1. Second * 0 <= Second * (1 + t)
      BY <1>0, Scaled
    <3>. QED  BY <1>0, <3>1
  <2>. QED  BY <1>0, <1>1, <2>2, <2>3
<1>2. CASE d >= 0
  <2>1. WholeSeconds(d) = q /\ q \in Int /\ Second * q <= d /\ d < Second * q + Second
    BY <1>0, <1>2, Quotient DEF WholeSeconds
  <2>. HIDE DEF q
  <2>2. CASE q >= 1 + t
    <3>1. Second * (1 + t) <= Second * q
      BY <1>0, <2>1, <2>2, Scaled
    <3>2. Second * (1 + t) \in Int /\ Second * q \in Int
      BY <1>0, <2>1
    <3>. QED  BY <1>0, <2>1, <2>2, <3>1, <3>2
  <2>3. CASE q + 1 <= 1 + t
    <3>1. Second * (q + 1) <= Second * (1 + t)
      BY <1>0, <2>1, <2>3, Scaled
    <3>2. Second * (q + 1) = Second * q + Second
      BY <1>0, <2>1
    <3>3. Second * (1 + t) \in Int /\ Second * q \in Int
      BY <1>0, <2>1
    <3>. QED  BY <1>0, <2>1, <2>3, <3>1, <3>2, <3>3
  <2>. QED  BY <2>1, <2>2, <2>3
<1>. QED  BY <1>1, <1>2

\* Thresholds a team would configure; Scheme.Validate does not ask for them.
SaneThresholds == StaleAfterCrypto \in Nat /\ StaleAfterRWA \in Nat

\* The sources that are young enough are those the code includes.
LEMMA YoungIncluded ==
    ASSUME SaneThresholds, TypeOK, NEW e \in Entries
    PROVE  Young(e) = Included(results[e], ClassOf[e], round[e].at)
<1>. DEFINE at == round[e].at
            t  == Threshold(ClassOf[e])
<1>1. /\ at \in Int /\ t \in Nat
      /\ \A s \in Sources : results[e][s].observedAt \in Int
  BY DEF TypeOK, Round, Result, SaneThresholds, Threshold
<1>2. ASSUME NEW s \in Sources, results[e][s].observedAt # NoTime
      PROVE  IsStale(results[e][s], ClassOf[e], at)
                <=> at - results[e][s].observedAt >= (1 + t) * Second
  <2>1. at - results[e][s].observedAt \in Int
    BY <1>1
  <2>. HIDE DEF at, t
  <2>2. WholeSeconds(at - results[e][s].observedAt) > t
           <=> at - results[e][s].observedAt >= (1 + t) * Second
    BY <1>1, <2>1, WholeSecondsBound
  <2>. QED  BY <1>2, <2>2 DEF IsStale, t
<1>3. ASSUME NEW s \in Sources
      PROVE  (FreshnessPolicy = "strict" => ~ IsStale(results[e][s], ClassOf[e], at))
             <=> (FreshnessPolicy = "strict" /\ results[e][s].observedAt # NoTime =>
                     at - results[e][s].observedAt < (1 + t) * Second)
  <2>1. at - results[e][s].observedAt \in Int /\ (1 + t) * Second \in Int
    BY <1>1, ConfigAssumption
  <2>2. CASE results[e][s].observedAt = NoTime
    BY <2>2 DEF IsStale
  <2>3. CASE results[e][s].observedAt # NoTime
    <3>. HIDE DEF at, t
    <3>. QED  BY <1>2, <2>1, <2>3
  <2>. QED  BY <2>2, <2>3
<1>. QED  BY <1>3 DEF Young, Included, Raws, Threshold

-----------------------------------------------------------------------------
(* The stamp stays true.                                                   *)

\* A step that ends e's tick, or changes nothing of what the stamp speaks of.
Respects(e) ==
    \/ pc'[e] \notin Sampled
    \/ /\ pc'[e] \in Sampled => pc[e] \in Sampled
       /\ results'[e] = results[e]
       /\ round'[e].median = round[e].median /\ round'[e].at = round[e].at
       /\ round'[e].start = round[e].start /\ round'[e].end = round[e].end

LEMMA StampKept ==
    ASSUME NEW e \in Entries, Stamped(e), Respects(e)
    PROVE  Stamped(e)'
BY DEF Stamped, Respects

LEMMA AggregateStamps ==
    ASSUME TypeOK, NEW e \in Entries, Aggregate(e)
    PROVE  Stamped(e)'
<1>. DEFINE S == Included(results[e], ClassOf[e], now + 1)
            r == [NoRound EXCEPT !.median = computeMedian(results[e], S),
                                 !.at     = now + 1,
                                 !.start  = WindowStart(results[e], S),
                                 !.end    = WindowEnd(results[e], S)]
<1>1. round' = [round EXCEPT ![e] = r] /\ results' = results
  BY DEF Aggregate
<1>2. /\ r.at = now + 1 /\ r.median = computeMedian(results[e], S)
      /\ r.start = WindowStart(results[e], S) /\ r.end = WindowEnd(results[e], S)
  BY DEF NoRound
<1>. HIDE DEF r
<1>3. round'[e] = r
  BY <1>1 DEF TypeOK
<1>4. Cardinality(S) >= MinSources
  BY DEF Aggregate, EnoughSources
<1>. QED  BY <1>1, <1>2, <1>3, <1>4 DEF Stamped

\* The steps of a loop respect its own round and those of the others.
LEMMA LoopRespects ==
    ASSUME TypeOK, NEW e \in Entries, NEW f \in Entries, Loop(f), ~ (f = e /\ Aggregate(f))
    PROVE  Respects(e)
<1>1. ASSUME NEW step, Goto(f, step), pc[f] \in Sampled  PROVE Respects(e)
  BY <1>1 DEF Goto, Respects, TypeOK
<1>2. ASSUME EndTick(f)  PROVE Respects(e)
  <2>1. CASE e = f
    BY <1>2, <2>1 DEF EndTick, Respects, Sampled, TypeOK
  <2>2. CASE e # f
    BY <1>2, <2>2 DEF EndTick, Respects, TypeOK
  <2>. QED  BY <2>1, <2>2
<1>3. CASE BeginTick(f)
  <2>1. CASE e = f
    BY <1>3, <2>1 DEF BeginTick, Respects, Sampled, TypeOK
  <2>2. CASE e # f
    BY <1>3, <2>2 DEF BeginTick, Respects, TypeOK
  <2>. QED  BY <2>1, <2>2
<1>4. CASE \E s \in Sources : FetchReturns(f, s)
  <2>1. PICK s \in Sources, r \in Answers : results' = [results EXCEPT ![f][s] = r]
    BY <1>4 DEF FetchReturns
  <2>2. pc[f] = "fetch" /\ pc' = pc /\ round' = round
    BY <1>4 DEF FetchReturns
  <2>3. CASE e = f
    BY <2>2, <2>3 DEF Respects, Sampled
  <2>4. CASE e # f
    BY <2>1, <2>2, <2>4 DEF Respects, TypeOK
  <2>. QED  BY <2>3, <2>4
<1>5. CASE Expire(f) \/ TickerFires(f)
  BY <1>5 DEF Expire, TickerFires, Respects
<1>6. CASE LoopExits(f)
  BY <1>6 DEF LoopExits, Respects, Sampled, TypeOK
<1>7. CASE TooFewSources(f) \/ PersistFails(f) \/ Publish(f)
  BY <1>2, <1>7 DEF TooFewSources, PersistFails, Publish
<1>8. CASE Aggregate(f)
  BY <1>8 DEF Aggregate, Respects, TypeOK
<1>9. CASE CacheHit(f) \/ SeedLast(f)
  BY <1>1, <1>2, <1>9 DEF CacheHit, SeedLast, Judge, Sampled
<1>10. CASE CacheMiss(f) \/ LoadNone(f) \/ CacheLast(f)
  BY <1>1, <1>10 DEF CacheMiss, LoadNone, CacheLast, Sampled
<1>11. CASE LoadFails(f)
  <2>1. pc[f] = "load" /\ results' = results
        /\ pc' = [pc EXCEPT ![f] = "persist"]
        /\ round' = [round EXCEPT ![f].blind = TRUE]
    BY <1>11 DEF LoadFails
  <2>2. round[e] \in Round
    BY DEF TypeOK
  <2>. QED  BY <2>1, <2>2 DEF Respects, Sampled, TypeOK, Round
<1>12. CASE LoadRow(f)
  <2>. DEFINE p == LatestRow(IdOf[f]).median
  <2>1. pc[f] = "load" /\ results' = results
        /\ pc' = [pc EXCEPT ![f] = "seed"]
        /\ round' = [round EXCEPT ![f].row = p]
    BY <1>12 DEF LoadRow
  <2>. HIDE DEF p
  <2>2. round[e] \in Round
    BY DEF TypeOK
  <2>. QED  BY <2>1, <2>2 DEF Respects, Sampled, TypeOK, Round
<1>13. CASE PersistCommits(f)
  <2>1. pc[f] \in Sampled /\ (Goto(f, "cache") \/ EndTick(f))
    BY <1>13 DEF PersistCommits, Sampled
  <2>. QED  BY <1>1, <1>2, <2>1
<1>. QED  BY <1>3, <1>4, <1>5, <1>6, <1>7, <1>8, <1>9, <1>10, <1>11, <1>12, <1>13
          DEF Loop, Tick, getLast

LEMMA StampedNext == TypeOK /\ AllStamped /\ [Next]_vars => AllStamped'
<1>. SUFFICES ASSUME TypeOK, AllStamped, [Next]_vars, NEW e \in Entries
              PROVE  Stamped(e)'
  BY DEF AllStamped
<1>1. Stamped(e)
  BY DEF AllStamped
<1>2. ASSUME NEW f \in Entries, Loop(f)  PROVE Stamped(e)'
  BY <1>1, <1>2, AggregateStamps, LoopRespects, StampKept
<1>3. CASE Crash
  BY <1>3, <1>1, StampKept DEF Crash, EveryLoop, Respects, Sampled
<1>4. CASE \/ \E a \in Assets : CommitLands(a)
         \/ StopBegins \/ StopReturns \/ Restart \/ Advance \/ UNCHANGED vars
  <2>1. UNCHANGED <<pc, results, round>>
    BY <1>4 DEF CommitLands, StopBegins, StopReturns, Restart, Advance, vars, loopVars
  <2>. QED  BY <1>1, <2>1, StampKept DEF Respects
<1>. QED  BY <1>2, <1>3, <1>4 DEF Next

LEMMA AlwaysStamped == Spec => []AllStamped
<1>1. Init => AllStamped
  BY DEF Init, AllStamped, Stamped, EveryLoop, Sampled
<1>. QED  BY <1>1, StampedNext, TypeCorrect, PTL DEF Spec

-----------------------------------------------------------------------------
(* The theorems.                                                           *)

LEMMA StampedFacts ==
    ASSUME SaneThresholds, TypeOK, AllStamped, NEW e \in Entries, pc[e] \in Sampled
    PROVE  /\ IsFiniteSet(Young(e)) /\ Young(e) # {} /\ Young(e) \subseteq Sources
           /\ Cardinality(Young(e)) >= MinSources
           /\ \A s \in Young(e) : results[e][s].price \in Int /\ results[e][s].fetchedAt \in Int
           /\ round[e].median = computeMedian(results[e], Young(e))
           /\ round[e].start = WindowStart(results[e], Young(e))
           /\ round[e].end = WindowEnd(results[e], Young(e))
<1>. DEFINE S == Included(results[e], ClassOf[e], round[e].at)
<1>1. Young(e) = S
  BY YoungIncluded
<1>2. results[e] \in [Sources -> Result]
  BY DEF TypeOK
<1>3. /\ S \subseteq Sources /\ IsFiniteSet(S)
      /\ \A s \in S : results[e][s].price \in Int /\ results[e][s].fetchedAt \in Int
  BY <1>2, IncludedFacts
<1>4. /\ Cardinality(S) >= MinSources
      /\ round[e].median = computeMedian(results[e], S)
      /\ round[e].start = WindowStart(results[e], S)
      /\ round[e].end = WindowEnd(results[e], S)
  BY DEF AllStamped, Stamped
<1>. HIDE DEF S
<1>5. S # {}
  <2>1. Cardinality({}) = 0
    BY FS_EmptySet
  <2>. QED  BY <1>4, <2>1, ConfigAssumption
<1>. QED  BY <1>1, <1>3, <1>4, <1>5

\* A round that passed MinSources rests on at least that many prices, none
\* older than the policy allows, and its window spans exactly their fetches.
THEOREM RoundsAreSound == ASSUME SaneThresholds PROVE Spec => []RoundSound
<1>1. TypeOK /\ AllStamped => RoundSound
  <2>. SUFFICES ASSUME TypeOK, AllStamped, NEW e \in Entries, pc[e] \in Sampled
                PROVE  LET times == {results[e][s].fetchedAt : s \in Young(e)}
                       IN  /\ Cardinality(Young(e)) >= MinSources
                           /\ round[e].start \in times /\ round[e].end \in times
                           /\ \A t \in times : round[e].start <= t /\ t <= round[e].end
    BY DEF RoundSound
  <2>. QED  BY StampedFacts, WindowProperties
<1>. QED  BY <1>1, AlwaysStamped, TypeCorrect, PTL

\* However many sources there are, a minority of them cannot move the median
\* of a round outside the prices of the others.
THEOREM MinorityIsHarmless == ASSUME SaneThresholds PROVE Spec => []MinorityHarmless
<1>1. TypeOK /\ AllStamped => MinorityHarmless
  <2>. SUFFICES ASSUME TypeOK, AllStamped, NEW e \in Entries, pc[e] \in Sampled,
                       NEW F \in SUBSET Young(e),
                       2 * Cardinality(F) < Cardinality(Young(e))
                PROVE  \E s, t \in Young(e) \ F :
                          /\ results[e][s].price <= round[e].median
                          /\ round[e].median <= results[e][t].price
    BY DEF MinorityHarmless
  <2>1. \E s, t \in Young(e) \ F :
           /\ results[e][s].price <= computeMedian(results[e], Young(e))
           /\ computeMedian(results[e], Young(e)) <= results[e][t].price
    BY StampedFacts, MedianResistsMinority
  <2>. QED  BY <2>1, StampedFacts
<1>. QED  BY <1>1, AlwaysStamped, TypeCorrect, PTL

-----------------------------------------------------------------------------
(* The median by rank.                                                     *)

\* Prices come from the sources only.
Quoted == \A e \in Entries, s \in Sources : results[e][s].price \in Quotes \cup {0}

LEMMA QuotedNext == TypeOK /\ Quoted /\ [Next]_vars => Quoted'
<1>. SUFFICES ASSUME TypeOK, Quoted, [Next]_vars,
                     NEW e \in Entries, NEW s \in Sources
              PROVE  results'[e][s].price \in Quotes \cup {0}
  BY DEF Quoted
<1>. DEFINE Kept == results'[e] = results[e]
            Blanked == results'[e][s] \in {Absent, Fetching, Failed}
<1>1. Kept \/ Blanked => results'[e][s].price \in Quotes \cup {0}
  BY DEF Quoted, Absent, Fetching, Failed, Blank
<1>2. ASSUME NEW f \in Entries, EndTick(f)  PROVE Kept \/ Blanked
  BY <1>2 DEF EndTick, NoResults, TypeOK
<1>3. ASSUME NEW f \in Entries, BeginTick(f)  PROVE Kept \/ Blanked
  BY <1>3 DEF BeginTick, TypeOK
<1>4. ASSUME NEW f \in Entries, NEW x \in Sources, FetchReturns(f, x)
      PROVE  results'[e][s].price \in Quotes \cup {0}
  <2>1. PICK r \in Answers : results' = [results EXCEPT ![f][x] = r]
    BY <1>4 DEF FetchReturns
  <2>2. r.price \in Quotes \cup {0}
    BY DEF Answers, Fetched, Failed, Blank
  <2>3. results'[e][s] = results[e][s] \/ results'[e][s] = r
    BY <2>1 DEF TypeOK
  <2>. QED  BY <2>2, <2>3 DEF Quoted
<1>5. ASSUME NEW f \in Entries, Tick(f)  PROVE Kept \/ Blanked
  BY <1>2, <1>5
  DEF Tick, TooFewSources, Aggregate, getLast, CacheHit, CacheMiss, LoadNone, LoadFails, LoadRow,
      SeedLast, Judge, Goto, PersistFails, PersistCommits, CacheLast, Publish
<1>6. ASSUME NEW f \in Entries, Expire(f) \/ TickerFires(f) \/ LoopExits(f)  PROVE Kept
  BY <1>6 DEF Expire, TickerFires, LoopExits
<1>7. CASE Crash
  BY <1>1, <1>7 DEF Crash, NoResults, EveryLoop
<1>8. CASE \/ \E a \in Assets : CommitLands(a)
         \/ StopBegins \/ StopReturns \/ Restart \/ Advance \/ UNCHANGED vars
  BY <1>1, <1>8 DEF CommitLands, StopBegins, StopReturns, Restart, Advance, vars, loopVars
<1>. QED  BY <1>1, <1>3, <1>4, <1>5, <1>6, <1>7, <1>8 DEF Next, Loop

\* Prices in the unit that the comment on Rounds asks for.
ExactMeans == \A q \in Quotes : q % 2 = 0

\* What Ranked chooses is the price at that rank of the sorted slice.
LEMMA RankedSorted ==
    ASSUME NEW e, NEW S, IsFiniteSet(S), \A s \in S : results[e][s].price \in Int,
           NEW k \in 1..Cardinality(S)
    PROVE  Ranked(e, S, k) = results[e][Ascending(results[e], S)[k]].price
<1>. DEFINE key == Prices(results[e], S)
            f == Ascending(results[e], S)
            Ps == {results[e][s].price : s \in S}
            Fits(p) == /\ Cardinality({s \in S : results[e][s].price < p}) < k
                       /\ Cardinality({s \in S : results[e][s].price <= p}) >= k
<1>1. \A s \in S : key[s] \in Int
  BY DEF Prices
<1>2. \A p \in Int : Fits(p) <=> HasRank(key, S, k, p)
  <2>. SUFFICES ASSUME NEW p \in Int  PROVE Fits(p) <=> HasRank(key, S, k, p)
    OBVIOUS
  <2>1. /\ {s \in S : results[e][s].price < p} = {s \in S : key[s] < p}
        /\ {s \in S : results[e][s].price <= p} = {s \in S : key[s] <= p}
    BY DEF Prices
  <2>. QED  BY <2>1 DEF HasRank
<1>3. f[k] \in S /\ key[f[k]] = results[e][f[k]].price
  BY AscendingSorted DEF Sorted, Prices, Bijection, Injection
<1>4. HasRank(key, S, k, key[f[k]])
  <2>1. Sorted(key, S, f)
    BY AscendingSorted
  <2>. HIDE DEF key, f
  <2>. QED  BY <1>1, <2>1, SortedRank
<1>5. k \in Nat /\ Ps \subseteq Int /\ key[f[k]] \in Ps /\ key[f[k]] \in Int
  BY <1>1, <1>3, FS_CardinalityType
<1>. HIDE DEF key, f, Ps
<1>6. \A p \in Ps : Fits(p) => p = key[f[k]]
  BY <1>1, <1>2, <1>4, <1>5, RankUnique
<1>7. Fits(key[f[k]])
  BY <1>2, <1>4, <1>5
<1>8. Ranked(e, S, k) = CHOOSE p \in Ps : Fits(p)
  BY DEF Ranked, Ps
<1>. HIDE DEF Fits
<1>. QED  BY <1>3, <1>5, <1>6, <1>7, <1>8 DEF f

\* Twice the median of a round is the sum of its two middle prices by rank,
\* for any number of sources and any prices whose means are exact.
THEOREM MediansAreMiddles == ASSUME SaneThresholds, ExactMeans PROVE Spec => []MedianIsMiddle
<1>1. TypeOK /\ AllStamped /\ Quoted => MedianIsMiddle
  <2>. SUFFICES ASSUME TypeOK, AllStamped, Quoted, NEW e \in Entries, pc[e] \in Sampled
                PROVE  LET n == Cardinality(Young(e))
                       IN  2 * round[e].median = Ranked(e, Young(e), (n + 1) \div 2)
                                               + Ranked(e, Young(e), (n + 2) \div 2)
    BY DEF MedianIsMiddle
  <2>. DEFINE S == Young(e)
              n == Cardinality(S)
              p(k) == results[e][Ascending(results[e], S)[k]].price
              i == (n + 1) \div 2
              j == (n + 2) \div 2
  <2>1. /\ IsFiniteSet(S) /\ S # {} /\ S \subseteq Sources
        /\ \A s \in S : results[e][s].price \in Int
        /\ round[e].median = computeMedian(results[e], S)
    BY StampedFacts
  <2>. HIDE DEF S
  <2>2. /\ i \in 1..n /\ j \in 1..n /\ p(i) \in Int /\ p(j) \in Int
        /\ round[e].median = (p(i) + p(j)) \div 2
    BY <2>1, MedianOfRanks
  <2>3. \A k \in 1..n : p(k) % 2 = 0
    <3>1. \A k \in 1..n : Ascending(results[e], S)[k] \in S
      BY <2>1, AscendingSorted DEF Sorted, Bijection, Injection
    <3>2. \A s \in S : results[e][s].price % 2 = 0
      BY <2>1 DEF Quoted, ExactMeans
    <3>. QED  BY <3>1, <3>2
  <2>4. Ranked(e, S, i) = p(i) /\ Ranked(e, S, j) = p(j)
    BY <2>1, <2>2, RankedSorted
  <2>5. p(i) % 2 = 0 /\ p(j) % 2 = 0
    BY <2>2, <2>3
  <2>. HIDE DEF p, i, j, n
  <2>6. 2 * round[e].median = p(i) + p(j)
    BY <2>2, <2>5
  <2>. QED  BY <2>4, <2>6 DEF S, n, i, j
<1>2. Init => Quoted
  BY DEF Init, Quoted, EveryLoop, NoResults, Absent, Blank
<1>3. Spec => []Quoted
  BY <1>2, QuotedNext, TypeCorrect, PTL DEF Spec
<1>. QED  BY <1>1, <1>3, AlwaysStamped, TypeCorrect, PTL

=============================================================================
