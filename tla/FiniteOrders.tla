---------------------------- MODULE FiniteOrders ----------------------------
(***************************************************************************)
(* Finite sets of things with an integer key: the least and the greatest,  *)
(* the order by key, ranks.                                                *)
(*                                                                         *)
(* Induction over finite sets is done by minimal counterexample: strict    *)
(* inclusion of finite sets is well-founded, so a set of bad sets that is  *)
(* not empty has a minimal member.                                         *)
(***************************************************************************)
EXTENDS Integers, FiniteSets, Functions, FiniteSetTheorems, WellFoundedInduction, TLAPS

\* A set of finite sets that is not empty has a member no proper subset of
\* which is in it.
LEMMA MinimalFiniteSet ==
    ASSUME NEW U, NEW Bad, Bad \subseteq FiniteSubsetsOf(U), Bad # {}
    PROVE  \E S \in Bad : \A T \in Bad : ~ (T \subseteq S /\ T # S)
<1>1. IsWellFoundedOn(StrictSubsetOrdering(U), FiniteSubsetsOf(U))
  BY FS_StrictSubsetOrderingWellFounded
<1>2. PICK S \in Bad : \A T \in Bad : ~ (<<T, S>> \in StrictSubsetOrdering(U))
  BY <1>1, WFMin
<1>3. ASSUME NEW T \in Bad, T \subseteq S, T # S
      PROVE  FALSE
  <2>1. <<T, S>> \in (SUBSET U) \X (SUBSET U)
    BY DEF FiniteSubsetsOf
  <2>2. <<T, S>> \in StrictSubsetOrdering(U)
    BY <2>1, <1>3 DEF StrictSubsetOrdering
  <2>. QED  BY <2>2, <1>2
<1>. QED  BY <1>3

\* A finite set of integers that is not empty has a least element.
LEMMA LeastExists ==
    ASSUME NEW S \in SUBSET Int, IsFiniteSet(S), S # {}
    PROVE  \E m \in S : \A x \in S : m <= x
<1>. DEFINE Bad == {T \in FiniteSubsetsOf(Int) :
                      T # {} /\ ~ \E m \in T : \A x \in T : m <= x}
<1>1. SUFFICES ASSUME S \in Bad  PROVE FALSE
  BY DEF FiniteSubsetsOf
<1>2. PICK T \in Bad : \A R \in Bad : ~ (R \subseteq T /\ R # T)
  <2>1. Bad \subseteq FiniteSubsetsOf(Int) /\ Bad # {}
    BY <1>1
  <2>. HIDE DEF Bad
  <2>. QED  BY <2>1, MinimalFiniteSet
<1>3. PICK y : y \in T
  BY <1>2
<1>. DEFINE R == T \ {y}
<1>4. IsFiniteSet(R) /\ R \in SUBSET Int /\ R \subseteq T /\ R # T
  BY <1>2, <1>3, FS_RemoveElement DEF FiniteSubsetsOf
<1>5. R \notin Bad
  BY <1>2, <1>4
<1>6. CASE R = {}
  <2>1. \A x \in T : y <= x
    BY <1>6, <1>3, <1>2 DEF FiniteSubsetsOf
  <2>. QED  BY <2>1, <1>2, <1>3
<1>7. CASE R # {}
  <2>1. PICK m \in R : \A x \in R : m <= x
    BY <1>4, <1>5, <1>7 DEF FiniteSubsetsOf
  <2>2. T \subseteq Int /\ m \in Int /\ y \in Int
    BY <1>2, <1>3, <1>4, <2>1 DEF FiniteSubsetsOf
  <2>3. CASE m <= y
    <3>1. \A x \in T : m <= x
      BY <2>1, <2>3
    <3>. QED  BY <3>1, <2>1, <1>2
  <2>4. CASE ~ (m <= y)
    <3>1. \A x \in T : y <= x
      BY <2>1, <2>2, <2>4
    <3>. QED  BY <3>1, <1>3, <1>2
  <2>. QED  BY <2>3, <2>4
<1>. QED  BY <1>6, <1>7

\* The largest element, by mirroring.
LEMMA GreatestExists ==
    ASSUME NEW S \in SUBSET Int, IsFiniteSet(S), S # {}
    PROVE  \E m \in S : \A x \in S : x <= m
<1>. DEFINE M == {0 - x : x \in S}
            f == [x \in S |-> 0 - x]
<1>1. f \in Surjection(S, M)
  BY DEF Surjection
<1>2. M \in SUBSET Int /\ M # {}
  <2>1. \A x \in S : 0 - x \in Int
    OBVIOUS
  <2>2. PICK x : x \in S
    OBVIOUS
  <2>3. 0 - x \in M
    BY <2>2
  <2>4. \A y \in M : y \in Int
    BY <2>1
  <2>. QED  BY <2>3, <2>4
<1>3. IsFiniteSet(M)
  <2>. HIDE DEF M, f
  <2>. QED  BY <1>1, FS_Surjection
<1>4. PICK m \in M : \A x \in M : m <= x
  <2>. HIDE DEF M
  <2>. QED  BY <1>2, <1>3, LeastExists
<1>5. PICK y \in S : m = 0 - y
  BY <1>4
<1>6. ASSUME NEW x \in S  PROVE x <= y
  <2>1. m <= 0 - x /\ x \in Int /\ y \in Int
    BY <1>4
  <2>. QED  BY <2>1, <1>5
<1>. QED  BY <1>6

\* The image of a finite set is finite, and not larger.
LEMMA ImageFinite ==
    ASSUME NEW S, IsFiniteSet(S), NEW g
    PROVE  /\ IsFiniteSet({g[s] : s \in S})
           /\ Cardinality({g[s] : s \in S}) <= Cardinality(S)
<1>. DEFINE M == {g[s] : s \in S}
            f == [s \in S |-> g[s]]
<1>1. f \in Surjection(S, M)
  BY DEF Surjection
<1>. HIDE DEF M, f
<1>2. IsFiniteSet(M) /\ Cardinality(M) <= Cardinality(S)
  BY <1>1, FS_Surjection
<1>. QED  BY <1>2 DEF M

-----------------------------------------------------------------------------
(* The order.                                                              *)

\* f lists S by ascending key.
Sorted(key, S, f) ==
    /\ f \in Bijection(1..Cardinality(S), S)
    /\ \A i, j \in 1..Cardinality(S) :
          i <= j => key[f[i]] <= key[f[j]]

\* Appending the greatest to a sorted rest sorts the whole.
LEMMA SortedExtend ==
    ASSUME NEW key, NEW S, IsFiniteSet(S), NEW y \in S,
           \A s \in S : key[s] \in Int,
           \A s \in S : key[s] <= key[y],
           NEW f, Sorted(key, S \ {y}, f)
    PROVE  \E g : Sorted(key, S, g)
<1>. DEFINE n == Cardinality(S)
            g == [i \in 1..n |-> IF i = n THEN y ELSE f[i]]
<1>1. n \in Nat /\ n # 0 /\ Cardinality(S \ {y}) = n - 1
  BY FS_CardinalityType, FS_RemoveElement, FS_EmptySet
<1>. HIDE DEF n
<1>2. /\ f \in [1..(n - 1) -> S \ {y}]
      /\ \A i, j \in 1..(n - 1) : f[i] = f[j] => i = j
      /\ \A s \in S \ {y} : \E i \in 1..(n - 1) : f[i] = s
      /\ \A i, j \in 1..(n - 1) : i <= j => key[f[i]] <= key[f[j]]
  BY <1>1 DEF Sorted, Bijection, Injection, Surjection, IsInjective
<1>3. g \in [1..n -> S]
  BY <1>1, <1>2
<1>4. ASSUME NEW i \in 1..n, NEW j \in 1..n, g[i] = g[j]
      PROVE  i = j
  BY <1>1, <1>2, <1>4
<1>5. ASSUME NEW s \in S
      PROVE  \E i \in 1..n : g[i] = s
  <2>1. CASE s = y
    BY <1>1, <2>1
  <2>2. CASE s # y
    <3>1. PICK i \in 1..(n - 1) : f[i] = s
      BY <1>2, <2>2
    <3>2. i \in 1..n /\ i # n
      BY <1>1, <3>1
    <3>. QED  BY <3>1, <3>2
  <2>. QED  BY <2>1, <2>2
<1>6. ASSUME NEW i \in 1..n, NEW j \in 1..n, i <= j
      PROVE  key[g[i]] <= key[g[j]]
  <2>1. CASE j = n
    BY <1>3, <2>1
  <2>2. CASE j # n
    <3>1. i \in 1..(n - 1) /\ j \in 1..(n - 1)
      BY <1>1, <1>6, <2>2
    <3>. QED  BY <1>2, <1>6, <3>1
  <2>. QED  BY <2>1, <2>2
<1>7. g \in Bijection(1..n, S)
  BY <1>3, <1>4, <1>5 DEF Bijection, Injection, Surjection, IsInjective
<1>. QED  BY <1>6, <1>7 DEF Sorted, n

\* Every finite set can be sorted by an integer key.
LEMMA SortedExists ==
    ASSUME NEW key, NEW S, IsFiniteSet(S),
           \A s \in S : key[s] \in Int
    PROVE  \E f : Sorted(key, S, f)
<1>. DEFINE Bad == {T \in FiniteSubsetsOf(S) : ~ \E f : Sorted(key, T, f)}
<1>1. SUFFICES ASSUME S \in Bad  PROVE FALSE
  BY DEF FiniteSubsetsOf
<1>2. PICK T \in Bad : \A R \in Bad : ~ (R \subseteq T /\ R # T)
  <2>1. Bad \subseteq FiniteSubsetsOf(S) /\ Bad # {}
    BY <1>1
  <2>. HIDE DEF Bad
  <2>. QED  BY <2>1, MinimalFiniteSet
<1>3. T \in SUBSET S /\ IsFiniteSet(T) /\ ~ \E f : Sorted(key, T, f)
  BY <1>2 DEF FiniteSubsetsOf
<1>4. CASE T = {}
  <2>1. Cardinality(T) = 0
    BY <1>4, FS_EmptySet
  <2>2. [i \in 1..0 |-> 0] \in Bijection(1..0, {})
    BY DEF Bijection, Injection, Surjection, IsInjective
  <2>3. Sorted(key, T, [i \in 1..0 |-> 0])
    BY <1>4, <2>1, <2>2 DEF Sorted
  <2>. QED  BY <2>3, <1>3
<1>5. CASE T # {}
  <2>. DEFINE g == [s \in T |-> key[s]]
              P == {g[s] : s \in T}
  <2>1. P \in SUBSET Int /\ P # {}
    BY <1>3, <1>5
  <2>2. IsFiniteSet(P)
    BY <1>3, ImageFinite
  <2>3. PICK m \in P : \A x \in P : x <= m
    <3>. HIDE DEF P
    <3>. QED  BY <2>1, <2>2, GreatestExists
  <2>4. PICK y \in T : m = key[y]
    BY <2>3
  <2>5. \A s \in T : key[s] <= key[y]
    BY <2>3, <2>4
  <2>6. IsFiniteSet(T \ {y}) /\ T \ {y} \in SUBSET S /\ T \ {y} # T
    BY <1>3, FS_RemoveElement
  <2>7. PICK f : Sorted(key, T \ {y}, f)
    BY <1>2, <2>6 DEF FiniteSubsetsOf
  <2>8. \E h : Sorted(key, T, h)
    <3>. HIDE DEF Bad, P, g
    <3>. QED  BY <1>3, <2>5, <2>7, SortedExtend
  <2>. QED  BY <2>8, <1>3
<1>. QED  BY <1>4, <1>5

\* A set of at most k elements does not fill k + 1 ranks.
LEMMA RankOutside ==
    ASSUME NEW S, IsFiniteSet(S), NEW f \in Bijection(1..Cardinality(S), S),
           NEW F \in SUBSET S,
           NEW a \in 1..Cardinality(S), NEW b \in 1..Cardinality(S),
           Cardinality(F) < b - a + 1
    PROVE  \E i \in a..b : f[i] \in S \ F
<1>. DEFINE n == Cardinality(S)
            h == [i \in a..b |-> f[i]]
<1>1. IsFiniteSet(F) /\ Cardinality(F) \in Nat /\ n \in Nat
  BY FS_Subset, FS_CardinalityType
<1>2. SUFFICES ASSUME \A i \in a..b : f[i] \in F  PROVE FALSE
  BY <1>1 DEF Bijection, Injection
<1>3. IsFiniteSet(a..b) /\ Cardinality(a..b) = IF a > b THEN 0 ELSE b - a + 1
  BY <1>1, FS_Interval
<1>4. a \in Int /\ b \in Int /\ Cardinality(F) < Cardinality(a..b)
  BY <1>1, <1>3
<1>5. h \in [a..b -> F]
  BY <1>2
<1>6. \E x, y \in a..b : x # y /\ h[x] = h[y]
  <2>. HIDE DEF h
  <2>. QED  BY <1>1, <1>3, <1>4, <1>5, FS_PigeonHole
<1>7. \A x, y \in a..b : f[x] = f[y] => x = y
  BY <1>1 DEF Bijection, Injection, IsInjective
<1>. QED  BY <1>6, <1>7

\* p is the k-th smallest key of S.
HasRank(key, S, k, p) ==
    /\ Cardinality({s \in S : key[s] < p}) < k
    /\ Cardinality({s \in S : key[s] <= p}) >= k

\* The k-th in ascending order has it.
LEMMA SortedRank ==
    ASSUME NEW key, NEW S, IsFiniteSet(S), \A s \in S : key[s] \in Int,
           NEW f, Sorted(key, S, f), NEW k \in 1..Cardinality(S)
    PROVE  HasRank(key, S, k, key[f[k]])
<1>. DEFINE n == Cardinality(S)
            p == key[f[k]]
            L == {s \in S : key[s] < p}
            U == {s \in S : key[s] <= p}
            M == {f[i] : i \in 1..(k - 1)}
<1>1. /\ n \in Nat /\ k \in Nat /\ 1 <= k /\ k <= n
      /\ IsFiniteSet(U) /\ Cardinality(U) \in Nat
      /\ IsFiniteSet(L) /\ Cardinality(L) \in Nat
  BY FS_CardinalityType, FS_Subset
<1>2. /\ f \in Bijection(1..n, S)
      /\ \A i \in 1..n : f[i] \in S /\ key[f[i]] \in Int
      /\ \A s \in S : \E i \in 1..n : f[i] = s
      /\ \A i, j \in 1..n : i <= j => key[f[i]] <= key[f[j]]
  BY DEF Sorted, Bijection, Injection, Surjection
<1>3. Cardinality(L) < k
  <2>1. IsFiniteSet(1..(k - 1)) /\ Cardinality(1..(k - 1)) = k - 1
    <3>1. 1 \in Int /\ k - 1 \in Int
      BY <1>1
    <3>2. /\ IsFiniteSet(1..(k - 1))
          /\ Cardinality(1..(k - 1)) = IF 1 > k - 1 THEN 0 ELSE (k - 1) - 1 + 1
      BY <3>1, FS_Interval
    <3>. QED  BY <1>1, <3>2
  <2>2. IsFiniteSet(M) /\ Cardinality(M) <= k - 1
    <3>. HIDE DEF n
    <3>. QED  BY <2>1, ImageFinite
  <2>3. L \subseteq M
    <3>. SUFFICES ASSUME NEW s \in S, key[s] < p  PROVE s \in M
      OBVIOUS
    <3>1. PICK i \in 1..n : f[i] = s
      BY <1>2
    <3>2. ~ (k <= i)
      BY <1>1, <1>2, <3>1
    <3>3. i \in 1..(k - 1)
      BY <1>1, <3>1, <3>2
    <3>. QED  BY <3>1, <3>3
  <2>. HIDE DEF L, M
  <2>4. Cardinality(L) <= Cardinality(M) /\ Cardinality(M) \in Nat
    BY <2>2, <2>3, FS_Subset, FS_CardinalityType
  <2>. QED  BY <1>1, <2>2, <2>4
<1>4. Cardinality(U) >= k
  <2>1. SUFFICES ASSUME Cardinality(U) < k  PROVE FALSE
    BY <1>1
  <2>2. 1 \in 1..n /\ k \in 1..n /\ U \in SUBSET S /\ Cardinality(U) < k - 1 + 1
    BY <1>1, <2>1
  <2>3. PICK i \in 1..k : f[i] \in S \ U
    <3>. HIDE DEF U
    <3>. QED  BY <1>2, <2>2, RankOutside
  <2>4. i \in 1..n /\ i <= k
    BY <1>1, <2>3
  <2>. QED  BY <1>2, <2>3, <2>4
<1>. QED  BY <1>3, <1>4 DEF HasRank

\* No other key does.
LEMMA RankUnique ==
    ASSUME NEW key, NEW S, IsFiniteSet(S), \A s \in S : key[s] \in Int,
           NEW k \in Nat, NEW p \in Int, NEW q \in Int,
           HasRank(key, S, k, p), HasRank(key, S, k, q)
    PROVE  p = q
<1>1. ASSUME NEW x \in Int, NEW y \in Int, x < y, HasRank(key, S, k, x), HasRank(key, S, k, y)
      PROVE  FALSE
  <2>. DEFINE A == {s \in S : key[s] <= x}
              B == {s \in S : key[s] < y}
  <2>1. A \subseteq B /\ B \subseteq S
    BY <1>1
  <2>2. Cardinality(A) >= k /\ Cardinality(B) < k
    BY <1>1 DEF HasRank
  <2>. HIDE DEF A, B
  <2>3. IsFiniteSet(B) /\ Cardinality(B) \in Nat
    BY <2>1, FS_Subset, FS_CardinalityType
  <2>4. Cardinality(A) <= Cardinality(B) /\ Cardinality(A) \in Nat
    BY <2>1, <2>3, FS_Subset, FS_CardinalityType
  <2>. QED  BY <2>2, <2>3, <2>4
<1>. QED  BY <1>1

=============================================================================
