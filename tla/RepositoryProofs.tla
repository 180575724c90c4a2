-------------------------- MODULE RepositoryProofs --------------------------
(***************************************************************************)
(* The repository keeps what Store promises, for any callers, rounds,      *)
(* times and size of the pool.  The invariant: an open transaction has the *)
(* rows of its round or a part of them, one that is out of the caller's    *)
(* hands has them all, and the tables are made of such.                    *)
(***************************************************************************)
EXTENDS Repository, FiniteOrders, SequenceTheorems

Round ==
    [asset : Assets, price : Nat, at : Instants,
     sources : {Contributions(b, t) : b \in Breakdowns, t \in Instants}]

Encoded == {encodeBreakdown(Contributions(b, t)) : b \in Breakdowns, t \in Instants}

SourceNames == UNION {Names(Contributions(b, t)) : b \in Breakdowns, t \in Instants}

Inserted ==
    [raw : SUBSET (Nat \X SourceNames),
     aggregated : SUBSET [n : Nat, asset : Assets, at : Int, breakdown : Encoded]]

\* What the transaction of a round inserts.
Whole(n) == [raw |-> Raws(n), aggregated |-> {RowOf(n)}]

Busy == {"begin", "raws", "agg", "commit", "sent", "landed", "rollback"}

Shape ==
    /\ given \in Seq(Round)
    /\ pc \in [Callers -> Busy \cup {"idle", "query", "rows"}]
    /\ round \in [Callers -> Nat \cup {NoRound}]
    /\ staged \in [Callers -> Inserted]

Distinct == \A m, n \in DOMAIN given : given[m].at = given[n].at => m = n

\* The price stands for the number of the round.
Numbered == \A n \in DOMAIN given : given[n].price = n

\* Where a caller is in PersistRound, and what its transaction has.
Stage(c) ==
    /\ pc[c] \in Busy => round[c] \in DOMAIN given
    /\ pc[c] \notin Busy \ {"begin"} => staged[c] = Nothing
    /\ pc[c] = "raws" => staged[c].raw \subseteq Raws(round[c])
    /\ pc[c] = "agg" => staged[c].raw = Raws(round[c])
    /\ pc[c] \in {"commit", "sent", "landed"} => staged[c] = Whole(round[c])
    /\ pc[c] = "landed" => round[c] \in readable

Orphaned == \A t \in orphans : \E n \in DOMAIN given : t = Whole(n)

\* The tables, and that they have a latest row.
Tables ==
    /\ \A r \in aggregated :
          \/ \E n \in DOMAIN given : r = RowOf(n)
          \/ \E a \in Assets : r = OldRow(a)
    /\ raw = UNION {Raws(n) : n \in readable}
    /\ acked \subseteq readable
    /\ \A a \in Assets : RowsOf(a) # {} => \E r \in RowsOf(a) : \A s \in RowsOf(a) : r.at >= s.at

Inv ==
    /\ Shape /\ Distinct /\ Numbered /\ Orphaned /\ Tables
    /\ \A c \in Callers : Stage(c)

-----------------------------------------------------------------------------
(* Instants, names and rounds.                                             *)

LEMMA Remainder ==
    ASSUME NEW t \in Nat, NEW m \in Nat \ {0}
    PROVE  /\ t % m \in 0..(m - 1)
           /\ t \div m \in Nat
           /\ t = m * (t \div m) + (t % m)
OBVIOUS

LEMMA Multiples ==
    ASSUME NEW m \in Nat \ {0}, NEW p \in Nat, NEW q \in Nat
    PROVE  m * p < m * q => m * p + m <= m * q
<1>1. m * p < m * q => p < q
  OBVIOUS
<1>2. p + 1 <= q => m * (p + 1) <= m * q
  OBVIOUS
<1>3. m * (p + 1) = m * p + m
  OBVIOUS
<1>. QED  BY <1>1, <1>2, <1>3

LEMMA StampTyped == \A t \in Instants : t \in Nat /\ Stamp(t) \in Int /\ Stamp(t) > 0
BY RepositoryAssumption, WireAssumption, Remainder DEF RepositoryAssumption, WireAssumption, Stamp

\* What TIMESTAMPTZ keeps of two instants has their order.
LEMMA StampOrders ==
    ASSUME NEW t \in Instants, NEW u \in Instants, t # u
    PROVE  t > u <=> Stamp(t) > Stamp(u)
<1>1. /\ t \in Nat /\ u \in Nat /\ Micro \in Nat \ {0} /\ Stamp(t) # Stamp(u)
  BY RepositoryAssumption, WireAssumption DEF RepositoryAssumption, WireAssumption
<1>. DEFINE p == t \div Micro
            q == u \div Micro
<1>2. /\ t = Micro * p + (t % Micro) /\ t % Micro \in 0..(Micro - 1) /\ p \in Nat
      /\ u = Micro * q + (u % Micro) /\ u % Micro \in 0..(Micro - 1) /\ q \in Nat
  BY <1>1, Remainder
<1>. HIDE DEF p, q
<1>3. Micro * p \in Nat /\ Micro * q \in Nat
  BY <1>1, <1>2
<1>4. Stamp(t) = Micro * p /\ Stamp(u) = Micro * q
  BY <1>2, <1>3, <1>1 DEF Stamp
<1>5. /\ Micro * p < Micro * q => Micro * p + Micro <= Micro * q
      /\ Micro * q < Micro * p => Micro * q + Micro <= Micro * p
  BY <1>1, <1>2, Multiples
<1>. QED  BY <1>1, <1>2, <1>3, <1>4, <1>5

-----------------------------------------------------------------------------
(* Rows.                                                                   *)

LEMMA Rounds ==
    ASSUME Shape, NEW n \in DOMAIN given
    PROVE  /\ n \in Nat \ {0}
           /\ given[n] \in Round
           /\ Names(given[n].sources) \subseteq SourceNames
           /\ encodeBreakdown(given[n].sources) \in Encoded
<1>1. DOMAIN given = 1..Len(given) /\ Len(given) \in Nat
  BY LenProperties DEF Shape
<1>2. given[n] \in Round
  BY <1>1, ElementOfSeq DEF Shape
<1>3. PICK b \in Breakdowns, t \in Instants : given[n].sources = Contributions(b, t)
  BY <1>2 DEF Round
<1>. QED  BY <1>1, <1>2, <1>3 DEF SourceNames, Encoded

LEMMA NewRow ==
    ASSUME Shape, NEW n \in DOMAIN given
    PROVE  /\ RowOf(n).n = n /\ n \in Nat \ {0}
           /\ RowOf(n).asset = given[n].asset /\ given[n].asset \in Assets
           /\ RowOf(n).at = Stamp(given[n].at)
           /\ RowOf(n).at \in Int /\ RowOf(n).at > 0
           /\ given[n].at \in Instants
           /\ RowOf(n) \in [n : Nat, asset : Assets, at : Int, breakdown : Encoded]
<1>1. given[n] \in Round /\ n \in Nat \ {0} /\ encodeBreakdown(given[n].sources) \in Encoded
  BY Rounds
<1>2. given[n].at \in Instants /\ given[n].asset \in Assets
  BY <1>1 DEF Round
<1>3. Stamp(given[n].at) \in Int /\ Stamp(given[n].at) > 0
  BY <1>2, StampTyped
<1>. QED  BY <1>1, <1>2, <1>3 DEF RowOf

LEMMA OldRows ==
    ASSUME NEW a \in Assets
    PROVE  OldRow(a).n = 0 /\ OldRow(a).asset = a /\ OldRow(a).at = 0
BY DEF OldRow

\* No two rows of an asset have one time.
LEMMA OneRowAtATime ==
    ASSUME Shape, Distinct, Tables, NEW r \in aggregated, NEW s \in aggregated,
           r.asset = s.asset
    PROVE  r.at \in Int /\ (r.at = s.at => r = s)
<1>1. CASE \E n \in DOMAIN given : r = RowOf(n)
  <2>1. PICK n \in DOMAIN given : r = RowOf(n)
    BY <1>1
  <2>2. CASE \E m \in DOMAIN given : s = RowOf(m)
    <3>1. PICK m \in DOMAIN given : s = RowOf(m)
      BY <2>2
    <3>2. /\ given[n].at \in Instants /\ given[m].at \in Instants
          /\ r.at = Stamp(given[n].at) /\ s.at = Stamp(given[m].at) /\ r.at \in Int
      BY <2>1, <3>1, NewRow
    <3>3. r.at = s.at => given[n].at = given[m].at
      BY <3>2, RepositoryAssumption DEF RepositoryAssumption
    <3>. QED  BY <2>1, <3>1, <3>2, <3>3 DEF Distinct
  <2>3. CASE \E a \in Assets : s = OldRow(a)
    BY <2>1, <2>3, NewRow, OldRows
  <2>. QED  BY <2>2, <2>3 DEF Tables
<1>2. CASE \E a \in Assets : r = OldRow(a)
  <2>1. CASE \E m \in DOMAIN given : s = RowOf(m)
    BY <1>2, <2>1, NewRow, OldRows
  <2>2. CASE \E a \in Assets : s = OldRow(a)
    BY <1>2, <2>2, OldRows
  <2>. QED  BY <2>1, <2>2 DEF Tables
<1>. QED  BY <1>1, <1>2 DEF Tables

\* A row is of an asset that is tracked.
LEMMA RowsHaveAssets == ASSUME Shape, Tables, NEW r \in aggregated PROVE r.asset \in Assets
BY NewRow, OldRows DEF Tables

\* The row whose time is the latest is what a reader is given.
LatestFound ==
    \A a \in Assets : \A r \in RowsOf(a) :
        (\A s \in RowsOf(a) : r.at >= s.at) => LatestOf(a) = r

LEMMA Latest == Shape /\ Distinct /\ Tables => LatestFound
<1>. SUFFICES ASSUME Shape, Distinct, Tables, NEW a \in Assets, NEW r \in RowsOf(a),
                     \A s \in RowsOf(a) : r.at >= s.at
              PROVE  LatestOf(a) = r
  BY DEF LatestFound
<1>1. \A s \in RowsOf(a) : (\A u \in RowsOf(a) : s.at >= u.at) => s = r
  BY OneRowAtATime DEF RowsOf
<1>. QED  BY <1>1 DEF LatestOf

LEMMA LatestIsOne ==
    ASSUME Shape, Distinct, Tables, NEW a \in Assets, RowsOf(a) # {}
    PROVE  /\ LatestOf(a) \in RowsOf(a)
           /\ \A s \in RowsOf(a) : LatestOf(a).at >= s.at
BY DEF Tables, LatestOf

-----------------------------------------------------------------------------
(* A COMMIT lands: the rows of round n are in the tables, perhaps again.   *)

Lands(n) ==
    /\ aggregated' = aggregated \cup {RowOf(n)}
    /\ raw' = raw \cup Raws(n)
    /\ UNCHANGED <<given, acked>>

LEMMA ReadableAgain ==
    ASSUME Shape, NEW n \in DOMAIN given, Lands(n)
    PROVE  readable' = readable \cup {n}
BY NewRow DEF Lands, readable

\* A stored round has its row.
LEMMA RowOfReadable ==
    ASSUME Shape, Tables, NEW n \in DOMAIN given, n \in readable
    PROVE  RowOf(n) \in aggregated
<1>1. PICK r \in aggregated : r.n = n /\ n # 0
  BY DEF readable
<1>2. CASE \E m \in DOMAIN given : r = RowOf(m)
  BY <1>1, <1>2, NewRow
<1>3. CASE \E a \in Assets : r = OldRow(a)
  BY <1>1, <1>3, OldRows
<1>. QED  BY <1>2, <1>3 DEF Tables

LEMMA RowsUnchanged ==
    ASSUME Shape, NEW n \in DOMAIN given, Lands(n), NEW a \in Assets, a # given[n].asset
    PROVE  RowsOf(a)' = RowsOf(a)
BY NewRow DEF Lands, RowsOf

LEMMA RowsGrow ==
    ASSUME Shape, NEW n \in DOMAIN given, Lands(n), NEW a \in Assets, a = given[n].asset
    PROVE  RowsOf(a)' = RowsOf(a) \cup {RowOf(n)}
BY NewRow DEF Lands, RowsOf

\* The table still has a latest row.
LEMMA StillLatest ==
    ASSUME Shape, Distinct, Tables, NEW n \in DOMAIN given, Lands(n), NEW a \in Assets,
           RowsOf(a)' # {}
    PROVE  \E r \in RowsOf(a)' : \A s \in RowsOf(a)' : r.at >= s.at
<1>1. CASE a # given[n].asset
  BY <1>1, RowsUnchanged DEF Tables
<1>2. CASE a = given[n].asset
  <2>1. RowsOf(a)' = RowsOf(a) \cup {RowOf(n)} /\ RowOf(n).at \in Int
    BY <1>2, RowsGrow, NewRow
  <2>2. \A r \in RowsOf(a) : r.at \in Int
    BY OneRowAtATime DEF RowsOf
  <2>3. CASE RowsOf(a) = {}
    BY <2>1, <2>3
  <2>4. CASE RowsOf(a) # {}
    <3>1. PICK r \in RowsOf(a) : \A s \in RowsOf(a) : r.at >= s.at
      BY <2>4 DEF Tables
    <3>2. CASE r.at >= RowOf(n).at
      BY <2>1, <3>1, <3>2
    <3>3. CASE RowOf(n).at > r.at
      <4>1. \A s \in RowsOf(a) : RowOf(n).at >= s.at
        BY <2>1, <2>2, <3>1, <3>3
      <4>. QED  BY <2>1, <4>1
    <3>4. r.at \in Int
      BY <2>2, <3>1
    <3>. QED  BY <2>1, <3>2, <3>3, <3>4
  <2>. QED  BY <2>3, <2>4
<1>. QED  BY <1>1, <1>2

LEMMA TablesKept ==
    ASSUME Shape, Distinct, Tables, NEW n \in DOMAIN given, Lands(n)
    PROVE  Tables'
<1>1. /\ DOMAIN given' = DOMAIN given
      /\ \A m \in DOMAIN given : RowOf(m)' = RowOf(m)
      /\ \A a \in Assets : OldRow(a)' = OldRow(a)
      /\ \A m : Raws(m)' = Raws(m)
  BY DEF Lands, RowOf, OldRow, Raws
<1>2. \A r \in aggregated' :
         \/ \E m \in DOMAIN given' : r = RowOf(m)'
         \/ \E a \in Assets : r = OldRow(a)'
  BY <1>1 DEF Lands, Tables
<1>3. raw' = UNION {Raws(m)' : m \in readable'}
  BY <1>1, ReadableAgain DEF Lands, Tables
<1>4. acked' \subseteq readable'
  BY ReadableAgain DEF Lands, Tables
<1>5. \A a \in Assets : RowsOf(a)' # {} =>
         \E r \in RowsOf(a)' : \A s \in RowsOf(a)' : r.at >= s.at
  BY StillLatest
<1>. QED  BY <1>2, <1>3, <1>4, <1>5 DEF Tables

\* For Store, that is a round appearing.
LEMMA LatestAfter ==
    ASSUME Shape, Distinct, Tables, Shape', Distinct', NEW n \in DOMAIN given, Lands(n),
           n \notin readable
    PROVE  latest' = [latest EXCEPT ![given[n].asset] =
                         IF @ = 0 \/ given[n].at > given[@].at THEN n ELSE @]
<1>. PICK a \in Assets : a = given[n].asset
  BY NewRow
<1>1. /\ given[n].at \in Instants /\ n \in Nat \ {0}
      /\ RowOf(n).n = n /\ RowOf(n).at = Stamp(given[n].at)
      /\ RowOf(n).at \in Int /\ RowOf(n).at > 0
  BY NewRow
<1>2. \A b \in Assets \ {a} : latest'[b] = latest[b]
  <2>. SUFFICES ASSUME NEW b \in Assets \ {a}  PROVE latest'[b] = latest[b]
    OBVIOUS
  <2>1. RowsOf(b)' = RowsOf(b)
    BY RowsUnchanged
  <2>2. LatestOf(b)' = LatestOf(b)
    BY <2>1 DEF LatestOf
  <2>. QED  BY <2>1, <2>2 DEF latest
<1>3. LatestFound'
  <2>1. Tables'
    BY TablesKept
  <2>2. Shape' /\ Distinct' /\ Tables' => LatestFound'
    BY Latest, PTL
  <2>. QED  BY <2>1, <2>2
<1>4. RowsOf(a)' = RowsOf(a) \cup {RowOf(n)}
  BY RowsGrow
<1>5. \A r \in RowsOf(a)' : (\A s \in RowsOf(a)' : r.at >= s.at) => LatestOf(a)' = r
  BY <1>1, <1>3 DEF LatestFound
<1>6. latest'[a] = LatestOf(a)'.n
  BY <1>1, <1>4 DEF latest
<1>7. latest'[a] = IF latest[a] = 0 \/ given[n].at > given[latest[a]].at THEN n ELSE latest[a]
  <2>1. CASE RowsOf(a) = {}
    <3>1. LatestOf(a)' = RowOf(n)
      BY <1>1, <1>4, <1>5, <2>1
    <3>. QED  BY <1>1, <1>6, <2>1, <3>1 DEF latest
  <2>2. CASE RowsOf(a) # {}
    <3>. DEFINE r == LatestOf(a)
    <3>1. /\ r \in RowsOf(a) /\ r \in aggregated
          /\ \A s \in RowsOf(a) : r.at >= s.at
          /\ \A s \in RowsOf(a) : s.at \in Int
      BY <1>1, <2>2, LatestIsOne, OneRowAtATime DEF RowsOf
    <3>2. latest[a] = r.n
      BY <1>1, <2>2 DEF latest
    <3>. HIDE DEF r
    <3>3. CASE \E m \in DOMAIN given : r = RowOf(m)
      <4>1. PICK m \in DOMAIN given : r = RowOf(m)
        BY <3>3
      <4>2. /\ r.n = m /\ m \in Nat \ {0} /\ given[m].at \in Instants
            /\ r.at = Stamp(given[m].at)
        BY <4>1, NewRow
      <4>3. m # n
        BY <3>1, <4>2, <1>1 DEF readable
      <4>4. given[m].at # given[n].at
        BY <4>3 DEF Distinct
      <4>5. given[n].at > given[m].at <=> RowOf(n).at > r.at
        BY <1>1, <4>2, <4>4, StampOrders
      <4>6. CASE RowOf(n).at > r.at
        <5>1. \A s \in RowsOf(a)' : RowOf(n).at >= s.at
          BY <1>1, <1>4, <3>1, <4>6
        <5>2. LatestOf(a)' = RowOf(n)
          BY <1>4, <1>5, <5>1
        <5>. QED  BY <1>1, <1>6, <3>2, <4>2, <4>5, <4>6, <5>2
      <4>7. CASE ~ (RowOf(n).at > r.at)
        <5>1. \A s \in RowsOf(a)' : r.at >= s.at
          BY <1>1, <1>4, <3>1, <4>7
        <5>2. LatestOf(a)' = r
          BY <1>4, <1>5, <3>1, <5>1
        <5>. QED  BY <1>6, <3>2, <4>2, <4>5, <4>7, <5>2
      <4>. QED  BY <4>6, <4>7
    <3>4. CASE \E b \in Assets : r = OldRow(b)
      <4>1. r.n = 0 /\ r.at = 0
        BY <3>4, OldRows
      <4>2. \A s \in RowsOf(a)' : RowOf(n).at >= s.at
        BY <1>1, <1>4, <3>1, <4>1
      <4>3. LatestOf(a)' = RowOf(n)
        BY <1>4, <1>5, <4>2
      <4>. QED  BY <1>1, <1>6, <3>2, <4>1, <4>3
    <3>. QED  BY <3>1, <3>3, <3>4 DEF Tables
  <2>. QED  BY <2>1, <2>2
<1>. QED  BY <1>2, <1>7 DEF latest

-----------------------------------------------------------------------------
(* The steps.                                                              *)

\* Rounds are only added.
GivenGrows ==
    /\ DOMAIN given \subseteq DOMAIN given'
    /\ \A n \in DOMAIN given : given'[n] = given[n]

LEMMA RowsStay ==
    ASSUME GivenGrows
    PROVE  \A n \in DOMAIN given : /\ RowOf(n)' = RowOf(n) /\ Raws(n)' = Raws(n)
                                   /\ Whole(n)' = Whole(n)
BY DEF GivenGrows, RowOf, Raws, Whole

LEMMA StageStays ==
    ASSUME GivenGrows, NEW c \in Callers, Stage(c), readable \subseteq readable',
           pc'[c] = pc[c], round'[c] = round[c], staged'[c] = staged[c]
    PROVE  Stage(c)'
BY RowsStay DEF Stage, Busy, GivenGrows

LEMMA OrphansStay ==
    ASSUME GivenGrows, Orphaned, orphans' \subseteq orphans
    PROVE  Orphaned'
BY RowsStay DEF Orphaned, GivenGrows

LEMMA ReadableRounds ==
    ASSUME Shape, Tables
    PROVE  readable \subseteq DOMAIN given
<1>. SUFFICES ASSUME NEW r \in aggregated, r.n # 0  PROVE r.n \in DOMAIN given
  BY DEF readable
<1>. QED  BY NewRow, OldRows DEF Tables

LEMMA TablesStay ==
    ASSUME Shape, Tables, GivenGrows, UNCHANGED tables, acked' \subseteq readable
    PROVE  Tables' /\ readable' = readable /\ latest' = latest
<1>1. readable' = readable /\ \A a \in Assets : RowsOf(a)' = RowsOf(a)
  BY DEF tables, readable, RowsOf
<1>2. latest' = latest
  <2>1. \A a \in Assets : LatestOf(a)' = LatestOf(a)
    BY DEF tables, LatestOf, RowsOf
  <2>. QED  BY <1>1, <2>1 DEF latest
<1>3. raw' = UNION {Raws(n)' : n \in readable'}
  BY <1>1, RowsStay, ReadableRounds DEF tables, Tables
<1>4. \A r \in aggregated' :
         \/ \E m \in DOMAIN given' : r = RowOf(m)'
         \/ \E a \in Assets : r = OldRow(a)'
  BY RowsStay DEF tables, Tables, GivenGrows, OldRow
<1>. QED  BY <1>1, <1>2, <1>3, <1>4 DEF Tables

LEMMA PersistRoundKeeps ==
    ASSUME Inv, NEW c \in Callers, NEW asset \in Assets, NEW breakdown \in Breakdowns,
           NEW t \in Instants, PersistRound(c, asset, breakdown, t)
    PROVE  Inv' /\ GivenGrows /\ Len(given') = Len(given) + 1
<1>. DEFINE new == [asset |-> asset, price |-> Len(given) + 1, at |-> t,
                    sources |-> Contributions(breakdown, t)]
            n == Len(given) + 1
<1>1. /\ given \in Seq(Round) /\ Len(given) \in Nat
      /\ DOMAIN given = 1..Len(given)
  BY LenProperties DEF Inv, Shape
<1>2. new \in Round
  BY <1>1 DEF Round
<1>3. given' = Append(given, new)
  BY DEF PersistRound
<1>. HIDE DEF new
<1>4. /\ given' \in Seq(Round) /\ Len(given') = n
      /\ \A m \in 1..Len(given) : given'[m] = given[m]
      /\ given'[n] = new
  BY <1>1, <1>2, <1>3, AppendProperties
<1>5. DOMAIN given' = 1..n
  BY <1>4, LenProperties
<1>6. GivenGrows
  BY <1>1, <1>4, <1>5 DEF GivenGrows
<1>7. Distinct'
  <2>1. \A m \in DOMAIN given : given[m].at # new.at
    BY DEF PersistRound, new
  <2>. QED  BY <1>1, <1>4, <1>5, <2>1 DEF Inv, Distinct
<1>8. /\ Tables' /\ readable' = readable
  BY <1>6, TablesStay DEF PersistRound, Inv, Tables
<1>9. Numbered'
  BY <1>1, <1>4, <1>5 DEF Inv, Numbered, new
<1>10. Orphaned'
  BY <1>6, OrphansStay DEF PersistRound, Inv
<1>11. Shape'
  BY <1>1, <1>4 DEF PersistRound, Inv, Shape, Goto, Busy
<1>12. Stage(c)'
  <2>1. CASE UNCHANGED <<pc, round>>
    BY <1>6, <1>8, <2>1, StageStays DEF PersistRound, Inv
  <2>2. CASE Goto(c, "begin") /\ round' = [round EXCEPT ![c] = n]
    BY <1>1, <1>5, <2>2 DEF PersistRound, Goto, Inv, Shape, Stage, Busy
  <2>. QED  BY <2>1, <2>2 DEF PersistRound
<1>13. \A d \in Callers \ {c} : Stage(d)'
  BY <1>6, <1>8, StageStays DEF PersistRound, Goto, Inv, Shape
<1>. QED  BY <1>4, <1>6, <1>7, <1>8, <1>9, <1>10, <1>11, <1>12, <1>13 DEF Inv

\* The steps that leave rounds, tables and acknowledgements alone.
Quiet(c) ==
    \/ BeginTx(c) \/ BeginFails(c) \/ InsertRaw(c) \/ InsertAggregated(c) \/ InsertFails(c)
    \/ SendCommit(c) \/ CommitFails(c) \/ Rollback(c)
    \/ QueryCalled(c) \/ Query(c) \/ QueryFails(c) \/ QueryReturns(c)

LEMMA QuietLeaves ==
    ASSUME NEW c \in Callers, Quiet(c)
    PROVE  UNCHANGED <<tables, given, acked>>
BY DEF Quiet, BeginTx, BeginFails, InsertRaw, InsertAggregated, InsertFails, SendCommit,
   CommitFails, Rollback, QueryCalled, Query, QueryFails, QueryReturns

\* The caller's own place, and that of the others.
LEMMA QuietShape ==
    ASSUME Inv, NEW c \in Callers, Quiet(c)
    PROVE  /\ Shape' /\ Stage(c)'
           /\ \A d \in Callers \ {c} :
                 pc'[d] = pc[d] /\ round'[d] = round[d] /\ staged'[d] = staged[d]
<1>1. Shape /\ Stage(c) /\ given' = given /\ readable' = readable
  BY QuietLeaves DEF Inv, tables, readable
<1>2. /\ Nothing \in Inserted /\ {} \subseteq Nat \X SourceNames
      /\ staged[c] \in Inserted
  BY <1>1 DEF Nothing, Inserted, Shape
<1>3. \A n \in DOMAIN given :
         /\ RowOf(n)' = RowOf(n) /\ Raws(n)' = Raws(n) /\ Whole(n)' = Whole(n)
         /\ Raws(n) \subseteq Nat \X SourceNames
         /\ {RowOf(n)} \subseteq [n : Nat, asset : Assets, at : Int, breakdown : Encoded]
  BY <1>1, NewRow, Rounds DEF RowOf, Raws, Whole
<1>4. CASE BeginTx(c) \/ SendCommit(c) \/ CommitFails(c) \/ InsertFails(c)
  <2>1. CASE BeginTx(c)
    BY <1>1, <1>2, <1>3, <2>1 DEF Shape, Stage, Busy, Goto, BeginTx, Nothing
  <2>2. CASE SendCommit(c)
    BY <1>1, <1>2, <1>3, <2>2 DEF Shape, Stage, Busy, Goto, SendCommit
  <2>3. CASE CommitFails(c)
    BY <1>1, <1>2, <1>3, <2>3 DEF Shape, Stage, Busy, Goto, CommitFails
  <2>4. CASE InsertFails(c)
    BY <1>1, <1>2, <1>3, <2>4 DEF Shape, Stage, Busy, Goto, InsertFails
  <2>. QED  BY <1>4, <2>1, <2>2, <2>3, <2>4
<1>5. CASE BeginFails(c)
  BY <1>1, <1>3, <1>5 DEF Shape, Stage, Busy, Goto, BeginFails
<1>6. CASE Rollback(c)
  BY <1>1, <1>2, <1>6 DEF Shape, Stage, Busy, Goto, Rollback, Return
<1>7. CASE InsertRaw(c)
  <2>1. PICK row \in Raws(round[c]) \ staged[c].raw :
           /\ staged' = [staged EXCEPT ![c].raw = @ \cup {row}]
           /\ IF Raws(round[c]) \subseteq staged'[c].raw THEN Goto(c, "agg") ELSE UNCHANGED pc
    BY <1>7 DEF InsertRaw
  <2>2. /\ pc[c] = "raws" /\ round[c] \in DOMAIN given /\ round' = round
        /\ staged[c].raw \subseteq Raws(round[c])
    BY <1>1, <1>7 DEF InsertRaw, Stage, Busy
  <2>3. /\ staged'[c].raw = staged[c].raw \cup {row} /\ staged'[c].raw \subseteq Raws(round[c])
        /\ staged' \in [Callers -> Inserted]
        /\ \A d \in Callers \ {c} : staged'[d] = staged[d]
    <3>1. /\ staged[c].raw \cup {row} \subseteq Nat \X SourceNames
          /\ staged[c].raw \cup {row} \subseteq Raws(round[c])
      BY <1>3, <2>1, <2>2
    <3>2. /\ [staged[c] EXCEPT !.raw = @ \cup {row}] \in Inserted
          /\ [staged[c] EXCEPT !.raw = @ \cup {row}].raw = staged[c].raw \cup {row}
      BY <1>2, <3>1 DEF Inserted
    <3>3. staged' = [staged EXCEPT ![c] = [staged[c] EXCEPT !.raw = @ \cup {row}]]
      BY <2>1
    <3>. QED  BY <1>1, <3>1, <3>2, <3>3 DEF Shape
  <2>4. CASE Goto(c, "agg") /\ Raws(round[c]) \subseteq staged'[c].raw
    BY <1>1, <1>3, <2>2, <2>3, <2>4 DEF Shape, Stage, Goto, Busy
  <2>5. CASE UNCHANGED pc
    BY <1>1, <1>3, <2>2, <2>3, <2>5 DEF Shape, Stage, Busy
  <2>. QED  BY <2>1, <2>4, <2>5
<1>8. CASE InsertAggregated(c)
  <2>1. /\ pc[c] = "agg" /\ round[c] \in DOMAIN given /\ round' = round
        /\ staged[c].raw = Raws(round[c])
        /\ staged' = [staged EXCEPT ![c].aggregated = {RowOf(round[c])}]
        /\ Goto(c, "commit")
    BY <1>1, <1>8 DEF InsertAggregated, Stage, Busy
  <2>2. /\ staged'[c] = Whole(round[c]) /\ staged'[c] \in Inserted
        /\ \A d \in Callers \ {c} : staged'[d] = staged[d]
        /\ staged' \in [Callers -> Inserted]
    BY <1>1, <1>2, <1>3, <2>1 DEF Shape, Inserted, Whole
  <2>. QED  BY <1>1, <1>3, <2>1, <2>2 DEF Shape, Stage, Goto, Busy
<1>9. CASE QueryCalled(c) \/ Query(c) \/ QueryFails(c) \/ QueryReturns(c)
  BY <1>1, <1>9 DEF Shape, Stage, Goto, Busy, QueryCalled, Query, QueryFails, QueryReturns
<1>. QED  BY <1>4, <1>5, <1>6, <1>7, <1>8, <1>9 DEF Quiet

LEMMA QuietKeeps ==
    ASSUME Inv, NEW c \in Callers, Quiet(c)
    PROVE  Inv' /\ UNCHANGED <<handed, readable, raw, latest, acked>>
<1>1. GivenGrows /\ UNCHANGED <<tables, given, acked>>
  BY QuietLeaves DEF GivenGrows
<1>2. Tables' /\ UNCHANGED <<readable, latest>>
  BY <1>1, TablesStay DEF Inv, Tables
<1>3. Distinct' /\ Numbered'
  BY <1>1 DEF Inv, Distinct, Numbered
<1>4. Orphaned'
  <2>1. CASE orphans' \subseteq orphans
    BY <1>1, <2>1, OrphansStay DEF Inv
  <2>2. CASE CommitFails(c) /\ pc[c] = "sent"
    <3>1. staged[c] = Whole(round[c]) /\ round[c] \in DOMAIN given
      BY <2>2 DEF Inv, Stage, Busy
    <3>2. orphans' = orphans \cup {staged[c]}
      BY <2>2 DEF CommitFails
    <3>. QED  BY <1>1, <3>1, <3>2, RowsStay DEF Inv, Orphaned
  <2>. QED  BY <2>1, <2>2 DEF Quiet, BeginTx, BeginFails, InsertRaw, InsertAggregated,
               InsertFails, SendCommit, CommitFails, Rollback, QueryCalled, Query,
               QueryFails, QueryReturns
<1>5. Shape' /\ \A d \in Callers : Stage(d)'
  BY <1>1, <1>2, QuietShape, StageStays DEF Inv
<1>6. handed' = handed
  BY <1>1 DEF handed
<1>. QED  BY <1>1, <1>2, <1>3, <1>4, <1>5, <1>6 DEF Inv, tables

\* The database commits a transaction, at once or after it was given up on.
LEMMA LandingKeeps ==
    ASSUME Inv, NEW n \in DOMAIN given, Lands(n), Shape', orphans' \subseteq orphans,
           \A c \in Callers : \/ /\ pc'[c] = pc[c] /\ round'[c] = round[c]
                                 /\ staged'[c] = staged[c]
                              \/ Stage(c)'
    PROVE  /\ Inv'
           /\ Promised!Appear(n) \/ UNCHANGED <<handed, readable, raw, latest, acked>>
<1>1. GivenGrows /\ given' = given
  BY DEF Lands, GivenGrows
<1>2. Distinct' /\ Numbered' /\ Orphaned'
  BY <1>1, OrphansStay DEF Inv, Distinct, Numbered
<1>3. Tables' /\ readable' = readable \cup {n}
  BY TablesKept, ReadableAgain DEF Inv
<1>4. \A c \in Callers : Stage(c)'
  BY <1>1, <1>3, StageStays DEF Inv
<1>5. Inv'
  BY <1>2, <1>3, <1>4 DEF Inv
<1>6. handed' = handed /\ DOMAIN handed = DOMAIN given
  BY <1>1 DEF handed
<1>7. CASE n \in readable
  <2>1. RowOf(n) \in aggregated /\ Raws(n) \subseteq raw
    BY <1>7, RowOfReadable DEF Inv, Tables
  <2>2. UNCHANGED tables
    BY <2>1 DEF Lands, tables
  <2>. QED  BY <1>1, <1>5, <1>6, <2>2, TablesStay DEF Inv, Tables, Lands, tables
<1>8. CASE n \notin readable
  <2>1. latest' = [latest EXCEPT ![given[n].asset] =
                      IF @ = 0 \/ given[n].at > given[@].at THEN n ELSE @]
    BY <1>2, <1>8, LatestAfter DEF Inv
  <2>2. \A m \in DOMAIN given : handed[m].asset = given[m].asset /\ handed[m].at = given[m].at
    BY DEF handed
  <2>3. {n} \X handed[n].sources = Raws(n)
    BY DEF handed, Raws
  <2>4. given[n].asset \in Assets
    BY NewRow DEF Inv
  <2>5. latest[given[n].asset] = 0 \/ latest[given[n].asset] \in DOMAIN given
    <3>1. CASE RowsOf(given[n].asset) = {}
      BY <2>4, <3>1 DEF latest
    <3>2. CASE RowsOf(given[n].asset) # {}
      <4>1. LatestOf(given[n].asset) \in aggregated
        BY <2>4, <3>2, LatestIsOne DEF Inv, RowsOf
      <4>. QED  BY <2>4, <3>2, <4>1, NewRow, OldRows DEF latest, Inv, Tables
    <3>. QED  BY <3>1, <3>2
  <2>6. latest' = [latest EXCEPT ![handed[n].asset] = IF Promised!Later(n, @) THEN n ELSE @]
    BY <2>1, <2>2, <2>4, <2>5 DEF Promised!Later, latest
  <2>. QED  BY <1>3, <1>5, <1>6, <1>8, <2>3, <2>6 DEF Promised!Appear, Lands
<1>. QED  BY <1>7, <1>8, <1>5

LEMMA CommitLandsKeeps ==
    ASSUME Inv, NEW c \in Callers, CommitLands(c)
    PROVE  /\ Inv'
           /\ [Promised!Next]_<<handed, readable, raw, latest, acked>>
<1>1. PICK n \in DOMAIN given : n = round[c]
  BY DEF CommitLands, Inv, Stage, Busy
<1>2. staged[c] = Whole(n) /\ pc[c] = "sent"
  BY <1>1 DEF CommitLands, Inv, Stage
<1>3. Lands(n)
  BY <1>2 DEF CommitLands, Apply, Lands, Whole
<1>4. Shape' /\ UNCHANGED <<round, staged, orphans>>
  BY DEF CommitLands, Goto, Inv, Shape, Busy
<1>5. n \in readable' /\ Whole(n)' = Whole(n)
  BY <1>3, ReadableAgain DEF Inv, Lands, Whole, RowOf, Raws
<1>6. Stage(c)'
  BY <1>1, <1>2, <1>3, <1>4, <1>5 DEF CommitLands, Goto, Inv, Shape, Stage, Busy, Lands
<1>7. \A d \in Callers \ {c} :
         pc'[d] = pc[d] /\ round'[d] = round[d] /\ staged'[d] = staged[d]
  BY <1>4 DEF CommitLands, Goto, Inv, Shape
<1>8. Inv' /\ (Promised!Appear(n) \/ UNCHANGED <<handed, readable, raw, latest, acked>>)
  BY <1>3, <1>4, <1>6, <1>7, LandingKeeps
<1>9. DOMAIN handed = DOMAIN given
  BY DEF handed
<1>. QED  BY <1>8, <1>9 DEF Promised!Next

LEMMA OrphanEndsKeeps ==
    ASSUME Inv, NEW t \in orphans, OrphanEnds(t)
    PROVE  /\ Inv'
           /\ [Promised!Next]_<<handed, readable, raw, latest, acked>>
<1>1. PICK n \in DOMAIN given : t = Whole(n)
  BY DEF Inv, Orphaned
<1>2. UNCHANGED <<given, pc, round, staged, acked>> /\ orphans' \subseteq orphans
  BY DEF OrphanEnds
<1>3. Shape' /\ GivenGrows
  BY <1>2 DEF Inv, Shape, GivenGrows
<1>4. CASE Apply(t)
  <2>1. Lands(n)
    BY <1>1, <1>2, <1>4 DEF Apply, Lands, Whole
  <2>2. Inv' /\ (Promised!Appear(n) \/ UNCHANGED <<handed, readable, raw, latest, acked>>)
    BY <1>2, <1>3, <2>1, LandingKeeps
  <2>3. DOMAIN handed = DOMAIN given
    BY DEF handed
  <2>. QED  BY <2>2, <2>3 DEF Promised!Next
<1>5. CASE UNCHANGED tables
  <2>1. Tables' /\ UNCHANGED <<readable, latest>>
    BY <1>2, <1>3, <1>5, TablesStay DEF Inv, Tables
  <2>2. Distinct' /\ Numbered' /\ Orphaned' /\ \A c \in Callers : Stage(c)'
    BY <1>2, <1>3, <2>1, OrphansStay, StageStays DEF Inv, Distinct, Numbered
  <2>3. handed' = handed
    BY <1>2 DEF handed
  <2>. QED  BY <1>2, <1>3, <1>5, <2>1, <2>2, <2>3 DEF Inv, tables
<1>. QED  BY <1>4, <1>5 DEF OrphanEnds

\* The caller is told.
LEMMA CommittedKeeps ==
    ASSUME Inv, NEW c \in Callers, Committed(c)
    PROVE  /\ Inv'
           /\ [Promised!Next]_<<handed, readable, raw, latest, acked>>
<1>1. PICK n \in DOMAIN given : n = round[c] /\ n \in readable
  BY DEF Committed, Inv, Stage, Busy
<1>2. UNCHANGED <<tables, given, orphans>> /\ acked' = acked \cup {n}
  BY <1>1 DEF Committed
<1>3. GivenGrows /\ Nothing \in Inserted
  BY <1>2 DEF GivenGrows, Nothing, Inserted
<1>4. Tables' /\ UNCHANGED <<readable, latest>>
  BY <1>1, <1>2, <1>3, TablesStay DEF Inv, Tables
<1>5. Distinct' /\ Numbered' /\ Orphaned'
  BY <1>2, <1>3, OrphansStay DEF Inv, Distinct, Numbered
<1>6. Shape'
  BY <1>2, <1>3 DEF Committed, Return, Goto, Inv, Shape, Busy
<1>7. Stage(c)'
  BY <1>3 DEF Committed, Return, Goto, Inv, Shape, Stage, Busy, Nothing
<1>8. \A d \in Callers \ {c} :
         pc'[d] = pc[d] /\ round'[d] = round[d] /\ staged'[d] = staged[d]
  BY DEF Committed, Return, Goto, Inv, Shape
<1>9. \A d \in Callers \ {c} : Stage(d)'
  BY <1>3, <1>4, <1>8, StageStays DEF Inv
<1>10. handed' = handed /\ DOMAIN handed = DOMAIN given
  BY <1>2 DEF handed
<1>11. Promised!Tell(n)
  BY <1>1, <1>2, <1>4, <1>10 DEF Promised!Tell, tables
<1>. QED  BY <1>4, <1>5, <1>6, <1>7, <1>9, <1>10, <1>11 DEF Inv, Promised!Next

-----------------------------------------------------------------------------

LEMMA InvInit == Init => Inv /\ Promised!Init
<1>. SUFFICES ASSUME Init  PROVE Inv /\ Promised!Init
  OBVIOUS
<1>1. PICK assets \in SUBSET Assets : aggregated = {OldRow(a) : a \in assets}
  BY DEF Init
<1>2. given \in Seq(Round) /\ DOMAIN given = {}
  BY EmptySeq DEF Init
<1>3. \A r \in aggregated : \E a \in Assets : r = OldRow(a)
  BY <1>1
<1>4. readable = {}
  BY <1>3, OldRows DEF readable
<1>5. \A a \in Assets : \A r \in RowsOf(a) : r.at = 0 /\ r.n = 0
  BY <1>3, OldRows DEF RowsOf
<1>6. Tables
  <2>1. \A a \in Assets : RowsOf(a) # {} =>
           \E r \in RowsOf(a) : \A s \in RowsOf(a) : r.at >= s.at
    BY <1>5
  <2>. QED  BY <1>3, <1>4, <2>1 DEF Tables, Init
<1>7. Shape
  <2>1. Nothing \in Inserted
    BY DEF Nothing, Inserted
  <2>. QED  BY <1>2, <2>1 DEF Init, Shape, Busy
<1>8. Distinct /\ Numbered /\ Orphaned /\ \A c \in Callers : Stage(c)
  BY <1>2 DEF Init, Distinct, Numbered, Orphaned, Stage, Busy
<1>9. latest = [a \in Assets |-> 0]
  <2>. SUFFICES ASSUME NEW a \in Assets  PROVE latest[a] = 0
    BY DEF latest
  <2>1. CASE RowsOf(a) = {}
    BY <2>1 DEF latest
  <2>2. CASE RowsOf(a) # {}
    BY <1>5, <1>6, <1>7, <1>8, <2>2, LatestIsOne DEF latest
  <2>. QED  BY <2>1, <2>2
<1>10. handed = << >>
  BY <1>2 DEF handed
<1>. QED  BY <1>4, <1>6, <1>7, <1>8, <1>9, <1>10 DEF Inv, Promised!Init, Init

\* A call of PersistRound hands a round over.
LEMMA PersistRoundHands ==
    ASSUME Inv, NEW c \in Callers, NEW asset \in Assets, NEW breakdown \in Breakdowns,
           NEW t \in Instants, PersistRound(c, asset, breakdown, t)
    PROVE  Promised!Hand
<1>1. /\ Inv' /\ GivenGrows /\ Len(given') = Len(given) + 1
      /\ UNCHANGED <<tables, acked>>
  BY PersistRoundKeeps DEF PersistRound
<1>2. UNCHANGED <<readable, latest>>
  BY <1>1, TablesStay DEF Inv, Tables
<1>3. /\ DOMAIN given = 1..Len(given) /\ Len(given) \in Nat
      /\ DOMAIN given' = 1..Len(given') /\ Len(given') \in Nat
  BY <1>1, LenProperties DEF Inv, Shape
<1>4. Len(handed) = Len(given) /\ Len(handed') = Len(given')
  BY <1>3 DEF handed
<1>5. \A n \in DOMAIN handed : handed'[n] = handed[n]
  BY <1>1 DEF handed, GivenGrows
<1>. QED  BY <1>1, <1>2, <1>4, <1>5 DEF Promised!Hand, tables

LEMMA NextKeeps ==
    Inv /\ [Next]_vars => Inv' /\ [Promised!Next]_<<handed, readable, raw, latest, acked>>
<1>. SUFFICES ASSUME Inv, [Next]_vars
              PROVE  Inv' /\ [Promised!Next]_<<handed, readable, raw, latest, acked>>
  OBVIOUS
<1>1. ASSUME NEW c \in Callers, NEW asset \in Assets, NEW breakdown \in Breakdowns,
             NEW t \in Instants, PersistRound(c, asset, breakdown, t)
      PROVE  Inv' /\ [Promised!Next]_<<handed, readable, raw, latest, acked>>
  BY <1>1, PersistRoundKeeps, PersistRoundHands DEF Promised!Next
<1>2. ASSUME NEW c \in Callers, Quiet(c)
      PROVE  Inv' /\ [Promised!Next]_<<handed, readable, raw, latest, acked>>
  BY <1>2, QuietKeeps
<1>3. ASSUME NEW c \in Callers, CommitLands(c) \/ Committed(c)
      PROVE  Inv' /\ [Promised!Next]_<<handed, readable, raw, latest, acked>>
  BY <1>3, CommitLandsKeeps, CommittedKeeps
<1>4. ASSUME NEW t \in orphans, OrphanEnds(t)
      PROVE  Inv' /\ [Promised!Next]_<<handed, readable, raw, latest, acked>>
  BY <1>4, OrphanEndsKeeps
<1>5. CASE UNCHANGED vars
  <2>1. GivenGrows /\ UNCHANGED tables
    BY <1>5 DEF vars, tables, GivenGrows
  <2>2. Tables' /\ UNCHANGED <<readable, latest>>
    BY <1>5, <2>1, TablesStay DEF Inv, Tables, vars
  <2>3. Shape' /\ Distinct' /\ Numbered' /\ Orphaned' /\ \A c \in Callers : Stage(c)'
    BY <1>5, <2>1, <2>2, OrphansStay, StageStays DEF Inv, Shape, Distinct, Numbered, vars
  <2>4. handed' = handed
    BY <1>5 DEF handed, vars
  <2>. QED  BY <1>5, <2>2, <2>3, <2>4 DEF Inv, vars
<1>. QED  BY <1>1, <1>2, <1>3, <1>4, <1>5 DEF Next, Persist, Quiet

LEMMA InvHolds == Spec => []Inv
BY InvInit, NextKeeps, PTL DEF Spec

\* For any callers, rounds and connections, and whatever fails, readers find
\* the raw rows and the aggregated row of a round together or not at all
\* (postgres.go: PersistRound).
THEOREM RoundsAreWhole == Spec => []AllOrNothing
<1>1. Inv => AllOrNothing
  <2>. SUFFICES ASSUME Inv, NEW n \in DOMAIN given
                PROVE  {row \in raw : row[1] = n} = IF Stored(n) THEN Raws(n) ELSE {}
    BY DEF AllOrNothing
  <2>1. raw = UNION {Raws(m) : m \in readable} /\ n # 0
    BY Rounds DEF Inv, Tables
  <2>2. \A m : \A row \in Raws(m) : row[1] = m
    BY DEF Raws
  <2>3. Stored(n) <=> n \in readable
    BY <2>1 DEF Stored, readable
  <2>. QED  BY <2>1, <2>2, <2>3
<1>. QED  BY <1>1, InvHolds, PTL

\* The repository does what Store promises: each statement is a step of Store
\* or none, however calls fail and in whatever order COMMITs land
\* (postgres.go: PersistRound, GetLatest).
THEOREM StoreImplemented == Spec => ImplementsStore
<1>1. Init => Promised!Init
  BY InvInit
<1>2. Inv /\ [Next]_vars => [Promised!Next]_<<handed, readable, raw, latest, acked>>
  BY NextKeeps
<1>. QED  BY <1>1, <1>2, InvHolds, PTL DEF Spec, ImplementsStore, Promised!Spec, Promised!vars

-----------------------------------------------------------------------------
(* What is read.                                                           *)

LEMMA Division ==
    ASSUME NEW m \in Nat \ {0}, NEW q \in Nat, NEW r \in 0..(m - 1)
    PROVE  /\ m * q + r \in Nat
           /\ (m * q + r) \div m = q
           /\ (m * q + r) % m = r
<1>. DEFINE x == m * q + r
            p == x \div m
<1>1. m * q \in Nat /\ x \in Nat
  OBVIOUS
<1>. HIDE DEF x
<1>2. x % m \in 0..(m - 1) /\ p \in Nat /\ x = m * p + (x % m)
  BY <1>1, Remainder
<1>. HIDE DEF p
<1>3. m * p \in Nat
  BY <1>2
<1>4. /\ m * p < m * q => m * p + m <= m * q
      /\ m * q < m * p => m * q + m <= m * p
  BY <1>2, Multiples
<1>5. x = m * q + r
  BY DEF x
<1>6. m * p = m * q /\ x % m = r
  BY <1>1, <1>2, <1>3, <1>4, <1>5
<1>7. p = q
  <2>1. p < q => m * (p + 1) <= m * q
    BY <1>2
  <2>2. q < p => m * (q + 1) <= m * p
    BY <1>2
  <2>3. m * (p + 1) = m * p + m /\ m * (q + 1) = m * q + m
    BY <1>2
  <2>. QED  BY <1>1, <1>2, <1>3, <1>6, <2>1, <2>2, <2>3
<1>. QED  BY <1>1, <1>6, <1>7 DEF x, p

\* Cutting to microseconds leaves the seconds as they are.
LEMMA StampSplits ==
    ASSUME NEW t \in Nat
    PROVE  /\ Stamp(t) \in Nat
           /\ Stamp(t) \div Second = t \div Second
           /\ Stamp(t) % Second = Stamp(t % Second)
<1>. DEFINE q == t \div Second
            r == t % Second
<1>1. Second \in Nat \ {0} /\ Micro \in Nat \ {0} /\ Second % Micro = 0
  BY WireAssumption DEF WireAssumption
<1>2. q \in Nat /\ r \in 0..(Second - 1) /\ t = Second * q + r
  BY <1>1, Remainder
<1>. HIDE DEF q, r
<1>. DEFINE k == Second \div Micro
            p == r \div Micro
            d == r % Micro
<1>3. r \in Nat
  BY <1>1, <1>2
<1>4. k \in Nat /\ Second = Micro * k
  BY <1>1, Remainder
<1>5. p \in Nat /\ d \in 0..(Micro - 1) /\ r = Micro * p + d
  BY <1>1, <1>3, Remainder
<1>6. Stamp(r) = r - d
  BY DEF Stamp
<1>. HIDE DEF k, p, d
<1>7. t % Micro = d
  <2>1. k * q + p \in Nat
    BY <1>2, <1>4, <1>5
  <2>2. (Micro * (k * q + p) + d) % Micro = d
    BY <1>1, <1>5, <2>1, Division
  <2>3. Second * q = Micro * (k * q)
    BY <1>1, <1>2, <1>4
  <2>4. Micro * (k * q + p) = Micro * (k * q) + Micro * p
    BY <1>1, <1>2, <1>4, <1>5
  <2>5. k * q \in Nat /\ Micro * (k * q) \in Nat /\ Micro * p \in Nat
    BY <1>1, <1>2, <1>4, <1>5
  <2>6. Micro * (k * q + p) + d = t
    BY <1>1, <1>2, <1>5, <2>3, <2>4, <2>5
  <2>. QED  BY <2>2, <2>6
<1>8. r - d \in 0..(Second - 1)
  <2>1. Micro * p \in Nat
    BY <1>1, <1>5
  <2>. QED  BY <1>1, <1>2, <1>5, <2>1
<1>9. Stamp(t) = Second * q + (r - d)
  <2>1. Second * q \in Nat
    BY <1>1, <1>2
  <2>. QED  BY <1>1, <1>2, <1>5, <1>7, <2>1 DEF Stamp
<1>10. /\ Stamp(t) \in Nat /\ Stamp(t) \div Second = q /\ Stamp(t) % Second = r - d
  <2>. DEFINE x == r - d
  <2>1. x \in 0..(Second - 1) /\ Stamp(t) = Second * q + x
    BY <1>8, <1>9
  <2>. HIDE DEF x
  <2>2. /\ Second * q + x \in Nat
        /\ (Second * q + x) \div Second = q
        /\ (Second * q + x) % Second = x
    BY <1>1, <1>2, <2>1, Division
  <2>. QED  BY <2>1, <2>2 DEF x
<1>. QED  BY <1>6, <1>10 DEF q, r

\* Both tables of the source kinds agree, the zero value included.
LEMMA KindsReturn == \A k \in 0..11 : SourceKindFromString(String(k)) = k
<1>. SUFFICES ASSUME NEW k \in 0..11  PROVE SourceKindFromString(String(k)) = k
  OBVIOUS
<1>1. DOMAIN sourceKindStrings = 1..11
  BY DEF sourceKindStrings
<1>2. CASE k = 0
  BY <1>1, <1>2 DEF String, SourceKindFromString, sourceKindByString, unknownLabel, SourceUnknown
<1>3. CASE k # 0
  <2>1. String(k) = sourceKindStrings[k]
    BY <1>1, <1>3 DEF String
  <2>. QED
    BY <1>3, <2>1 DEF SourceKindFromString, sourceKindByString, sourceKindStrings
<1>. QED  BY <1>2, <1>3

\* Such is the name of a source that the code no longer knows.
LEMMA RetiredIsUnknown == SourceKindFromString(Retired) = 0
<1>1. Retired \notin {sourceKindStrings[i] : i \in 1..11}
  <2>1. DOMAIN sourceKindStrings = 1..11
    BY DEF sourceKindStrings
  <2>. QED  BY <2>1, RepositoryAssumption DEF RepositoryAssumption, ToSet
<1>2. DOMAIN sourceKindByString \subseteq {sourceKindStrings[i] : i \in 1..11}
  BY DEF sourceKindByString, sourceKindStrings
<1>. QED  BY <1>1, <1>2 DEF SourceKindFromString, SourceUnknown

\* The times of a contribution, which survive being cut to seconds.
Times == {t \in Nat : t >= Second} \cup {NoTime}

LEMMA TimesReturn ==
    ASSUME NEW t \in Times
    PROVE  /\ fromUnix(Unix(t)) \in Nat \cup {NoTime}
           /\ unixOrZero(zeroOrUnix(t)) = fromUnix(Unix(t))
           /\ tsOrNil(fromUnix(Unix(t))) = InSeconds(tsOrNil(t))
<1>1. Second \in Nat \ {0} /\ NoTime \notin Int /\ Nil \notin [seconds : Int, rest : Int]
  BY WireAssumption DEF WireAssumption
<1>2. CASE t = NoTime
  BY <1>2 DEF fromUnix, Unix, unixOrZero, zeroOrUnix, tsOrNil, InSeconds
<1>3. CASE t # NoTime
  <2>. DEFINE q == t \div Second
  <2>1. t \in Nat /\ t >= Second
    BY <1>3 DEF Times
  <2>2. q \in Nat /\ t % Second \in 0..(Second - 1) /\ t = Second * q + (t % Second)
    BY <1>1, <2>1, Remainder
  <2>3. Unix(t) = q
    BY <1>3 DEF Unix
  <2>4. tsOrNil(t) = [seconds |-> q, rest |-> t % Second]
    BY <1>3 DEF tsOrNil
  <2>. HIDE DEF q
  <2>5. q # 0
    BY <1>1, <2>1, <2>2
  <2>6. q # ZeroUnix
    BY <2>2 DEF ZeroUnix
  <2>7. fromUnix(q) = Second * q /\ Second * q \in Nat /\ q * Second = Second * q
    BY <1>1, <2>2, <2>6 DEF fromUnix
  <2>8. (Second * q) \div Second = q /\ (Second * q) % Second = 0
    <3>1. 0 \in 0..(Second - 1)
      BY <1>1
    <3>2. (Second * q + 0) \div Second = q /\ (Second * q + 0) % Second = 0
      BY <1>1, <2>2, <3>1, Division
    <3>. QED  BY <2>7, <3>2
  <2>9. tsOrNil(Second * q) = [seconds |-> q, rest |-> 0]
    BY <1>1, <2>7, <2>8 DEF tsOrNil
  <2>10. InSeconds(tsOrNil(t)) = [seconds |-> q, rest |-> 0]
    BY <1>1, <2>2, <2>4 DEF InSeconds
  <2>. QED  BY <1>3, <2>3, <2>5, <2>7, <2>9, <2>10 DEF unixOrZero, zeroOrUnix
<1>. QED  BY <1>2, <1>3

LEMMA ProtoTimesReturn ==
    ASSUME NEW t \in Nat \cup {NoTime}
    PROVE  tsOrZero(tsOrNil(t)) = t
<1>1. Second \in Nat \ {0} /\ NoTime \notin Int /\ Nil \notin [seconds : Int, rest : Int]
  BY WireAssumption DEF WireAssumption
<1>2. CASE t = NoTime
  BY <1>2 DEF tsOrZero, tsOrNil
<1>3. CASE t # NoTime
  <2>. DEFINE q == t \div Second
              r == t % Second
  <2>1. q \in Nat /\ r \in 0..(Second - 1) /\ t = Second * q + r
    BY <1>1, <1>3, Remainder
  <2>2. tsOrNil(t) = [seconds |-> q, rest |-> r]
    BY <1>3 DEF tsOrNil
  <2>. HIDE DEF q, r
  <2>3. tsOrNil(t) # Nil
    BY <1>1, <2>1, <2>2
  <2>4. q * Second = Second * q
    BY <1>1, <2>1
  <2>. QED  BY <2>1, <2>2, <2>3, <2>4 DEF tsOrZero
<1>. QED  BY <1>2, <1>3

\* One contribution, in the table, out of it, in a message, out of that.
AsStored(s) == [s EXCEPT !.source = String(@), !.fetched = Unix(@), !.observed = zeroOrUnix(@)]
AsRead(s) ==
    [s EXCEPT !.source = SourceKindFromString(@), !.fetched = fromUnix(@), !.observed = unixOrZero(@)]
AsSent(s) == [s EXCEPT !.source = String(@), !.fetched = tsOrNil(@), !.observed = tsOrNil(@)]
AsReceived(s) ==
    [s EXCEPT !.source = SourceKindFromString(@), !.fetched = tsOrZero(@), !.observed = tsOrZero(@)]

Contribution(k, p, f, o, a, i) ==
    [source |-> k, price |-> p, fetched |-> f, observed |-> o, age |-> a, included |-> i]

LEMMA ContributionMoves ==
    ASSUME NEW k, NEW p, NEW f, NEW o, NEW a, NEW i
    PROVE  /\ AsStored(Contribution(k, p, f, o, a, i)) =
                Contribution(String(k), p, Unix(f), zeroOrUnix(o), a, i)
           /\ AsRead(Contribution(k, p, f, o, a, i)) =
                Contribution(SourceKindFromString(k), p, fromUnix(f), unixOrZero(o), a, i)
           /\ AsSent(Contribution(k, p, f, o, a, i)) =
                Contribution(String(k), p, tsOrNil(f), tsOrNil(o), a, i)
           /\ AsReceived(Contribution(k, p, f, o, a, i)) =
                Contribution(SourceKindFromString(k), p, tsOrZero(f), tsOrZero(o), a, i)
           /\ InWholeSeconds(Contribution(k, p, f, o, a, i)) =
                Contribution(k, p, InSeconds(f), InSeconds(o), a, i)
<1>. DEFINE s == Contribution(k, p, f, o, a, i)
<1>1. s.source = k /\ s.fetched = f /\ s.observed = o
  BY DEF Contribution
<1>2. ASSUME NEW K, NEW F, NEW O
      PROVE  /\ [s EXCEPT !.source = K, !.fetched = F, !.observed = O] =
                   Contribution(K, p, F, O, a, i)
             /\ [s EXCEPT !.fetched = F, !.observed = O] = Contribution(k, p, F, O, a, i)
  <2>1. [s EXCEPT !.source = K] = Contribution(K, p, f, o, a, i)
    BY DEF Contribution
  <2>2. [Contribution(K, p, f, o, a, i) EXCEPT !.fetched = F] = Contribution(K, p, F, o, a, i)
    BY DEF Contribution
  <2>3. [Contribution(K, p, F, o, a, i) EXCEPT !.observed = O] = Contribution(K, p, F, O, a, i)
    BY DEF Contribution
  <2>4. [s EXCEPT !.fetched = F] = Contribution(k, p, F, o, a, i)
    BY DEF Contribution
  <2>5. [Contribution(k, p, F, o, a, i) EXCEPT !.observed = O] = Contribution(k, p, F, O, a, i)
    BY DEF Contribution
  <2>. HIDE DEF s
  <2>6. [s EXCEPT !.source = K, !.fetched = F, !.observed = O] =
          [[[s EXCEPT !.source = K] EXCEPT !.fetched = F] EXCEPT !.observed = O]
    OBVIOUS
  <2>7. [s EXCEPT !.fetched = F, !.observed = O] =
          [[s EXCEPT !.fetched = F] EXCEPT !.observed = O]
    OBVIOUS
  <2>. QED  BY <2>1, <2>2, <2>3, <2>4, <2>5, <2>6, <2>7
<1>. HIDE DEF s
<1>3. AsStored(s) = Contribution(String(k), p, Unix(f), zeroOrUnix(o), a, i)
  BY <1>1, <1>2 DEF AsStored
<1>4. AsRead(s) = Contribution(SourceKindFromString(k), p, fromUnix(f), unixOrZero(o), a, i)
  BY <1>1, <1>2 DEF AsRead
<1>5. AsSent(s) = Contribution(String(k), p, tsOrNil(f), tsOrNil(o), a, i)
  BY <1>1, <1>2 DEF AsSent
<1>6. AsReceived(s) = Contribution(SourceKindFromString(k), p, tsOrZero(f), tsOrZero(o), a, i)
  BY <1>1, <1>2 DEF AsReceived
<1>7. InWholeSeconds(s) = Contribution(k, p, InSeconds(f), InSeconds(o), a, i)
  BY <1>1, <1>2 DEF InWholeSeconds
<1>. QED  BY <1>3, <1>4, <1>5, <1>6, <1>7 DEF s

LEMMA MessageReturns ==
    ASSUME NEW k \in 0..11, NEW p, NEW f \in Nat \cup {NoTime}, NEW o \in Nat \cup {NoTime},
           NEW a, NEW i
    PROVE  AsReceived(AsSent(Contribution(k, p, f, o, a, i))) = Contribution(k, p, f, o, a, i)
<1>1. AsReceived(AsSent(Contribution(k, p, f, o, a, i))) =
        Contribution(SourceKindFromString(String(k)), p, tsOrZero(tsOrNil(f)),
                     tsOrZero(tsOrNil(o)), a, i)
  BY ContributionMoves
<1>. QED  BY <1>1, KindsReturn, ProtoTimesReturn

LEMMA RowReturns ==
    ASSUME NEW k \in AllSources, NEW p, NEW f \in Times, NEW o \in Times, NEW a, NEW i
    PROVE  LET s == Contribution(k, p, f, o, a, i)
               read == Contribution(k, p, fromUnix(Unix(f)), fromUnix(Unix(o)), a, i)
           IN  /\ AsRead(AsStored(s)) = read
               /\ AsReceived(AsSent(read)) = read
               /\ AsSent(read) = InWholeSeconds(AsSent(s))
<1>. DEFINE s == Contribution(k, p, f, o, a, i)
            read == Contribution(k, p, fromUnix(Unix(f)), fromUnix(Unix(o)), a, i)
<1>1. k \in 0..11
  BY DEF AllSources
<1>2. /\ fromUnix(Unix(f)) \in Nat \cup {NoTime} /\ fromUnix(Unix(o)) \in Nat \cup {NoTime}
      /\ unixOrZero(zeroOrUnix(o)) = fromUnix(Unix(o))
      /\ tsOrNil(fromUnix(Unix(f))) = InSeconds(tsOrNil(f))
      /\ tsOrNil(fromUnix(Unix(o))) = InSeconds(tsOrNil(o))
  BY TimesReturn
<1>3. AsRead(AsStored(s)) = read
  <2>1. AsRead(AsStored(s)) =
          Contribution(SourceKindFromString(String(k)), p, fromUnix(Unix(f)),
                       unixOrZero(zeroOrUnix(o)), a, i)
    BY ContributionMoves
  <2>. QED  BY <1>1, <1>2, <2>1, KindsReturn
<1>4. AsSent(read) = InWholeSeconds(AsSent(s))
  <2>1. AsSent(read) =
          Contribution(String(k), p, tsOrNil(fromUnix(Unix(f))), tsOrNil(fromUnix(Unix(o))), a, i)
    BY ContributionMoves
  <2>2. AsSent(s) = Contribution(String(k), p, tsOrNil(f), tsOrNil(o), a, i)
    BY ContributionMoves
  <2>3. InWholeSeconds(Contribution(String(k), p, tsOrNil(f), tsOrNil(o), a, i)) =
          Contribution(String(k), p, InSeconds(tsOrNil(f)), InSeconds(tsOrNil(o)), a, i)
    BY ContributionMoves
  <2>. QED  BY <1>2, <2>1, <2>2, <2>3
<1>5. AsReceived(AsSent(read)) = read
  <2>1. \A g, h \in Nat \cup {NoTime} :
           AsReceived(AsSent(Contribution(k, p, g, h, a, i))) = Contribution(k, p, g, h, a, i)
    BY <1>1, MessageReturns
  <2>. QED  BY <1>2, <2>1
<1>. QED  BY <1>3, <1>4, <1>5

\* What fetchAll makes of a fetch.
LEMMA ContributionsTyped ==
    ASSUME NEW b \in Breakdowns, NEW t \in Instants, NEW j \in DOMAIN b
    PROVE  \E k \in AllSources, f \in Times, o \in Times : \E p, a, i :
               Contributions(b, t)[j] = Contribution(k, p, f, o, a, i)
<1>1. b[j] \in Answer \cup Failure /\ b[j] \in ToSet(b)
  BY RepositoryAssumption DEF RepositoryAssumption, ToSet
<1>2. t \in Nat
  BY StampTyped
<1>3. NoTime \in Times
  BY DEF Times
<1>4. CASE b[j].price = None
  <2>1. Contributions(b, t)[j] = Contribution(b[j].kind, 0, NoTime, NoTime, 0, FALSE)
    BY <1>4 DEF Contributions, Absent, Contribution
  <2>2. b[j].kind \in AllSources
    BY <1>1 DEF Answer, Failure
  <2>. QED  BY <1>3, <2>1, <2>2
<1>5. CASE b[j].price # None
  <2>1. b[j] \in Answer
    BY <1>1, <1>5 DEF Failure
  <2>2. /\ t - b[j].fetched >= Second
        /\ b[j].observed # NoTime => t - b[j].observed >= Second
    BY <1>1, <2>1, RepositoryAssumption DEF RepositoryAssumption
  <2>. DEFINE f == t - b[j].fetched
              o == IF b[j].observed = NoTime THEN NoTime ELSE t - b[j].observed
  <2>3. f \in Times /\ o \in Times /\ b[j].kind \in AllSources
    BY <1>2, <2>1, <2>2, WireAssumption DEF Answer, Times, WireAssumption
  <2>4. Contributions(b, t)[j] =
          Contribution(b[j].kind, b[j].price, f, o, AgeSec(o, t - 1), b[j].included)
    BY <1>5 DEF Contributions, Answered, Contribution
  <2>. HIDE DEF f, o
  <2>. QED  BY <2>3, <2>4
<1>. QED  BY <1>4, <1>5

LEMMA SourcesReturn ==
    ASSUME NEW b \in Breakdowns, NEW t \in Instants
    PROVE  LET sources == Contributions(b, t)
               read == [i \in DOMAIN sources |-> AsRead(AsStored(sources[i]))]
           IN  /\ decodeBreakdown(encodeBreakdown(sources)) = read
               /\ \A i \in DOMAIN sources :
                     /\ AsReceived(AsSent(read[i])) = read[i]
                     /\ AsSent(read[i]) = InWholeSeconds(AsSent(sources[i]))
<1>. DEFINE sources == Contributions(b, t)
            read == [i \in DOMAIN sources |-> AsRead(AsStored(sources[i]))]
<1>1. DOMAIN sources = DOMAIN b
  BY DEF Contributions
<1>2. ASSUME NEW i \in DOMAIN sources
      PROVE  /\ AsReceived(AsSent(read[i])) = read[i]
             /\ AsSent(read[i]) = InWholeSeconds(AsSent(sources[i]))
  <2>1. PICK k \in AllSources, f \in Times, o \in Times :
           \E p, a, inc : sources[i] = Contribution(k, p, f, o, a, inc)
    BY <1>1, ContributionsTyped
  <2>2. PICK p, a, inc : sources[i] = Contribution(k, p, f, o, a, inc)
    BY <2>1
  <2>. DEFINE s == Contribution(k, p, f, o, a, inc)
  <2>3. /\ AsReceived(AsSent(AsRead(AsStored(s)))) = AsRead(AsStored(s))
        /\ AsSent(AsRead(AsStored(s))) = InWholeSeconds(AsSent(s))
    BY RowReturns
  <2>. QED  BY <2>2, <2>3
<1>3. decodeBreakdown(encodeBreakdown(sources)) = read
  <2>. HIDE DEF sources
  <2>1. encodeBreakdown(sources) = [i \in DOMAIN sources |-> AsStored(sources[i])]
    BY DEF encodeBreakdown, AsStored
  <2>. DEFINE entries == [i \in DOMAIN sources |-> AsStored(sources[i])]
  <2>2. decodeBreakdown(entries) = [i \in DOMAIN entries |-> AsRead(entries[i])]
    BY DEF decodeBreakdown, AsRead
  <2>. QED  BY <2>1, <2>2
<1>. QED  BY <1>2, <1>3

RoundOf(asset, price, at, sources) ==
    [asset |-> asset, price |-> price, at |-> at, sources |-> sources]
Message(asset, price, at, sources) ==
    [assetId |-> asset, price |-> price, aggregatedAt |-> at, sources |-> sources]

AllSent(sources) == [i \in DOMAIN sources |-> AsSent(sources[i])]
AllReceived(sources) == [i \in DOMAIN sources |-> AsReceived(sources[i])]
AllCut(sources) == [i \in DOMAIN sources |-> InWholeSeconds(sources[i])]

LEMMA RoundMoves ==
    ASSUME NEW asset, NEW price, NEW at, NEW sources
    PROVE  /\ ToProto(RoundOf(asset, price, at, sources)) =
                Message(asset, price, tsOrNil(at), AllSent(sources))
           /\ FromProto(Message(asset, price, at, sources)) =
                RoundOf(asset, price, tsOrZero(at), AllReceived(sources))
           /\ Cut(Message(asset, price, at, sources)) =
                Message(asset, price, InMicros(at),
                        AllCut(sources))
<1>1. ToProto(RoundOf(asset, price, at, sources)) =
        Message(asset, price, tsOrNil(at), AllSent(sources))
  BY DEF ToProto, RoundOf, Message, AsSent, AllSent
<1>2. FromProto(Message(asset, price, at, sources)) =
        RoundOf(asset, price, tsOrZero(at), AllReceived(sources))
  BY DEF FromProto, RoundOf, Message, AsReceived, AllReceived
<1>3. Cut(Message(asset, price, at, sources)) =
        Message(asset, price, InMicros(at), AllCut(sources))
  <2>. DEFINE m == Message(asset, price, at, sources)
              cut == AllCut(sources)
  <2>1. m.aggregatedAt = at /\ m.sources = sources
    BY DEF Message
  <2>2. ASSUME NEW T, NEW S
        PROVE  [m EXCEPT !.aggregatedAt = T, !.sources = S] = Message(asset, price, T, S)
    <3>1. [m EXCEPT !.aggregatedAt = T] = Message(asset, price, T, sources)
      BY DEF Message
    <3>2. [Message(asset, price, T, sources) EXCEPT !.sources = S] = Message(asset, price, T, S)
      BY DEF Message
    <3>. HIDE DEF m
    <3>3. [m EXCEPT !.aggregatedAt = T, !.sources = S] =
            [[m EXCEPT !.aggregatedAt = T] EXCEPT !.sources = S]
      OBVIOUS
    <3>. QED  BY <3>1, <3>2, <3>3
  <2>. HIDE DEF m
  <2>3. Cut(m) = [m EXCEPT !.aggregatedAt = InMicros(at), !.sources = cut]
    BY <2>1 DEF Cut, AllCut
  <2>. HIDE DEF cut
  <2>4. Cut(m) = Message(asset, price, InMicros(at), cut)
    BY <2>2, <2>3
  <2>. QED  BY <2>4 DEF m, cut
<1>. QED  BY <1>1, <1>2, <1>3

\* A client gets what was sent, if a message can tell it.
LEMMA ClientGets ==
    ASSUME NEW asset, NEW price, NEW at \in Nat, NEW S, NEW f,
           \A i \in S : AsReceived(AsSent(f[i])) = f[i]
    PROVE  LET got == RoundOf(asset, price, at, [i \in S |-> f[i]])
           IN  FromProto(ToProto(got)) = got
<1>. DEFINE sources == [i \in S |-> f[i]]
            sent == AllSent(sources)
            received == AllReceived(sent)
<1>1. received = sources
  BY DEF AllReceived, AllSent
<1>. HIDE DEF sources
<1>2. ToProto(RoundOf(asset, price, at, sources)) = Message(asset, price, tsOrNil(at), sent)
  BY RoundMoves
<1>. HIDE DEF sent
<1>3. FromProto(Message(asset, price, tsOrNil(at), sent)) =
        RoundOf(asset, price, tsOrZero(tsOrNil(at)), received)
  BY RoundMoves
<1>4. tsOrZero(tsOrNil(at)) = at
  BY ProtoTimesReturn
<1>. QED  BY <1>1, <1>2, <1>3, <1>4 DEF sources

\* The row of a round, read and sent.
LEMMA RoundReturns ==
    ASSUME Shape, Numbered, NEW n \in DOMAIN given
    PROVE  LET got == Decoded(RowOf(n))
           IN  /\ got.price = n
               /\ FromProto(ToProto(got)) = got
               /\ ToProto(got) = Cut(ToProto(given[n]))
<1>1. given[n] \in Round /\ given[n].price = n
  BY Rounds DEF Numbered
<1>2. PICK b \in Breakdowns, t0 \in Instants : given[n].sources = Contributions(b, t0)
  BY <1>1 DEF Round
<1>. DEFINE sources == given[n].sources
            read == [i \in DOMAIN sources |-> AsRead(AsStored(sources[i]))]
            t == given[n].at
            asset == given[n].asset
<1>3. /\ decodeBreakdown(encodeBreakdown(sources)) = read
      /\ \A i \in DOMAIN sources :
            /\ AsReceived(AsSent(read[i])) = read[i]
            /\ AsSent(read[i]) = InWholeSeconds(AsSent(sources[i]))
  BY <1>2, SourcesReturn
<1>4. t \in Nat
  BY <1>1, StampTyped DEF Round
<1>5. /\ Stamp(t) \in Nat
      /\ Stamp(t) \div Second = t \div Second
      /\ Stamp(t) % Second = Stamp(t % Second)
  BY <1>4, StampSplits
<1>6. tsOrNil(Stamp(t)) = InMicros(tsOrNil(t))
  BY <1>4, <1>5, WireAssumption DEF WireAssumption, tsOrNil, InMicros
<1>7. given[n] = RoundOf(asset, n, t, sources)
  BY <1>1 DEF Round, RoundOf
<1>8. Decoded(RowOf(n)) = RoundOf(asset, n, Stamp(t), read)
  BY <1>3 DEF Decoded, RowOf, RoundOf
<1>. HIDE DEF sources, t, asset
<1>9. FromProto(ToProto(Decoded(RowOf(n)))) = Decoded(RowOf(n))
  <2>. HIDE DEF read
  <2>1. read = [i \in DOMAIN sources |-> read[i]]
    BY DEF read
  <2>2. FromProto(ToProto(RoundOf(asset, n, Stamp(t), [i \in DOMAIN sources |-> read[i]]))) =
          RoundOf(asset, n, Stamp(t), [i \in DOMAIN sources |-> read[i]])
    BY <1>3, <1>5, ClientGets
  <2>. QED  BY <1>8, <2>1, <2>2
<1>. DEFINE wire == AllSent(sources)
<1>10. Cut(ToProto(given[n])) =
         Message(asset, n, InMicros(tsOrNil(t)), AllCut(wire))
  <2>1. ToProto(RoundOf(asset, n, t, sources)) = Message(asset, n, tsOrNil(t), wire)
    BY RoundMoves
  <2>. HIDE DEF wire
  <2>. QED  BY <1>7, <2>1, RoundMoves
<1>11. ToProto(Decoded(RowOf(n))) =
         Message(asset, n, tsOrNil(Stamp(t)), AllSent(read))
  <2>. HIDE DEF read
  <2>. QED  BY <1>8, RoundMoves
<1>12. AllSent(read) = AllCut(wire)
  BY <1>3 DEF AllSent, AllCut
<1>13. Decoded(RowOf(n)).price = n
  <2>. HIDE DEF read
  <2>. QED  BY <1>8 DEF RoundOf
<1>. QED  BY <1>6, <1>9, <1>10, <1>11, <1>12, <1>13

\* The row of an older version, read and sent.
LEMMA OldReturns ==
    ASSUME NEW a \in Assets
    PROVE  LET got == Decoded(OldRow(a))
           IN  got.price = 0 /\ FromProto(ToProto(got)) = got
<1>. DEFINE zero == 0
            one == 1
            yes == TRUE
            old == Contribution(Retired, zero, one, zero, zero, yes)
            new == Contribution(zero, zero, fromUnix(one), NoTime, zero, yes)
            entries == OldRow(a).breakdown
            read == decodeBreakdown(entries)
<1>1. DOMAIN entries = {1} /\ entries[1] = old
  BY DEF OldRow, Contribution
<1>2. Decoded(OldRow(a)) = RoundOf(a, 0, 0, read)
  BY DEF Decoded, OldRow, RoundOf
<1>3. fromUnix(one) \in Nat \cup {NoTime} /\ unixOrZero(zero) = NoTime
  BY WireAssumption DEF WireAssumption, fromUnix, ZeroUnix, unixOrZero
<1>4. zero \in 0..11
  OBVIOUS
<1>5. SourceKindFromString(Retired) = zero
  BY RetiredIsUnknown
<1>. HIDE DEF zero, one, yes, entries
<1>6. AsRead(old) = new
  BY <1>3, <1>5, ContributionMoves
<1>7. AsReceived(AsSent(new)) = new
  <2>1. \A f, o \in Nat \cup {NoTime} :
           AsReceived(AsSent(Contribution(zero, zero, f, o, zero, yes))) =
             Contribution(zero, zero, f, o, zero, yes)
    BY <1>4, MessageReturns
  <2>. QED  BY <1>3, <2>1
<1>. HIDE DEF old, new
<1>8. read = [i \in {1} |-> new]
  BY <1>1, <1>6 DEF decodeBreakdown, AsRead
<1>9. FromProto(ToProto(RoundOf(a, 0, 0, read))) = RoundOf(a, 0, 0, read)
  <2>. DEFINE f == [i \in {1} |-> new]
  <2>1. f = [i \in {1} |-> f[i]] /\ \A i \in {1} : AsReceived(AsSent(f[i])) = f[i]
    BY <1>7
  <2>2. 0 \in Nat
    OBVIOUS
  <2>. HIDE DEF f
  <2>3. FromProto(ToProto(RoundOf(a, 0, 0, [i \in {1} |-> f[i]]))) =
          RoundOf(a, 0, 0, [i \in {1} |-> f[i]])
    BY <2>1, <2>2, ClientGets
  <2>. QED  BY <1>8, <2>1, <2>3 DEF f
<1>. QED
  <2>. HIDE DEF read
  <2>. QED  BY <1>2, <1>9 DEF RoundOf

\* For any rounds and any times at which they end: what GetPrice sends of a
\* round is what Subscribe sent, but for the precision of its times, and a
\* client parses it back to what GetLatest returned (postgres.go:
\* encodeBreakdown, decodeBreakdown; proto.go: ToProto, AggregatedPriceFromProto).
THEOREM ReadsReturnRounds == Spec => []ReadsWhatWasStreamed
<1>1. Inv => ReadsWhatWasStreamed
  <2>. SUFFICES ASSUME Inv, NEW a \in Assets, GetLatest(a) # NoRound
                PROVE  LET got == GetLatest(a)
                       IN  /\ FromProto(ToProto(got)) = got
                           /\ got.price > 0 => ToProto(got) = Cut(ToProto(given[got.price]))
    BY DEF ReadsWhatWasStreamed
  <2>1. RowsOf(a) # {} /\ GetLatest(a) = Decoded(LatestOf(a))
    BY DEF GetLatest
  <2>2. LatestOf(a) \in aggregated
    BY <2>1, LatestIsOne DEF Inv, RowsOf
  <2>3. CASE \E n \in DOMAIN given : LatestOf(a) = RowOf(n)
    <3>1. PICK n \in DOMAIN given : LatestOf(a) = RowOf(n)
      BY <2>3
    <3>. QED  BY <2>1, <3>1, RoundReturns DEF Inv
  <2>4. CASE \E o \in Assets : LatestOf(a) = OldRow(o)
    BY <2>1, <2>4, OldReturns
  <2>. QED  BY <2>2, <2>3, <2>4 DEF Inv, Tables
<1>. QED  BY <1>1, InvHolds, PTL

-----------------------------------------------------------------------------
(* Histories.                                                              *)

LEMMA RowsFinite ==
    ASSUME Shape, Tables, NEW a \in Assets
    PROVE  IsFiniteSet(RowsOf(a))
<1>. DEFINE row == [n \in DOMAIN given |-> RowOf(n)]
            rows == {row[n] : n \in DOMAIN given}
<1>1. IsFiniteSet(DOMAIN given)
  <2>1. DOMAIN given = 1..Len(given) /\ 1 \in Int /\ Len(given) \in Int
    BY LenProperties DEF Shape
  <2>. QED  BY <2>1, FS_Interval
<1>2. IsFiniteSet(rows)
  <2>. HIDE DEF row
  <2>. QED  BY <1>1, ImageFinite
<1>3. RowsOf(a) \subseteq rows \cup {OldRow(a)}
  <2>. SUFFICES ASSUME NEW r \in RowsOf(a)  PROVE r \in rows \cup {OldRow(a)}
    OBVIOUS
  <2>1. CASE \E n \in DOMAIN given : r = RowOf(n)
    BY <2>1
  <2>2. CASE \E o \in Assets : r = OldRow(o)
    BY <2>2, OldRows DEF RowsOf
  <2>. QED  BY <2>1, <2>2 DEF RowsOf, Tables
<1>4. IsFiniteSet(rows \cup {OldRow(a)})
  <2>. HIDE DEF rows
  <2>. QED  BY <1>2, FS_AddElement
<1>. QED  BY <1>3, <1>4, FS_Subset

\* What ORDER BY makes of any rows.
LEMMA DescendingSorts ==
    ASSUME NEW rows, IsFiniteSet(rows), \A r \in rows : r.at \in Int
    PROVE  /\ Descending(rows) \in [1..Cardinality(rows) -> rows]
           /\ \A i, j \in 1..Cardinality(rows) :
                 i < j => Descending(rows)[i].at >= Descending(rows)[j].at
           /\ \A r \in rows : \E i \in 1..Cardinality(rows) : Descending(rows)[i] = r
<1>. DEFINE key == [r \in rows |-> 0 - r.at]
            n == Cardinality(rows)
<1>1. \A r \in rows : key[r] \in Int
  OBVIOUS
<1>2. PICK f : Sorted(key, rows, f)
  <2>. HIDE DEF key
  <2>. QED  BY <1>1, SortedExists
<1>3. /\ f \in [1..n -> rows]
      /\ \A r \in rows : \E i \in 1..n : f[i] = r
      /\ \A i, j \in 1..n : i <= j => key[f[i]] <= key[f[j]]
  BY <1>2 DEF Sorted, Bijection, Surjection, Injection
<1>4. \A i, j \in 1..n : i < j => f[i].at >= f[j].at
  <2>. SUFFICES ASSUME NEW i \in 1..n, NEW j \in 1..n, i < j  PROVE f[i].at >= f[j].at
    OBVIOUS
  <2>1. n \in Nat
    BY FS_CardinalityType
  <2>2. f[i] \in rows /\ f[j] \in rows /\ key[f[i]] <= key[f[j]]
    <3>. HIDE DEF n, key
    <3>. QED  BY <1>3, <2>1
  <2>. QED  BY <2>2
<1>5. Range(f) = rows /\ DOMAIN f = 1..n
  BY <1>3 DEF Range
<1>6. /\ Descending(rows) \in [1..n -> rows]
      /\ \A i, j \in DOMAIN Descending(rows) :
            i < j => Descending(rows)[i].at >= Descending(rows)[j].at
      /\ Range(Descending(rows)) = rows
  <2>. HIDE DEF key
  <2>. QED  BY <1>3, <1>4, <1>5 DEF Descending
<1>. QED  BY <1>6 DEF Range

\* A list cut short.
LEMMA PrefixOfList ==
    ASSUME NEW n \in Nat, NEW k \in 0..n, NEW f
    PROVE  IsPrefix([i \in 1..k |-> f[i]], [i \in 1..n |-> f[i]])
<1>. DEFINE s == [i \in 1..k |-> f[i]]
            t == [i \in 1..n |-> f[i]]
            S == {f[i] : i \in 1..n}
<1>1. s \in Seq(S) /\ Len(s) = k /\ t \in Seq(S) /\ Len(t) = n
  OBVIOUS
<1>2. /\ \A i \in 1..k : s[i] \in S /\ t[i] \in S /\ s[i] = t[i]
      /\ 1 \in Int /\ k \in Int
  OBVIOUS
<1>. HIDE DEF s, t, S
<1>3. /\ SubSeq(s, 1, k) \in Seq(S)
      /\ Len(SubSeq(s, 1, k)) = IF 1 <= k THEN k - 1 + 1 ELSE 0
      /\ \A i \in 1..(k - 1 + 1) : SubSeq(s, 1, k)[i] = s[1 + i - 1]
  BY <1>2, SubSeqProperties
<1>4. /\ SubSeq(t, 1, k) \in Seq(S)
      /\ Len(SubSeq(t, 1, k)) = IF 1 <= k THEN k - 1 + 1 ELSE 0
      /\ \A i \in 1..(k - 1 + 1) : SubSeq(t, 1, k)[i] = t[1 + i - 1]
  BY <1>2, SubSeqProperties
<1>5. \A i \in 1..k : 1 + i - 1 = i /\ i \in 1..(k - 1 + 1)
  OBVIOUS
<1>6. \A i \in 1..k : SubSeq(s, 1, k)[i] = SubSeq(t, 1, k)[i]
  BY <1>2, <1>3, <1>4, <1>5
<1>7. Len(SubSeq(s, 1, k)) = k /\ Len(SubSeq(t, 1, k)) = k
  BY <1>3, <1>4
<1>8. SubSeq(s, 1, k) = SubSeq(t, 1, k)
  BY <1>3, <1>4, <1>6, <1>7, SeqEqual
<1>. QED  BY <1>1, <1>8 DEF IsPrefix, s, t

\* For any rounds in the table, any limit and any end of the range: a longer
\* history continues a shorter one, and one that leaves no row out starts with
\* the latest (postgres.go: GetHistory, GetLatest).
THEOREM HistoriesAgree == Spec => []HistoryStartsWithLatest
<1>1. Inv => HistoryStartsWithLatest
  <2>. SUFFICES ASSUME Inv, NEW a \in Assets, NEW to \in Instants, NEW limit \in 1..MaxRounds
                PROVE  LET all == GetHistory(a, 0, to, 0)
                           some == GetHistory(a, 0, to, limit)
                       IN  /\ IsPrefix(some, all)
                           /\ all # << >> /\ (\A r \in RowsOf(a) : r.at <= to) =>
                                Head(some) = GetLatest(a)
    BY DEF HistoryStartsWithLatest
  <2>. DEFINE rows == Between(a, 0, to)
              n == Cardinality(rows)
              f == [i \in 1..n |-> Decoded(Descending(rows)[i])]
              k == Limited(limit, n)
              all == GetHistory(a, 0, to, 0)
              some == GetHistory(a, 0, to, limit)
  <2>1. rows \subseteq RowsOf(a) /\ IsFiniteSet(rows) /\ n \in Nat
    <3>1. rows \subseteq RowsOf(a)
      BY DEF Between, RowsOf
    <3>. QED  BY <3>1, RowsFinite, FS_Subset, FS_CardinalityType DEF Inv
  <2>2. \A r \in RowsOf(a) : r.at \in Int /\ r.at >= 0
    BY NewRow, OldRows DEF Inv, Tables, RowsOf
  <2>3. /\ Descending(rows) \in [1..n -> rows]
        /\ \A i, j \in 1..n : i < j => Descending(rows)[i].at >= Descending(rows)[j].at
        /\ \A r \in rows : \E i \in 1..n : Descending(rows)[i] = r
    BY <2>1, <2>2, DescendingSorts
  <2>4. limit \in Nat \ {0} /\ to \in Nat
    BY StampTyped, RepositoryAssumption DEF RepositoryAssumption
  <2>5. k \in 0..n /\ (n # 0 => k # 0) /\ Limited(0, n) = n
    <3>. HIDE DEF n
    <3>. QED  BY <2>1, <2>4 DEF Limited
  <2>6. /\ all = [i \in 1..Limited(0, n) |-> Decoded(Descending(rows)[i])]
        /\ some = [i \in 1..k |-> Decoded(Descending(rows)[i])]
    BY DEF GetHistory
  <2>. HIDE DEF rows, n, k, all, some
  <2>7. all = [i \in 1..n |-> f[i]] /\ some = [i \in 1..k |-> f[i]]
    BY <2>1, <2>5, <2>6
  <2>8. IsPrefix(some, all)
    <3>. HIDE DEF f
    <3>. QED  BY <2>1, <2>5, <2>7, PrefixOfList
  <2>9. ASSUME all # << >>, \A r \in RowsOf(a) : r.at <= to
        PROVE  Head(some) = GetLatest(a)
    <3>1. n # 0
      BY <2>1, <2>7, <2>9
    <3>. DEFINE first == Descending(rows)[1]
    <3>2. 1 \in 1..n /\ 1 \in 1..k
      BY <2>1, <2>5, <3>1
    <3>3. rows = RowsOf(a)
      BY <2>2, <2>9 DEF rows, Between, RowsOf
    <3>4. first \in RowsOf(a) /\ \A r \in RowsOf(a) : first.at >= r.at
      <4>1. first \in RowsOf(a)
        BY <2>3, <3>2, <3>3
      <4>2. ASSUME NEW r \in RowsOf(a)  PROVE first.at >= r.at
        <5>1. PICK i \in 1..n : Descending(rows)[i] = r
          BY <2>3, <3>3
        <5>2. CASE i = 1
          BY <2>2, <4>1, <5>1, <5>2
        <5>3. CASE i # 1
          <6>1. 1 < i
            BY <2>1, <5>3
          <6>. QED  BY <2>3, <3>2, <5>1, <6>1
        <5>. QED  BY <5>2, <5>3
      <4>. QED  BY <4>1, <4>2
    <3>5. LatestOf(a) = first
      BY <3>4, Latest DEF LatestFound, Inv
    <3>6. GetLatest(a) = Decoded(first)
      BY <3>4, <3>5 DEF GetLatest
    <3>7. Head(some) = some[1]
      OBVIOUS
    <3>8. some[1] = Decoded(first)
      BY <2>6, <3>2
    <3>. QED  BY <3>6, <3>7, <3>8
  <2>. QED  BY <2>8, <2>9 DEF all, some
<1>. QED  BY <1>1, InvHolds, PTL

=============================================================================
