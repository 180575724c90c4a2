-------------------------- MODULE AggregatorSafety --------------------------
(***************************************************************************)
(* The safety of Aggregator, for any number of assets, rounds, crashes and *)
(* lost answers: Coherent is inductive when every asset is listed once,    *)
(* Traced in any case; and the refinement of PriceFeed.                    *)
(***************************************************************************)
EXTENDS AggregatorRefinement, AggregatorProofs

\* What the type invariant says of one entry.
LEMMA Typing ==
    ASSUME TypeOK, NEW e \in Entries
    PROVE  /\ IdOf[e] \in Assets
           /\ now \in Int /\ epoch \in Int
           /\ Rows(e) \in Seq(Row) /\ Notes(e) \in Seq(Audit)
           /\ round[e] \in Round
           /\ round[e].at \in Int /\ round[e].median \in Int
           /\ round[e].row \in Int /\ round[e].blind \in BOOLEAN
<1>1. IdOf[e] \in Assets
  BY EntriesAssumption
<1>2. round[e] \in Round
  BY DEF TypeOK
<1>. QED  BY <1>1, <1>2 DEF TypeOK, Rows, Notes, Round

\* The rows and notes of an entry, as sequences.
LEMMA Tables ==
    ASSUME TypeOK, NEW e \in Entries
    PROVE  /\ Len(Rows(e)) \in Nat /\ DOMAIN Rows(e) = 1..Len(Rows(e))
           /\ Len(Notes(e)) \in Nat /\ DOMAIN Notes(e) = 1..Len(Notes(e))
           /\ Rows(e) # << >> <=> Len(Rows(e)) > 0
           /\ Table(e) \subseteq DOMAIN Rows(e)
           /\ \A i \in DOMAIN Rows(e) : Rows(e)[i].at \in Int /\ Rows(e)[i].median \in Int
           /\ \A i \in DOMAIN Notes(e) : Notes(e)[i].epoch \in Int
<1>1. Rows(e) \in Seq(Row) /\ Notes(e) \in Seq(Audit)
  BY Typing
<1>2. /\ Len(Rows(e)) \in Nat /\ DOMAIN Rows(e) = 1..Len(Rows(e))
      /\ Len(Notes(e)) \in Nat /\ DOMAIN Notes(e) = 1..Len(Notes(e))
  BY <1>1, LenProperties
<1>3. Rows(e) # << >> <=> Len(Rows(e)) > 0
  BY <1>1, <1>2, EmptySeq
<1>4. /\ \A i \in DOMAIN Rows(e) : Rows(e)[i] \in Row
      /\ \A i \in DOMAIN Notes(e) : Notes(e)[i] \in Audit
  BY <1>1, <1>2, ElementOfSeq
<1>5. Table(e) \subseteq DOMAIN Rows(e)
  BY Typing DEF TypeOK, Table, Rows
<1>. QED  BY <1>2, <1>3, <1>4, <1>5 DEF Row, Audit

\* The publications, as a sequence.
LEMMA Feeds ==
    ASSUME TypeOK
    PROVE  /\ Len(feed) \in Nat /\ DOMAIN feed = 1..Len(feed)
           /\ \A k \in DOMAIN feed : feed[k].at \in Int
<1>1. feed \in Seq(Publication)
  BY DEF TypeOK
<1>2. Len(feed) \in Nat /\ DOMAIN feed = 1..Len(feed)
  BY <1>1, LenProperties
<1>3. \A k \in DOMAIN feed : feed[k] \in Publication
  BY <1>1, <1>2, ElementOfSeq
<1>. QED  BY <1>2, <1>3 DEF Publication

\* A sequence with one element more.
LEMMA Appended ==
    ASSUME NEW S, NEW s \in Seq(S), NEW x \in S
    PROVE  /\ Append(s, x) \in Seq(S)
           /\ Len(Append(s, x)) = Len(s) + 1
           /\ DOMAIN Append(s, x) = 1..(Len(s) + 1)
           /\ \A i \in 1..Len(s) : Append(s, x)[i] = s[i]
           /\ Append(s, x)[Len(s) + 1] = x
BY AppendProperties, LenProperties

-----------------------------------------------------------------------------
(* Steps that leave the tables, or everything about an entry, alone; but   *)
(* any step may see a late commit land.                                    *)

SameTable(e) ==
    Rows(e)' = Rows(e) /\ Notes(e)' = Notes(e) /\ Table(e) \subseteq Table(e)'

SameCache(e) ==
    /\ Cached(e)' <=> Cached(e)
    /\ Cached(e) => lastPrice'[IdOf[e]] = lastPrice[IdOf[e]]

\* At most another asset is announced.
SameFeed(e) ==
    \/ feed' = feed
    \/ \E x \in Publication : x.asset # IdOf[e] /\ feed' = Append(feed, x)

LEMMA TableKept ==
    ASSUME TypeOK, TypeOK', NEW e \in Entries, SameTable(e),
           now <= now', epoch <= epoch',
           Dated(e), Band(e), OneBlind(e)
    PROVE  Dated(e)' /\ Band(e)' /\ OneBlind(e)'
<1>1. Dated(e)'
  <2>1. now \in Int /\ now' \in Int /\ epoch \in Int /\ epoch' \in Int
    BY DEF TypeOK
  <2>. QED  BY <2>1, Tables DEF SameTable, Dated
<1>2. Band(e)'
  BY DEF SameTable, Band
<1>3. OneBlind(e)'
  BY DEF SameTable, OneBlind
<1>. QED  BY <1>1, <1>2, <1>3

LEMMA CacheKept ==
    ASSUME NEW e \in Entries, SameTable(e), SameCache(e),
           pc[e] = "cache" => pc'[e] = "cache", Tracks(e)
    PROVE  Tracks(e)'
BY DEF SameTable, SameCache, Tracks, Recent

LEMMA FeedKept ==
    ASSUME TypeOK, NEW e \in Entries, SameTable(e), SameFeed(e), epoch' = epoch,
           phase' # "down" => phase # "down",
           pc'[e] \in {"cache", "publish"} <=> pc[e] \in {"cache", "publish"},
           pc[e] \in {"cache", "publish"} => round'[e] = round[e],
           Announced(e)
    PROVE  Announced(e)'
<1>1. CASE feed' = feed
  BY <1>1 DEF SameTable, Announced
<1>2. ASSUME NEW x \in Publication, x.asset # IdOf[e], feed' = Append(feed, x)
      PROVE  Announced(e)'
  <2>1. /\ Len(feed) \in Nat /\ DOMAIN feed = 1..Len(feed)
        /\ DOMAIN feed' = 1..(Len(feed) + 1)
        /\ \A k \in DOMAIN feed : feed'[k] = feed[k]
        /\ feed'[Len(feed) + 1].asset # IdOf[e]
    BY <1>2, Feeds, Appended DEF TypeOK
  <2>2. \A k \in DOMAIN feed' : feed'[k].asset = IdOf[e] =>
           k \in DOMAIN feed /\ feed'[k] = feed[k]
    BY <2>1
  <2>. QED  BY <2>1, <2>2 DEF SameTable, Announced
<1>. QED  BY <1>1, <1>2 DEF SameFeed

\* Nothing about e happens.
Kept(e) ==
    /\ SameTable(e) /\ SameCache(e) /\ SameFeed(e)
    /\ pc'[e] = pc[e] /\ round'[e] = round[e]
    /\ now <= now' /\ epoch' = epoch
    /\ phase' = "down" <=> phase = "down"

LEMMA KeptSuffices ==
    ASSUME TypeOK, TypeOK', NEW e \in Entries, EntryInv(e), Kept(e)
    PROVE  EntryInv(e)'
<1>1. Dated(e)' /\ Band(e)' /\ OneBlind(e)'
  <2>1. epoch <= epoch'
    BY DEF TypeOK, Kept
  <2>. QED  BY <2>1, TableKept DEF Kept, EntryInv
<1>2. Tracks(e)'
  BY CacheKept DEF Kept, EntryInv
<1>3. Announced(e)'
  BY FeedKept DEF Kept, EntryInv
<1>4. InTime(e)'
  <2>1. now \in Int /\ now' \in Int /\ round[e].at \in Int
    BY Typing DEF TypeOK
  <2>. QED  BY <2>1 DEF EntryInv, InTime, Kept, SameTable
<1>5. Guarded(e)' /\ Settled(e)'
  BY DEF EntryInv, Guarded, Settled, Kept, SameTable, LastRow, LastNote, Recent
<1>6. Sighted(e)'
  BY DEF EntryInv, Sighted, Kept, SameTable, SameCache
<1>. QED  BY <1>1, <1>2, <1>3, <1>4, <1>5, <1>6 DEF EntryInv

\* A loop outside a stamped round has no promise to keep.
Away(e) ==
    /\ SameTable(e) /\ SameCache(e) /\ SameFeed(e)
    /\ pc[e] \notin {"cache", "publish"} /\ pc'[e] \notin Sampled
    /\ pc'[e] \in InFlight => phase' # "down"
    /\ now <= now' /\ epoch' = epoch
    /\ phase' = "down" <=> phase = "down"

LEMMA AwaySuffices ==
    ASSUME TypeOK, TypeOK', NEW e \in Entries, EntryInv(e), Away(e)
    PROVE  EntryInv(e)'
<1>. USE DEF Sampled
<1>1. Dated(e)' /\ Band(e)' /\ OneBlind(e)'
  <2>1. epoch <= epoch'
    BY DEF TypeOK, Away
  <2>. QED  BY <2>1, TableKept DEF Away, EntryInv
<1>2. Tracks(e)'
  BY CacheKept DEF Away, EntryInv
<1>3. Announced(e)'
  BY FeedKept DEF Away, EntryInv
<1>4. InTime(e)' /\ Guarded(e)' /\ Settled(e)'
  BY DEF InTime, Guarded, Settled, Away
<1>5. Sighted(e)'
  BY DEF EntryInv, Sighted, Away, SameTable, SameCache
<1>. QED  BY <1>1, <1>2, <1>3, <1>4, <1>5 DEF EntryInv

-----------------------------------------------------------------------------
(* The steps of a tick.                                                    *)

\* What a step that touches no table leaves alone.
LEMMA SameTables ==
    ASSUME NEW e \in Entries, UNCHANGED <<db, landed, audit>>
    PROVE  SameTable(e)
BY DEF SameTable, Rows, Notes, Table

LEMMA SameCaches ==
    ASSUME NEW e \in Entries, UNCHANGED lastPrice
    PROVE  SameCache(e)
BY DEF SameCache, Cached

LEMMA Ordered ==
    ASSUME TypeOK, TypeOK'
    PROVE  /\ now' = now => now <= now'
           /\ now' = now + 1 => now <= now'
BY DEF TypeOK

LEMMA BeginTickKeeps ==
    ASSUME TypeOK, TypeOK', NEW e \in Entries, EntryInv(e), BeginTick(e)
    PROVE  EntryInv(e)'
<1>1. pc'[e] = "fetch" /\ pc[e] \in {"start", "idle"}
  BY DEF BeginTick, TypeOK
<1>2. Away(e)
  BY <1>1, SameTables, SameCaches, Ordered DEF BeginTick, Away, SameFeed, Sampled
<1>. QED  BY <1>2, AwaySuffices

LEMMA FetchKeeps ==
    ASSUME TypeOK, TypeOK', NEW e \in Entries, NEW s \in Sources, EntryInv(e),
           FetchReturns(e, s)
    PROVE  EntryInv(e)'
<1>1. Kept(e)
  BY SameTables, SameCaches, Ordered DEF FetchReturns, Kept, SameFeed
<1>. QED  BY <1>1, KeptSuffices

LEMMA TooFewKeeps ==
    ASSUME TypeOK, TypeOK', NEW e \in Entries, EntryInv(e), TooFewSources(e)
    PROVE  EntryInv(e)'
<1>1. pc'[e] = "idle" /\ pc[e] = "fetch"
  BY DEF TooFewSources, Collected, EndTick, TypeOK
<1>2. Away(e)
  BY <1>1, SameTables, SameCaches, Ordered
     DEF TooFewSources, Collected, Away, SameFeed, Sampled, InFlight
<1>. QED  BY <1>2, AwaySuffices

\* A stamped round is newer than every row.
LEMMA AggregateKeeps ==
    ASSUME TypeOK, TypeOK', NEW e \in Entries, EntryInv(e), Aggregate(e)
    PROVE  EntryInv(e)'
<1>1. pc[e] = "fetch" /\ pc'[e] = "guard" /\ now' = now + 1
  BY DEF Aggregate, Collected, TypeOK
<1>2. round'[e].at = now' /\ round'[e].blind = FALSE
  BY <1>1 DEF Aggregate, NoRound, TypeOK
<1>3. SameTable(e) /\ SameCache(e) /\ SameFeed(e) /\ now <= now' /\ epoch' = epoch
      /\ phase' = phase
  BY <1>1, SameTables, SameCaches, Ordered DEF Aggregate, SameFeed
<1>4. Dated(e)' /\ Band(e)' /\ OneBlind(e)'
  <2>1. epoch <= epoch'
    BY <1>3 DEF TypeOK
  <2>. QED  BY <1>3, <2>1, TableKept DEF EntryInv
<1>5. Tracks(e)'
  BY <1>1, <1>3, CacheKept DEF EntryInv
<1>6. Announced(e)'
  BY <1>1, <1>3, FeedKept DEF EntryInv
<1>7. InTime(e)'
  <2>1. now \in Int /\ \A i \in DOMAIN Rows(e) : Rows(e)[i].at \in Int
    BY Tables, Typing
  <2>2. \A i \in DOMAIN Rows(e)' : Rows(e)'[i].at < now'
    BY <1>1, <1>3, <2>1 DEF EntryInv, Dated, SameTable
  <2>3. phase # "down"
    BY <1>1 DEF EntryInv, InTime, InFlight
  <2>. QED  BY <1>1, <1>2, <1>3, <2>1, <2>2, <2>3 DEF InTime, Sampled
<1>8. Guarded(e)' /\ Settled(e)'
  BY <1>1 DEF Guarded, Settled
<1>9. Sighted(e)'
  BY <1>1, <1>2, <1>3 DEF EntryInv, Sighted, SameTable, SameCache
<1>. QED  BY <1>4, <1>5, <1>6, <1>7, <1>8, <1>9 DEF EntryInv

\* The steps of the guard leave table, feed, clock and process alone.
Deciding(e) ==
    /\ SameTable(e) /\ UNCHANGED <<now, phase, feed, epoch>>
    /\ pc[e] \in {"guard", "load", "seed"}
    /\ pc'[e] \in {"load", "seed", "persist"}
    /\ round'[e].at = round[e].at /\ round'[e].median = round[e].median

\* What is left to show of such a step.
LEMMA DecidingKeeps ==
    ASSUME TypeOK, TypeOK', NEW e \in Entries, EntryInv(e), Deciding(e),
           Tracks(e)', Guarded(e)', Sighted(e)'
    PROVE  EntryInv(e)'
<1>1. Dated(e)' /\ Band(e)' /\ OneBlind(e)'
  <2>1. epoch <= epoch' /\ now <= now'
    BY DEF TypeOK, Deciding
  <2>. QED  BY <2>1, TableKept DEF EntryInv, Deciding
<1>2. Announced(e)'
  BY FeedKept DEF EntryInv, Deciding, SameFeed
<1>3. InTime(e)'
  BY DEF EntryInv, InTime, Deciding, SameTable, InFlight, Sampled
<1>4. Settled(e)'
  BY DEF Settled, Deciding
<1>. QED  BY <1>1, <1>2, <1>3, <1>4 DEF EntryInv

LEMMA CacheHitKeeps ==
    ASSUME TypeOK, TypeOK', NEW e \in Entries, EntryInv(e), CacheHit(e)
    PROVE  EntryInv(e)'
<1>1. pc[e] = "guard" /\ Cached(e) /\ SameTable(e) /\ SameCache(e)
      /\ UNCHANGED <<now, phase, feed, epoch>>
  BY SameTables, SameCaches DEF CacheHit, Cached
<1>2. CASE Accepts(round[e].median, lastPrice[IdOf[e]]) /\ Goto(e, "persist")
  <2>1. pc'[e] = "persist" /\ round'[e] = round[e]
    BY <1>2 DEF Goto, TypeOK
  <2>2. Deciding(e)
    BY <1>1, <2>1 DEF Deciding
  <2>3. Tracks(e)'
    BY <1>1, <2>1, CacheKept DEF EntryInv
  <2>4. Guarded(e)'
    <3>1. PICK i \in DOMAIN Rows(e) :
             Recent(e, i) /\ Rows(e)[i].median = lastPrice[IdOf[e]]
      BY <1>1 DEF EntryInv, Tracks
    <3>2. Recent(e, i)'
      BY <1>1, <3>1 DEF Recent, SameTable
    <3>. QED  BY <1>1, <1>2, <2>1, <3>1, <3>2 DEF Guarded, SameTable
  <2>5. Sighted(e)'
    BY <1>1, <2>1 DEF EntryInv, Sighted, SameTable, SameCache
  <2>. QED  BY <2>2, <2>3, <2>4, <2>5, DecidingKeeps
<1>3. CASE EndTick(e)
  <2>1. pc'[e] = "idle"
    BY <1>3 DEF EndTick, TypeOK
  <2>2. Away(e)
    BY <1>1, <2>1, Ordered DEF Away, SameFeed, Sampled, InFlight
  <2>. QED  BY <2>2, AwaySuffices
<1>. QED  BY <1>2, <1>3 DEF CacheHit, Judge

LEMMA CacheMissKeeps ==
    ASSUME TypeOK, TypeOK', NEW e \in Entries, EntryInv(e), CacheMiss(e)
    PROVE  EntryInv(e)'
<1>1. /\ pc[e] = "guard" /\ ~ Cached(e) /\ SameTable(e) /\ SameCache(e)
      /\ UNCHANGED <<now, phase, feed, epoch>>
      /\ pc'[e] = "load" /\ round'[e] = round[e]
  BY SameTables, SameCaches DEF CacheMiss, Cached, Goto, TypeOK
<1>2. Tracks(e)'
  BY <1>1, CacheKept DEF EntryInv
<1>3. Guarded(e)' /\ Sighted(e)'
  BY <1>1 DEF Guarded, EntryInv, Sighted, SameTable, SameCache
<1>. QED  BY <1>1, <1>2, <1>3, DecidingKeeps DEF Deciding

LEMMA LoadNoneKeeps ==
    ASSUME TypeOK, TypeOK', NEW e \in Entries, EntryInv(e), LoadNone(e)
    PROVE  EntryInv(e)'
<1>1. /\ pc[e] = "load" /\ Table(e) = {} /\ SameTable(e) /\ SameCache(e)
      /\ UNCHANGED <<now, phase, feed, epoch>>
      /\ pc'[e] = "persist" /\ round'[e] = round[e]
  BY SameTables, SameCaches DEF LoadNone, Table, Goto, TypeOK
<1>2. Tracks(e)'
  BY <1>1, CacheKept DEF EntryInv
<1>3. Guarded(e)'
  <2>1. \A i \in DOMAIN Notes(e) : ~ Notes(e)[i].acked
    BY <1>1 DEF EntryInv, Dated
  <2>. QED  BY <1>1, <2>1 DEF Guarded, SameTable
<1>4. Sighted(e)'
  BY <1>1 DEF EntryInv, Sighted, SameTable, SameCache
<1>. QED  BY <1>1, <1>2, <1>3, <1>4, DecidingKeeps DEF Deciding

LEMMA LoadFailsKeeps ==
    ASSUME TypeOK, TypeOK', NEW e \in Entries, EntryInv(e), LoadFails(e)
    PROVE  EntryInv(e)'
<1>1. /\ pc[e] = "load" /\ SameTable(e) /\ SameCache(e)
      /\ UNCHANGED <<now, phase, feed, epoch>> /\ pc'[e] = "persist"
  BY SameTables, SameCaches DEF LoadFails, TypeOK
<1>2. /\ round'[e].blind = TRUE
      /\ round'[e].at = round[e].at /\ round'[e].median = round[e].median
  <2>1. round[e] \in Round
    BY Typing
  <2>. QED  BY <2>1 DEF LoadFails, Round, TypeOK
<1>3. Tracks(e)'
  BY <1>1, CacheKept DEF EntryInv
<1>4. Guarded(e)' /\ Sighted(e)'
  BY <1>1, <1>2 DEF Guarded, EntryInv, Sighted, SameTable, SameCache
<1>. QED  BY <1>1, <1>2, <1>3, <1>4, DecidingKeeps DEF Deciding

\* The newest row of the table is the last acknowledged one or a later one.
LEMMA LoadRowKeeps ==
    ASSUME TypeOK, TypeOK', NEW e \in Entries, EntryInv(e), LoadRow(e)
    PROVE  EntryInv(e)'
<1>1. /\ pc[e] = "load" /\ Table(e) # {} /\ SameTable(e) /\ SameCache(e)
      /\ UNCHANGED <<now, phase, feed, epoch>> /\ pc'[e] = "seed"
  BY SameTables, SameCaches DEF LoadRow, Table, TypeOK
<1>2. PICK i \in DOMAIN Rows(e) : LatestRow(IdOf[e]) = Rows(e)[i] /\ Recent(e, i)
  <2>1. PICK i \in Table(e) :
           /\ LatestRow(IdOf[e]) = Rows(e)[i]
           /\ \A j \in Table(e) : Rows(e)[j].at <= Rows(e)[i].at
    BY <1>1, Typing, Tables, LatestRowFacts DEF Rows, Table
  <2>2. /\ i \in DOMAIN Rows(e) /\ DOMAIN Rows(e) = 1..Len(Rows(e))
        /\ Len(Rows(e)) \in Nat /\ DOMAIN Notes(e) = DOMAIN Rows(e)
    BY <2>1, Tables DEF EntryInv, Dated
  <2>3. ASSUME NEW j \in (i + 1)..Len(Rows(e)), Notes(e)[j].acked  PROVE FALSE
    <3>1. j \in DOMAIN Rows(e) /\ i < j /\ j \in DOMAIN Notes(e)
      BY <2>2
    <3>2. Rows(e)[i].at \in Int /\ Rows(e)[j].at \in Int
      BY <2>2, <3>1, Tables
    <3>3. Rows(e)[i].at < Rows(e)[j].at /\ j \in Table(e)
      BY <2>2, <2>3, <3>1 DEF EntryInv, Dated
    <3>. QED  BY <2>1, <3>2, <3>3
  <2>. QED  BY <2>1, <2>2, <2>3 DEF Recent
<1>3. /\ round'[e].row = Rows(e)[i].median /\ round'[e].blind = round[e].blind
      /\ round'[e].at = round[e].at /\ round'[e].median = round[e].median
  <2>. DEFINE r == [round[e] EXCEPT !.row = LatestRow(IdOf[e]).median]
  <2>1. round[e] \in Round
    BY Typing
  <2>2. /\ r.row = Rows(e)[i].median /\ r.blind = round[e].blind
        /\ r.at = round[e].at /\ r.median = round[e].median
    BY <1>2, <2>1 DEF Round
  <2>3. round' = [round EXCEPT ![e] = r]
    BY DEF LoadRow
  <2>. HIDE DEF r
  <2>4. round'[e] = r
    BY <2>3 DEF TypeOK
  <2>. QED  BY <2>2, <2>4
<1>4. Tracks(e)'
  BY <1>1, CacheKept DEF EntryInv
<1>5. Guarded(e)'
  <2>1. Recent(e, i)'
    BY <1>1, <1>2 DEF Recent, SameTable
  <2>. QED  BY <1>1, <1>2, <1>3, <2>1 DEF Guarded, SameTable
<1>6. Sighted(e)'
  BY <1>1, <1>3 DEF EntryInv, Sighted, SameTable, SameCache
<1>. QED  BY <1>1, <1>3, <1>4, <1>5, <1>6, DecidingKeeps DEF Deciding

\* The cache entry of e is written with p.
LEMMA Cache ==
    ASSUME NEW e \in Entries, NEW p, setLast(IdOf[e], p)
    PROVE  Cached(e)' /\ lastPrice'[IdOf[e]] = p
BY DEF setLast, Cached

\* The last row is a recent one once it is acknowledged.
LEMMA LastIsRecent ==
    ASSUME TypeOK, NEW e \in Entries, Dated(e), Rows(e) # << >>, LastNote(e).acked
    PROVE  Len(Rows(e)) \in DOMAIN Rows(e) /\ Recent(e, Len(Rows(e)))
<1>1. /\ Len(Rows(e)) \in Nat /\ Len(Rows(e)) \in DOMAIN Rows(e)
      /\ Len(Rows(e)) \in DOMAIN Notes(e)
  BY Tables DEF Dated
<1>2. Len(Rows(e)) \in Table(e)
  BY <1>1 DEF Dated, LastNote
<1>. QED  BY <1>1, <1>2 DEF Recent

\* What the cache was seeded with is a recent row, and the guard's measure.
LEMMA SeedLastKeeps ==
    ASSUME TypeOK, TypeOK', NEW e \in Entries, EntryInv(e), SeedLast(e)
    PROVE  EntryInv(e)'
<1>1. /\ pc[e] = "seed" /\ SameTable(e) /\ Cached(e)'
      /\ lastPrice'[IdOf[e]] = round[e].row
      /\ UNCHANGED <<now, phase, feed, epoch>>
  BY SameTables, Cache DEF SeedLast
<1>2. ~ round[e].blind
  BY <1>1 DEF EntryInv, Sighted
<1>3. PICK i \in DOMAIN Rows(e) :
         Recent(e, i) /\ Recent(e, i)' /\ Rows(e)[i].median = round[e].row
  BY <1>1 DEF EntryInv, Guarded, Recent, SameTable
<1>6. Tracks(e)'
  BY <1>1, <1>3 DEF Tracks, SameTable
<1>4. CASE Accepts(round[e].median, round[e].row) /\ Goto(e, "persist")
  <2>1. pc'[e] = "persist" /\ round'[e] = round[e]
    BY <1>4 DEF Goto, TypeOK
  <2>2. Guarded(e)'
    BY <1>1, <1>3, <1>4, <2>1 DEF Guarded, SameTable
  <2>3. Sighted(e)'
    BY <1>1, <1>2, <2>1 DEF Sighted
  <2>. QED  BY <1>1, <1>6, <2>1, <2>2, <2>3, DecidingKeeps DEF Deciding
<1>5. CASE EndTick(e)
  <2>1. pc'[e] = "idle"
    BY <1>5 DEF EndTick, TypeOK
  <2>2. Dated(e)' /\ Band(e)' /\ OneBlind(e)'
    <3>1. epoch <= epoch' /\ now <= now'
      BY <1>1 DEF TypeOK
    <3>. QED  BY <1>1, <3>1, TableKept DEF EntryInv
  <2>3. Announced(e)'
    BY <1>1, <2>1, FeedKept DEF EntryInv, SameFeed
  <2>4. InTime(e)' /\ Guarded(e)' /\ Settled(e)' /\ Sighted(e)'
    BY <1>1, <2>1 DEF InTime, InFlight, Sampled, Guarded, Settled, Sighted
  <2>. QED  BY <1>6, <2>2, <2>3, <2>4 DEF EntryInv
<1>. QED  BY <1>4, <1>5 DEF SeedLast, Judge

LEMMA PersistFailsKeeps ==
    ASSUME TypeOK, TypeOK', NEW e \in Entries, EntryInv(e), PersistFails(e)
    PROVE  EntryInv(e)'
<1>1. pc[e] = "persist" /\ pc'[e] = "idle"
  BY DEF PersistFails, EndTick, TypeOK
<1>2. Away(e)
  BY <1>1, SameTables, SameCaches, Ordered DEF PersistFails, Away, SameFeed, Sampled, InFlight
<1>. QED  BY <1>2, AwaySuffices

\* The row that is sent is newer than the others, and judged by a recent one
\* if any was acknowledged and the guard could see.
LEMMA PersistCommitsKeeps ==
    ASSUME TypeOK, TypeOK', NEW e \in Entries, EntryInv(e), PersistCommits(e)
    PROVE  EntryInv(e)'
<1>. DEFINE a == IdOf[e]
            n == Len(Rows(e))
            row == [median |-> round[e].median, at |-> round[e].at]
<1>1. PICK acked, lands \in BOOLEAN :
        /\ acked => lands
        /\ IF acked THEN Goto(e, "cache") ELSE EndTick(e)
        /\ landed' = [landed EXCEPT ![a] = IF lands THEN @ \cup {n + 1} ELSE @]
        /\ audit' = [audit EXCEPT ![a] = Append(@,
              [acked |-> acked, blind |-> round[e].blind, epoch |-> epoch])]
  BY DEF PersistCommits, Rows
<1>. DEFINE note == [acked |-> acked, blind |-> round[e].blind, epoch |-> epoch]
<1>2. /\ pc[e] = "persist" /\ UNCHANGED <<now, phase, lastPrice, feed, epoch>>
      /\ SameCache(e)
  BY SameCaches DEF PersistCommits
<1>3. /\ acked => pc'[e] = "cache" /\ round'[e] = round[e]
      /\ ~ acked => pc'[e] = "idle"
  BY <1>1 DEF Goto, EndTick, TypeOK
<1>4. Rows(e)' = Append(Rows(e), row) /\ Notes(e)' = Append(Notes(e), note)
  BY <1>1, Typing DEF PersistCommits, Rows, Notes, TypeOK
<1>5. row \in Row /\ note \in Audit
  BY Typing DEF Row, Audit, TypeOK
<1>6. /\ n \in Nat /\ Len(Notes(e)) = n
      /\ DOMAIN Rows(e) = 1..n /\ DOMAIN Notes(e) = 1..n
  BY Tables DEF EntryInv, Dated
<1>7. /\ Len(Rows(e)') = n + 1 /\ Len(Notes(e)') = n + 1
      /\ DOMAIN Rows(e)' = 1..(n + 1) /\ DOMAIN Notes(e)' = 1..(n + 1)
      /\ \A i \in 1..n : Rows(e)'[i] = Rows(e)[i] /\ Notes(e)'[i] = Notes(e)[i]
      /\ Rows(e)'[n + 1] = row /\ Notes(e)'[n + 1] = note
  <2>. HIDE DEF row, note
  <2>. QED  BY <1>4, <1>5, <1>6, Appended, Typing
<1>. HIDE DEF n
<1>8. /\ Table(e)' = IF lands THEN Table(e) \cup {n + 1} ELSE Table(e)
      /\ Table(e) \subseteq 1..n /\ note.acked = acked
  BY <1>1, <1>6, Typing, Tables DEF Table, TypeOK
<1>9. Dated(e)'
  <2>1. \A i \in 1..n : Rows(e)[i].at < row.at
    BY <1>2, <1>6 DEF EntryInv, InTime
  <2>2. row.at <= now
    BY <1>2 DEF EntryInv, InTime, Sampled
  <2>3. /\ \A i, j \in 1..n : i < j => Rows(e)[i].at < Rows(e)[j].at
        /\ \A i \in 1..n : Rows(e)[i].at <= now
        /\ \A i \in 1..n : Notes(e)[i].epoch <= epoch
        /\ \A i \in 1..n : Notes(e)[i].acked => i \in Table(e)
    BY <1>6 DEF EntryInv, Dated
  <2>4. epoch \in Int /\ note.epoch = epoch
    BY Typing
  <2>. HIDE DEF row, note
  <2>5. \A i, j \in 1..(n + 1) : i < j => Rows(e)'[i].at < Rows(e)'[j].at
    <3>. SUFFICES ASSUME NEW i \in 1..(n + 1), NEW j \in 1..(n + 1), i < j
                  PROVE  Rows(e)'[i].at < Rows(e)'[j].at
      OBVIOUS
    <3>1. i \in 1..n /\ Rows(e)'[i] = Rows(e)[i]
      BY <1>6, <1>7
    <3>2. CASE j = n + 1
      BY <1>7, <2>1, <3>1, <3>2
    <3>3. CASE j # n + 1
      <4>1. j \in 1..n /\ Rows(e)'[j] = Rows(e)[j]
        BY <1>6, <1>7, <3>3
      <4>. QED  BY <2>3, <3>1, <4>1
    <3>. QED  BY <3>2, <3>3
  <2>6. \A i \in 1..(n + 1) : Rows(e)'[i].at <= now /\ Notes(e)'[i].epoch <= epoch
    BY <1>6, <1>7, <2>2, <2>3, <2>4
  <2>7. \A i \in 1..(n + 1) : Notes(e)'[i].acked => i \in Table(e)'
    <3>1. note.acked => n + 1 \in Table(e)'
      BY <1>1, <1>8
    <3>2. Table(e) \subseteq Table(e)'
      BY <1>8
    <3>. QED  BY <1>6, <1>7, <2>3, <3>1, <3>2
  <2>. QED  BY <1>2, <1>7, <2>5, <2>6, <2>7 DEF Dated
<1>10. Band(e)'
  <2>1. ASSUME NEW i \in 1..n, Notes(e)[i].acked, ~ note.blind,
               Table(e) \cap (i + 1)..n = {}
        PROVE  Accepts(row.median, Rows(e)[i].median)
    <3>1. PICK k \in 1..n : Recent(e, k) /\ Accepts(row.median, Rows(e)[k].median)
      BY <1>2, <1>6, <2>1 DEF EntryInv, Guarded
    <3>2. ASSUME k < i  PROVE FALSE
      <4>1. i \in (k + 1)..Len(Rows(e))
        BY <1>6, <3>2 DEF n
      <4>. QED  BY <2>1, <3>1, <4>1 DEF Recent
    <3>3. ASSUME i < k  PROVE FALSE
      <4>1. k \in Table(e) /\ k \in (i + 1)..n
        BY <1>6, <3>1, <3>3 DEF Recent
      <4>. QED  BY <2>1, <4>1
    <3>4. k = i
      BY <1>6, <3>2, <3>3
    <3>. QED  BY <3>1, <3>4
  <2>2. \A j \in 1..n : \A i \in 1..(j - 1) :
           Notes(e)[i].acked /\ ~ Notes(e)[j].blind /\ Table(e) \cap (i + 1)..(j - 1) = {}
              => Accepts(Rows(e)[j].median, Rows(e)[i].median)
    BY <1>6 DEF EntryInv, Band
  <2>. HIDE DEF row, note
  <2>. SUFFICES ASSUME NEW j \in 1..(n + 1), NEW i \in 1..(j - 1), Notes(e)'[i].acked,
                       ~ Notes(e)'[j].blind, Table(e)' \cap (i + 1)..(j - 1) = {}
                PROVE  Accepts(Rows(e)'[j].median, Rows(e)'[i].median)
    BY <1>7 DEF Band
  <2>3. Table(e) \cap (i + 1)..(j - 1) = {} /\ i \in 1..n
    BY <1>6, <1>8
  <2>4. CASE j = n + 1
    <3>1. j - 1 = n
      BY <1>6, <2>4
    <3>. QED  BY <1>6, <1>7, <2>1, <2>3, <2>4, <3>1
  <2>5. CASE j # n + 1
    <3>1. j \in 1..n
      BY <1>6, <2>5
    <3>. QED  BY <1>7, <2>2, <2>3, <3>1
  <2>. QED  BY <2>4, <2>5
<1>11. OneBlind(e)'
  <2>1. note.acked /\ note.blind =>
           \A i \in 1..n : Notes(e)[i].acked => Notes(e)[i].epoch < note.epoch
    <3>1. note.acked = acked /\ note.blind = round[e].blind /\ note.epoch = epoch
      OBVIOUS
    <3>2. phase # "down"
      BY <1>2 DEF EntryInv, InTime, InFlight
    <3>. QED  BY <1>2, <1>6, <3>1, <3>2 DEF EntryInv, Sighted
  <2>2. \A j \in 1..n : \A i \in 1..(j - 1) :
           Notes(e)[j].acked /\ Notes(e)[j].blind /\ Notes(e)[i].acked
             => Notes(e)[i].epoch < Notes(e)[j].epoch
    BY <1>6 DEF EntryInv, OneBlind
  <2>. HIDE DEF row, note
  <2>. SUFFICES ASSUME NEW j \in 1..(n + 1), NEW i \in 1..(j - 1), Notes(e)'[j].acked,
                       Notes(e)'[j].blind, Notes(e)'[i].acked
                PROVE  Notes(e)'[i].epoch < Notes(e)'[j].epoch
    BY <1>7 DEF OneBlind
  <2>3. CASE j = n + 1
    BY <1>6, <1>7, <2>1, <2>3
  <2>4. CASE j # n + 1
    BY <1>6, <1>7, <2>2, <2>4
  <2>. QED  BY <2>3, <2>4
<1>12. Tracks(e)'
  <2>1. SUFFICES ASSUME Cached(e), ~ acked
                 PROVE  \E i \in 1..(n + 1) :
                           /\ i \in Table(e)'
                           /\ Rows(e)'[i].median = lastPrice[IdOf[e]]
                           /\ \A j \in (i + 1)..(n + 1) : ~ Notes(e)'[j].acked
    BY <1>2, <1>3, <1>7 DEF Tracks, SameCache, Recent
  <2>2. PICK i \in 1..n : /\ i \in Table(e)
                          /\ Rows(e)[i].median = lastPrice[IdOf[e]]
                          /\ \A j \in (i + 1)..n : ~ Notes(e)[j].acked
    BY <1>2, <1>6, <2>1 DEF EntryInv, Tracks, Recent, n
  <2>3. note.acked = FALSE
    BY <2>1
  <2>. HIDE DEF row, note
  <2>4. \A j \in (i + 1)..(n + 1) : ~ Notes(e)'[j].acked
    BY <1>6, <1>7, <2>2, <2>3
  <2>5. i \in Table(e)'
    BY <1>8, <2>2
  <2>. QED  BY <1>6, <1>7, <2>2, <2>4, <2>5
<1>13. Announced(e)'
  <2>1. \A i \in 1..n : Rows(e)[i].at < row.at
    BY <1>2, <1>6 DEF EntryInv, InTime
  <2>2. ASSUME NEW k \in DOMAIN feed, feed[k].asset = IdOf[e]
        PROVE  \E i \in 1..n : Rows(e)[i].at = feed[k].at
    BY <1>6, <2>2 DEF EntryInv, Announced
  <2>3. ASSUME NEW i \in 1..n, Notes(e)[i].acked, Notes(e)[i].epoch = epoch
        PROVE  \E k \in DOMAIN feed :
                  feed[k].asset = IdOf[e] /\ feed[k].at = Rows(e)[i].at
    <3>1. phase # "down"
      BY <1>2 DEF EntryInv, InTime, InFlight
    <3>. QED  BY <1>2, <1>6, <2>3, <3>1 DEF EntryInv, Announced
  <2>4. note.acked = acked /\ row.at = round[e].at
    OBVIOUS
  <2>5. \A k, l \in DOMAIN feed :
          k < l /\ feed[k].asset = IdOf[e] /\ feed[l].asset = IdOf[e]
             => feed[k].at < feed[l].at
    BY DEF EntryInv, Announced
  <2>. HIDE DEF row, note
  <2>6. \A k \in DOMAIN feed : feed[k].asset = IdOf[e] =>
          /\ \E i \in DOMAIN Rows(e)' : Rows(e)'[i].at = feed[k].at
          /\ pc'[e] \in {"cache", "publish"} => feed[k].at < round'[e].at
    BY <1>3, <1>6, <1>7, <2>1, <2>2, <2>4
  <2>7. \A i \in DOMAIN Rows(e)' : Notes(e)'[i].acked /\ Notes(e)'[i].epoch = epoch =>
             \/ \E k \in DOMAIN feed :
                   feed[k].asset = IdOf[e] /\ feed[k].at = Rows(e)'[i].at
             \/ pc'[e] \in {"cache", "publish"} /\ round'[e].at = Rows(e)'[i].at
    <3>. SUFFICES ASSUME NEW i \in 1..(n + 1), Notes(e)'[i].acked, Notes(e)'[i].epoch = epoch
                  PROVE  \/ \E k \in DOMAIN feed :
                               feed[k].asset = IdOf[e] /\ feed[k].at = Rows(e)'[i].at
                         \/ pc'[e] \in {"cache", "publish"} /\ round'[e].at = Rows(e)'[i].at
      BY <1>7
    <3>1. CASE i = n + 1
      BY <1>3, <1>7, <2>4, <3>1
    <3>2. CASE i # n + 1
      BY <1>6, <1>7, <2>3, <3>2
    <3>. QED  BY <3>1, <3>2
  <2>. QED  BY <1>2, <2>5, <2>6, <2>7 DEF Announced
<1>14. InTime(e)' /\ Guarded(e)'
  BY <1>2, <1>3 DEF EntryInv, InTime, InFlight, Sampled, Guarded
<1>15. Settled(e)'
  <2>1. Rows(e)' # << >>
    BY <1>6, <1>7, EmptySeq
  <2>. QED  BY <1>3, <1>7, <2>1 DEF Settled, LastRow, LastNote
<1>16. Sighted(e)'
  <2>1. SUFFICES ASSUME ~ Cached(e), ~ acked, phase # "down"
                 PROVE  \A i \in 1..(n + 1) :
                           Notes(e)'[i].acked => Notes(e)'[i].epoch < epoch
    BY <1>2, <1>3, <1>7 DEF Sighted, SameCache
  <2>2. \A i \in 1..n : Notes(e)[i].acked => Notes(e)[i].epoch < epoch
    BY <1>2, <1>6, <2>1 DEF EntryInv, Sighted
  <2>3. note.acked = FALSE
    BY <2>1
  <2>. HIDE DEF row, note
  <2>. QED  BY <1>6, <1>7, <2>2, <2>3
<1>. QED  BY <1>9, <1>10, <1>11, <1>12, <1>13, <1>14, <1>15, <1>16 DEF EntryInv

LEMMA CacheLastKeeps ==
    ASSUME TypeOK, TypeOK', NEW e \in Entries, EntryInv(e), CacheLast(e)
    PROVE  EntryInv(e)'
<1>1. /\ pc[e] = "cache" /\ SameTable(e) /\ Cached(e)'
      /\ lastPrice'[IdOf[e]] = round[e].median
      /\ UNCHANGED <<now, phase, feed, epoch>>
  BY SameTables, Cache DEF CacheLast
<1>2. pc'[e] = "publish" /\ round'[e] = round[e]
  BY DEF CacheLast, Goto, TypeOK
<1>3. /\ Rows(e) # << >> /\ LastNote(e).acked
      /\ LastRow(e) = [median |-> round[e].median, at |-> round[e].at]
  BY <1>1 DEF EntryInv, Settled
<1>4. Dated(e)' /\ Band(e)' /\ OneBlind(e)'
  <2>1. epoch <= epoch' /\ now <= now'
    BY <1>1 DEF TypeOK
  <2>. QED  BY <1>1, <2>1, TableKept DEF EntryInv
<1>5. Tracks(e)'
  <2>1. /\ Len(Rows(e)) \in DOMAIN Rows(e) /\ Recent(e, Len(Rows(e)))'
        /\ Rows(e)[Len(Rows(e))].median = round[e].median
    BY <1>1, <1>3, LastIsRecent DEF EntryInv, LastRow, Recent, SameTable
  <2>. QED  BY <1>1, <2>1 DEF Tracks, SameTable
<1>6. Announced(e)'
  BY <1>1, <1>2, FeedKept DEF EntryInv, SameFeed
<1>7. InTime(e)' /\ Guarded(e)'
  BY <1>1, <1>2 DEF EntryInv, InTime, InFlight, Sampled, Guarded
<1>8. Settled(e)'
  BY <1>1, <1>2, <1>3 DEF Settled, SameTable, LastRow, LastNote
<1>9. Sighted(e)'
  BY <1>1, <1>2 DEF Sighted
<1>. QED  BY <1>4, <1>5, <1>6, <1>7, <1>8, <1>9 DEF EntryInv

\* The row that is announced is newer than all that were.
LEMMA PublishKeeps ==
    ASSUME TypeOK, TypeOK', NEW e \in Entries, EntryInv(e), Publish(e)
    PROVE  EntryInv(e)'
<1>. DEFINE x == Aggregated(e)
            m == Len(feed)
<1>1. /\ pc[e] = "publish" /\ SameTable(e) /\ SameCache(e)
      /\ UNCHANGED <<now, phase, epoch>>
  BY SameTables, SameCaches DEF Publish
<1>2. pc'[e] = "idle"
  BY DEF Publish, EndTick, TypeOK
<1>3. x \in Publication /\ x.asset = IdOf[e] /\ x.at = round[e].at
  BY Typing DEF Aggregated, Publication
<1>4. /\ m \in Nat /\ DOMAIN feed = 1..m /\ DOMAIN feed' = 1..(m + 1)
      /\ \A k \in 1..m : feed'[k] = feed[k]
      /\ feed'[m + 1] = x
  <2>1. feed' = Append(feed, x) /\ feed \in Seq(Publication)
    BY DEF Publish, TypeOK
  <2>. HIDE DEF x
  <2>. QED  BY <1>3, <2>1, Feeds, Appended
<1>. HIDE DEF x, m
<1>5. Dated(e)' /\ Band(e)' /\ OneBlind(e)'
  <2>1. epoch <= epoch' /\ now <= now'
    BY <1>1 DEF TypeOK
  <2>. QED  BY <1>1, <2>1, TableKept DEF EntryInv
<1>6. Tracks(e)'
  BY <1>1, CacheKept DEF EntryInv
<1>7. InTime(e)' /\ Guarded(e)' /\ Settled(e)' /\ Sighted(e)'
  BY <1>1, <1>2
     DEF EntryInv, InTime, InFlight, Sampled, Guarded, Settled, Sighted, SameTable, SameCache
<1>8. Announced(e)'
  <2>1. \A k \in 1..m : feed[k].asset = IdOf[e] =>
           (\E i \in DOMAIN Rows(e) : Rows(e)[i].at = feed[k].at) /\ feed[k].at < x.at
    BY <1>1, <1>3, <1>4 DEF EntryInv, Announced
  <2>2. \E i \in DOMAIN Rows(e) : Rows(e)[i].at = x.at
    <3>1. Rows(e) # << >> /\ LastRow(e).at = round[e].at
      BY <1>1 DEF EntryInv, Settled
    <3>2. Len(Rows(e)) \in DOMAIN Rows(e)
      BY <3>1, Tables
    <3>. QED  BY <1>3, <3>1, <3>2 DEF LastRow
  <2>3. \A k \in DOMAIN feed' : feed'[k].asset = IdOf[e] =>
           \E i \in DOMAIN Rows(e) : Rows(e)[i].at = feed'[k].at
    <3>. SUFFICES ASSUME NEW k \in 1..(m + 1), feed'[k].asset = IdOf[e]
                  PROVE  \E i \in DOMAIN Rows(e) : Rows(e)[i].at = feed'[k].at
      BY <1>4
    <3>1. CASE k = m + 1
      BY <1>4, <2>2, <3>1
    <3>2. CASE k # m + 1
      BY <1>4, <2>1, <3>2
    <3>. QED  BY <3>1, <3>2
  <2>4. ASSUME NEW k \in DOMAIN feed', NEW l \in DOMAIN feed', k < l,
               feed'[k].asset = IdOf[e], feed'[l].asset = IdOf[e]
        PROVE  feed'[k].at < feed'[l].at
    <3>1. k \in 1..m /\ feed'[k] = feed[k]
      BY <1>4, <2>4
    <3>2. CASE l = m + 1
      BY <1>4, <2>1, <2>4, <3>1, <3>2
    <3>3. CASE l # m + 1
      <4>1. l \in 1..m /\ feed'[l] = feed[l]
        BY <1>4, <2>4, <3>3
      <4>. QED  BY <1>4, <2>4, <3>1, <4>1 DEF EntryInv, Announced
    <3>. QED  BY <3>2, <3>3
  <2>5. ASSUME NEW i \in DOMAIN Rows(e), Notes(e)[i].acked, Notes(e)[i].epoch = epoch,
               phase # "down"
        PROVE  \E k \in DOMAIN feed' :
                  feed'[k].asset = IdOf[e] /\ feed'[k].at = Rows(e)[i].at
    <3>1. CASE \E k \in DOMAIN feed :
                  feed[k].asset = IdOf[e] /\ feed[k].at = Rows(e)[i].at
      BY <1>4, <3>1
    <3>2. CASE round[e].at = Rows(e)[i].at
      <4>1. m + 1 \in DOMAIN feed'
        BY <1>4
      <4>. QED  BY <1>3, <1>4, <3>2, <4>1
    <3>. QED  BY <2>5, <3>1, <3>2 DEF EntryInv, Announced
  <2>. QED  BY <1>1, <1>2, <2>3, <2>4, <2>5 DEF Announced, SameTable
<1>. QED  BY <1>5, <1>6, <1>7, <1>8 DEF EntryInv

LEMMA RestKeeps ==
    ASSUME TypeOK, TypeOK', NEW e \in Entries, EntryInv(e),
           Expire(e) \/ TickerFires(e) \/ LoopExits(e)
    PROVE  EntryInv(e)'
<1>1. CASE Expire(e)
  <2>1. Kept(e)
    BY <1>1, SameTables, SameCaches, Ordered DEF Expire, Kept, SameFeed
  <2>. QED  BY <2>1, KeptSuffices
<1>2. CASE TickerFires(e)
  <2>1. Kept(e)
    BY <1>2, SameTables, SameCaches, Ordered DEF TickerFires, Kept, SameFeed
  <2>. QED  BY <2>1, KeptSuffices
<1>3. CASE LoopExits(e)
  <2>1. pc[e] = "idle" /\ pc'[e] = "done"
    BY <1>3 DEF LoopExits, TypeOK
  <2>2. Away(e)
    BY <1>3, <2>1, SameTables, SameCaches, Ordered
       DEF LoopExits, Away, SameFeed, Sampled, InFlight
  <2>. QED  BY <2>2, AwaySuffices
<1>. QED  BY <1>1, <1>2, <1>3

\* What a loop does for its own entry.
LEMMA LoopKeeps ==
    ASSUME TypeOK, TypeOK', NEW e \in Entries, EntryInv(e), Loop(e)
    PROVE  EntryInv(e)'
BY BeginTickKeeps, FetchKeeps, TooFewKeeps, AggregateKeeps, CacheHitKeeps,
   CacheMissKeeps, LoadNoneKeeps, LoadFailsKeeps, LoadRowKeeps, SeedLastKeeps,
   PersistFailsKeeps, PersistCommitsKeeps, CacheLastKeeps, PublishKeeps, RestKeeps
   DEF Loop, Tick, getLast

-----------------------------------------------------------------------------
(* What the steps of one loop leave alone, when ids are unique.            *)

LEMMA LoopSpares ==
    ASSUME TypeOK, TypeOK', NEW e \in Entries, NEW f \in Entries, IdOf[e] # IdOf[f],
           Loop(e)
    PROVE  Kept(f)
<1>. DEFINE own == /\ pc'[f] = pc[f] /\ round'[f] = round[f]
                   /\ epoch' = epoch /\ phase' = phase
<1>0. e # f /\ IdOf[f] \in Assets
  BY Typing
<1>1. ASSUME NEW p, setLast(IdOf[e], p)  PROVE SameCache(f)
  BY <1>1 DEF setLast, SameCache, Cached
<1>2. ASSUME NEW step, Goto(e, step)  PROVE pc'[f] = pc[f] /\ round'[f] = round[f]
  BY <1>0, <1>2 DEF Goto, TypeOK
<1>3. ASSUME EndTick(e)  PROVE pc'[f] = pc[f] /\ round'[f] = round[f]
  BY <1>0, <1>3 DEF EndTick, TypeOK
<1>4. CASE BeginTick(e) \/ Expire(e) \/ TickerFires(e) \/ LoopExits(e)
  <2>1. own
    BY <1>0, <1>4 DEF BeginTick, Expire, TickerFires, LoopExits, TypeOK
  <2>. QED  BY <1>4, <2>1, SameTables, SameCaches, Ordered
            DEF BeginTick, Expire, TickerFires, LoopExits, Kept, SameFeed
<1>5. CASE \E s \in Sources : FetchReturns(e, s)
  BY <1>5, SameTables, SameCaches, Ordered DEF FetchReturns, Kept, SameFeed
<1>6. CASE TooFewSources(e)
  BY <1>3, <1>6, SameTables, SameCaches, Ordered
     DEF TooFewSources, Collected, Kept, SameFeed
<1>7. CASE Aggregate(e)
  <2>1. own
    BY <1>0, <1>7 DEF Aggregate, TypeOK
  <2>. QED  BY <1>7, <2>1, SameTables, SameCaches, Ordered
            DEF Aggregate, Collected, Kept, SameFeed
<1>8. CASE CacheHit(e) \/ CacheMiss(e) \/ LoadNone(e)
  <2>1. own
    BY <1>2, <1>3, <1>8 DEF CacheHit, CacheMiss, LoadNone, Judge
  <2>. QED  BY <1>8, <2>1, SameTables, SameCaches, Ordered
            DEF CacheHit, CacheMiss, LoadNone, Kept, SameFeed
<1>9. CASE LoadFails(e) \/ LoadRow(e)
  <2>1. own
    BY <1>0, <1>9 DEF LoadFails, LoadRow, TypeOK
  <2>. QED  BY <1>9, <2>1, SameTables, SameCaches, Ordered
            DEF LoadFails, LoadRow, Kept, SameFeed
<1>10. CASE SeedLast(e)
  <2>1. own
    BY <1>2, <1>3, <1>10 DEF SeedLast, Judge
  <2>. QED  BY <1>1, <1>10, <2>1, SameTables, Ordered DEF SeedLast, Kept, SameFeed
<1>11. CASE PersistFails(e)
  BY <1>3, <1>11, SameTables, SameCaches, Ordered DEF PersistFails, Kept, SameFeed
<1>12. CASE PersistCommits(e)
  <2>1. own
    BY <1>2, <1>3, <1>12 DEF PersistCommits
  <2>2. SameTable(f)
    BY <1>0, <1>12 DEF PersistCommits, SameTable, Rows, Notes, Table, TypeOK
  <2>. QED  BY <1>12, <2>1, <2>2, SameCaches, Ordered DEF PersistCommits, Kept, SameFeed
<1>13. CASE CacheLast(e)
  BY <1>1, <1>2, <1>13, SameTables, Ordered DEF CacheLast, Kept, SameFeed
<1>14. CASE Publish(e)
  <2>1. Aggregated(e) \in Publication /\ Aggregated(e).asset # IdOf[f]
    BY Typing DEF Aggregated, Publication
  <2>2. SameFeed(f)
    BY <1>14, <2>1 DEF Publish, SameFeed
  <2>. QED  BY <1>3, <1>14, <2>2, SameTables, SameCaches, Ordered DEF Publish, Kept
<1>. QED  BY <1>4, <1>5, <1>6, <1>7, <1>8, <1>9, <1>10, <1>11, <1>12, <1>13, <1>14
          DEF Loop, Tick, getLast

\* Only listed assets get rows and are announced.
LEMMA UnlistedKept ==
    ASSUME TypeOK, Unlisted, [Next]_vars
    PROVE  Unlisted'
<1>1. CASE UNCHANGED <<db, landed, audit, feed>>
  BY <1>1 DEF Unlisted
<1>2. ASSUME NEW e \in Entries, PersistCommits(e)  PROVE Unlisted'
  <2>1. /\ feed' = feed
        /\ \A a \in Assets : a # IdOf[e] =>
              db'[a] = db[a] /\ audit'[a] = audit[a] /\ landed'[a] = landed[a]
    BY <1>2 DEF PersistCommits, TypeOK
  <2>. QED  BY <2>1 DEF Unlisted
<1>3. ASSUME NEW e \in Entries, Publish(e)  PROVE Unlisted'
  <2>. DEFINE x == Aggregated(e)
  <2>1. x \in Publication /\ x.asset = IdOf[e]
    BY Typing DEF Aggregated, Publication
  <2>2. feed' = Append(feed, x) /\ feed \in Seq(Publication)
    BY <1>3 DEF Publish, TypeOK
  <2>. HIDE DEF x
  <2>3. /\ DOMAIN feed = 1..Len(feed) /\ Len(feed) \in Nat
        /\ DOMAIN feed' = 1..(Len(feed) + 1)
        /\ \A k \in 1..Len(feed) : feed'[k] = feed[k]
        /\ feed'[Len(feed) + 1] = x
    BY <2>1, <2>2, Feeds, Appended
  <2>4. \A k \in DOMAIN feed' : \E f \in Entries : feed'[k].asset = IdOf[f]
    <3>. SUFFICES ASSUME NEW k \in 1..(Len(feed) + 1)
                  PROVE  \E f \in Entries : feed'[k].asset = IdOf[f]
      BY <2>3
    <3>1. CASE k = Len(feed) + 1
      BY <2>1, <2>3, <3>1
    <3>2. CASE k # Len(feed) + 1
      BY <2>3, <3>2 DEF Unlisted
    <3>. QED  BY <3>1, <3>2
  <2>. QED  BY <1>3, <2>4 DEF Unlisted, Publish
<1>4. ASSUME NEW a \in Assets, CommitLands(a)  PROVE Unlisted'
  <2>1. UNCHANGED <<db, audit, feed>> /\ DOMAIN db[a] # {}
        /\ \A b \in Assets : b # a => landed'[b] = landed[b]
    BY <1>4 DEF CommitLands, TypeOK
  <2>2. \E e \in Entries : IdOf[e] = a
    <3>1. DOMAIN << >> = {}
      OBVIOUS
    <3>. QED  BY <2>1, <3>1 DEF Unlisted
  <2>. QED  BY <2>1, <2>2 DEF Unlisted
<1>5. \/ UNCHANGED <<db, landed, audit, feed>>
      \/ \E a \in Assets : CommitLands(a)
      \/ \E e \in Entries : PersistCommits(e) \/ Publish(e)
  BY DEF Next, Loop, Tick, getLast, vars, BeginTick, FetchReturns, Expire, TickerFires,
         LoopExits, TooFewSources, Aggregate, CacheHit, CacheMiss, LoadNone, LoadFails,
         LoadRow, SeedLast, PersistFails, CacheLast, StopBegins, StopReturns, Crash,
         Restart, Advance
<1>. QED  BY <1>1, <1>2, <1>3, <1>4, <1>5

-----------------------------------------------------------------------------
(* The process.                                                            *)

LEMMA CrashKeeps ==
    ASSUME TypeOK, TypeOK', NEW e \in Entries, EntryInv(e), Crash
    PROVE  EntryInv(e)'
<1>1. /\ phase' = "down" /\ pc'[e] = "start" /\ ~ Cached(e)'
      /\ SameTable(e) /\ UNCHANGED <<now, feed, epoch>>
  BY SameTables DEF Crash, Cached, EmptyCache, EveryLoop
<1>2. Dated(e)' /\ Band(e)' /\ OneBlind(e)'
  <2>1. epoch <= epoch' /\ now <= now'
    BY <1>1 DEF TypeOK
  <2>. QED  BY <1>1, <2>1, TableKept DEF EntryInv
<1>3. InTime(e)' /\ Guarded(e)' /\ Settled(e)' /\ Tracks(e)' /\ Sighted(e)'
  BY <1>1 DEF InTime, InFlight, Sampled, Guarded, Settled, Tracks, Sighted
<1>4. Announced(e)'
  BY <1>1 DEF EntryInv, Announced, SameTable
<1>. QED  BY <1>2, <1>3, <1>4 DEF EntryInv

LEMMA RestartKeeps ==
    ASSUME TypeOK, TypeOK', NEW e \in Entries, EntryInv(e), Restart
    PROVE  EntryInv(e)'
<1>1. /\ phase = "down" /\ epoch' = epoch + 1 /\ SameTable(e) /\ SameCache(e)
      /\ UNCHANGED <<now, feed, pc, round>>
  BY SameTables, SameCaches DEF Restart, loopVars
<1>2. pc[e] \notin InFlight
  BY <1>1 DEF EntryInv, InTime
<1>3. Dated(e)' /\ Band(e)' /\ OneBlind(e)'
  <2>1. epoch <= epoch' /\ now <= now'
    BY <1>1 DEF TypeOK
  <2>. QED  BY <1>1, <2>1, TableKept DEF EntryInv
<1>4. InTime(e)' /\ Guarded(e)' /\ Settled(e)'
  BY <1>1, <1>2 DEF InTime, InFlight, Sampled, Guarded, Settled
<1>5. Tracks(e)'
  BY <1>1, CacheKept DEF EntryInv
<1>6. \A i \in DOMAIN Notes(e) : Notes(e)[i].epoch < epoch'
  <2>1. epoch \in Int /\ \A i \in DOMAIN Notes(e) : Notes(e)[i].epoch \in Int
    BY Typing, Tables
  <2>. QED  BY <1>1, <2>1 DEF EntryInv, Dated
<1>7. Sighted(e)'
  BY <1>1, <1>2, <1>6 DEF Sighted, InFlight, SameTable, SameCache
<1>8. Announced(e)'
  <2>1. epoch \in Int /\ DOMAIN Rows(e) = DOMAIN Notes(e)
        /\ \A i \in DOMAIN Notes(e) : Notes(e)[i].epoch \in Int
    BY Typing, Tables DEF EntryInv, Dated
  <2>2. \A i \in DOMAIN Rows(e)' : Notes(e)'[i].epoch # epoch'
    BY <1>1, <1>6, <2>1 DEF SameTable
  <2>. QED  BY <1>1, <1>2, <2>2 DEF EntryInv, Announced, InFlight, SameTable
<1>. QED  BY <1>3, <1>4, <1>5, <1>7, <1>8 DEF EntryInv

\* A commit that lands late takes nothing from the table.
LEMMA CommitLandsKeeps ==
    ASSUME TypeOK, TypeOK', NEW e \in Entries, NEW a \in Assets, EntryInv(e), CommitLands(a)
    PROVE  EntryInv(e)'
<1>1. /\ UNCHANGED <<now, phase, pc, round, lastPrice, db, audit, feed, epoch>>
      /\ \A b \in Assets : landed[b] \subseteq landed'[b]
  BY DEF CommitLands, loopVars, TypeOK
<1>2. SameTable(e)
  BY <1>1, Typing DEF SameTable, Rows, Notes, Table
<1>3. Kept(e)
  BY <1>1, <1>2, SameCaches, Ordered DEF Kept, SameFeed
<1>. QED  BY <1>3, KeptSuffices

LEMMA ProcessKeeps ==
    ASSUME TypeOK, TypeOK', NEW e \in Entries, EntryInv(e),
           StopBegins \/ StopReturns \/ Crash \/ Restart \/ Advance \/ UNCHANGED vars
    PROVE  EntryInv(e)'
<1>1. CASE StopBegins \/ StopReturns \/ Advance \/ UNCHANGED vars
  <2>1. /\ UNCHANGED <<pc, round, lastPrice, db, landed, audit, feed, epoch>>
        /\ now' = now \/ now' = now + 1
        /\ phase' = "down" <=> phase = "down"
    BY <1>1 DEF StopBegins, StopReturns, AllLoopsDone, Advance, vars, loopVars
  <2>2. Kept(e)
    BY <2>1, SameTables, SameCaches, Ordered DEF Kept, SameFeed
  <2>. QED  BY <2>2, KeptSuffices
<1>. QED  BY <1>1, CrashKeeps, RestartKeeps

-----------------------------------------------------------------------------
(* The theorems.                                                           *)

LEMMA CoherentInit == Init => Coherent
<1>. SUFFICES ASSUME Init  PROVE Coherent
  OBVIOUS
<1>1. Len(<< >>) = 0 /\ DOMAIN << >> = {}
  OBVIOUS
<1>2. Unlisted
  BY DEF Init, Unlisted
<1>3. ASSUME NEW e \in Entries  PROVE EntryInv(e)
  <2>1. /\ pc[e] = "start" /\ Rows(e) = << >> /\ Notes(e) = << >> /\ ~ Cached(e)
        /\ feed = << >>
    BY EntriesAssumption DEF Init, Rows, Notes, Cached, EmptyCache, EveryLoop
  <2>2. Dated(e) /\ Band(e) /\ OneBlind(e) /\ Announced(e)
    BY <1>1, <2>1 DEF Dated, Band, OneBlind, Announced
  <2>3. InTime(e) /\ Guarded(e) /\ Settled(e) /\ Tracks(e) /\ Sighted(e)
    BY <2>1 DEF InTime, InFlight, Sampled, Guarded, Settled, Tracks, Sighted
  <2>. QED  BY <2>2, <2>3 DEF EntryInv
<1>. QED  BY <1>2, <1>3 DEF Coherent

LEMMA CoherentNext ==
    ASSUME UniqueIds, TypeOK, TypeOK', Coherent, [Next]_vars
    PROVE  Coherent'
<1>1. Unlisted'
  BY UnlistedKept DEF Coherent
<1>2. ASSUME NEW f \in Entries  PROVE EntryInv(f)'
  <2>1. EntryInv(f)
    BY DEF Coherent
  <2>2. ASSUME NEW e \in Entries, Loop(e)  PROVE EntryInv(f)'
    <3>1. CASE e = f
      BY <2>1, <2>2, <3>1, LoopKeeps
    <3>2. CASE e # f
      <4>1. Kept(f)
        BY <2>2, <3>2, LoopSpares DEF UniqueIds
      <4>. QED  BY <2>1, <4>1, KeptSuffices
    <3>. QED  BY <3>1, <3>2
  <2>3. CASE StopBegins \/ StopReturns \/ Crash \/ Restart \/ Advance \/ UNCHANGED vars
    BY <2>1, <2>3, ProcessKeeps
  <2>4. ASSUME NEW a \in Assets, CommitLands(a)  PROVE EntryInv(f)'
    BY <2>1, <2>4, CommitLandsKeeps
  <2>. QED  BY <2>2, <2>3, <2>4 DEF Next
<1>. QED  BY <1>1, <1>2 DEF Coherent

\* The inductive invariant: at every step of every loop, cache, table and
\* feed agree about the last accepted price of its asset.
THEOREM Coherence == ASSUME UniqueIds PROVE Spec => []Coherent
<1>1. TypeOK /\ TypeOK' /\ Coherent /\ [Next]_vars => Coherent'
  BY CoherentNext
<1>. QED  BY <1>1, CoherentInit, TypeCorrect, PTL DEF Spec

LEMMA CoherentSafe ==
    ASSUME TypeOK, Coherent
    PROVE  BandHeld /\ BlindOnce /\ CacheTracksRows /\ FeedMirrorsRows
<1>1. ASSUME NEW a \in Assets, db[a] # << >> \/ audit[a] # << >>
      PROVE  \E e \in Entries : IdOf[e] = a
  BY <1>1 DEF Coherent, Unlisted
<1>2. Len(<< >>) = 0 /\ DOMAIN << >> = {}
  OBVIOUS
<1>3. BandHeld
  <2>. SUFFICES ASSUME NEW a \in Assets, db[a] # << >>
                PROVE  \A j \in DOMAIN db[a] : \A i \in 1..(j - 1) :
                          audit[a][i].acked /\ ~ audit[a][j].blind
                            /\ landed[a] \cap (i + 1)..(j - 1) = {}
                              => Accepts(db[a][j].median, db[a][i].median)
    BY <1>2 DEF BandHeld
  <2>1. PICK e \in Entries : IdOf[e] = a
    BY <1>1
  <2>. QED  BY <2>1 DEF Coherent, EntryInv, Band, Rows, Notes, Table
<1>4. BlindOnce
  <2>. SUFFICES ASSUME NEW a \in Assets, audit[a] # << >>
                PROVE  \A j \in DOMAIN audit[a] : \A i \in 1..(j - 1) :
                          audit[a][j].acked /\ audit[a][j].blind /\ audit[a][i].acked
                             => audit[a][i].epoch < audit[a][j].epoch
    BY <1>2 DEF BlindOnce
  <2>1. PICK e \in Entries : IdOf[e] = a
    BY <1>1
  <2>. QED  BY <2>1 DEF Coherent, EntryInv, OneBlind, Notes
<1>5. CacheTracksRows
  BY DEF CacheTracksRows, Coherent, EntryInv, Tracks, Recent, Rows, Notes, Table, Cached
<1>6. FeedMirrorsRows
  <2>1. ASSUME NEW k \in DOMAIN feed, NEW l \in DOMAIN feed, k < l,
               feed[k].asset = feed[l].asset
        PROVE  feed[k].at < feed[l].at
    <3>1. PICK e \in Entries : feed[k].asset = IdOf[e]
      BY DEF Coherent, Unlisted
    <3>. QED  BY <2>1, <3>1 DEF Coherent, EntryInv, Announced
  <2>2. ASSUME phase # "down", NEW e \in Entries, NEW i \in DOMAIN db[IdOf[e]],
               audit[IdOf[e]][i].acked, audit[IdOf[e]][i].epoch = epoch
        PROVE  \/ \E k \in DOMAIN feed :
                     feed[k].asset = IdOf[e] /\ feed[k].at = db[IdOf[e]][i].at
               \/ pc[e] \in {"cache", "publish"} /\ round[e].at = db[IdOf[e]][i].at
    BY <2>2 DEF Coherent, EntryInv, Announced, Rows, Notes
  <2>. QED  BY <2>1, <2>2 DEF FeedMirrorsRows
<1>. QED  BY <1>3, <1>4, <1>5, <1>6

\* When every asset is listed once, a row whose predecessor was acknowledged
\* is within the deviation band around it, unless getLast could not read; for
\* any number of rounds, crashes, failed calls and lost answers.
THEOREM GuardHolds == ASSUME UniqueIds PROVE Spec => []BandHeld
BY Coherence, TypeCorrect, CoherentSafe, PTL

\* When every asset is listed once, at most the first acknowledged row of a
\* process was accepted by a guard that could not read the last price.
THEOREM SeldomBlind == ASSUME UniqueIds PROVE Spec => []BlindOnce
BY Coherence, TypeCorrect, CoherentSafe, PTL

\* When every asset is listed once, lastPrice never lags an acknowledged row
\* but between PersistRound and setLast.
THEOREM CacheIsCurrent == ASSUME UniqueIds PROVE Spec => []CacheTracksRows
BY Coherence, TypeCorrect, CoherentSafe, PTL

\* When every asset is listed once, the bus hears the acknowledged rows of an
\* asset in order, and of this process every one.
THEOREM FeedIsFaithful == ASSUME UniqueIds PROVE Spec => []FeedMirrorsRows
BY Coherence, TypeCorrect, CoherentSafe, PTL

-----------------------------------------------------------------------------
(* The guard stays on.                                                     *)

\* From an acknowledged positive row to one that is not, a blind one lies
\* between: NeverDisarmed, for one asset.
Armed(a) ==
    \A j \in DOMAIN db[a] : \A i \in 1..(j - 1) :
        audit[a][i].acked /\ db[a][i].median > 0 /\ db[a][j].median <= 0
            => \E k \in (i + 1)..j : audit[a][k].blind

\* Within a band of less than the whole price, a price above zero is followed
\* by one above zero.
LEMMA BandKeepsSign ==
    ASSUME NEW p \in Int, NEW q \in Int, MaxDeviationPct < 100, q > 0, Accepts(p, q)
    PROVE  p > 0
<1>1. MaxDeviationPct \in 1..99
  BY ConfigAssumption
<1>2. ASSUME p <= 0  PROVE FALSE
  <2>1. Abs(p - q) >= q
    BY <1>2 DEF Abs
  <2>2. Abs(p - q) \in Int
    BY DEF Abs
  <2>. DEFINE d == Abs(p - q)
  <2>3. d * 100 <= MaxDeviationPct * q
    BY <1>1, <2>2 DEF Accepts, Deviates
  <2>. HIDE DEF d
  <2>4. MaxDeviationPct * q <= 99 * q
    BY <1>1
  <2>5. d \in Int /\ d >= q
    BY <2>1, <2>2 DEF d
  <2>. QED  BY <1>1, <2>3, <2>4, <2>5
<1>. QED  BY <1>2

\* The new row was judged by a recent one.  If that one is not positive, the
\* blind round lies before it; if it is, the new one is positive, or blind.
LEMMA CommitArmed ==
    ASSUME TypeOK, TypeOK', Coherent, MaxDeviationPct < 100,
           NEW e \in Entries, PersistCommits(e), Armed(IdOf[e])
    PROVE  Armed(IdOf[e])'
<1>. DEFINE a == IdOf[e]
            n == Len(Rows(e))
            row == [median |-> round[e].median, at |-> round[e].at]
<1>1. PICK note \in Audit :
        /\ audit' = [audit EXCEPT ![a] = Append(@, note)]
        /\ note.blind = round[e].blind
  <2>1. PICK acked \in BOOLEAN :
          audit' = [audit EXCEPT ![a] = Append(@,
             [acked |-> acked, blind |-> round[e].blind, epoch |-> epoch])]
    BY DEF PersistCommits
  <2>2. [acked |-> acked, blind |-> round[e].blind, epoch |-> epoch] \in Audit
    BY Typing DEF Audit, TypeOK
  <2>. QED  BY <2>1, <2>2
<1>2. /\ row \in Row /\ db' = [db EXCEPT ![a] = Append(@, row)]
      /\ pc[e] = "persist" /\ row.median = round[e].median /\ row.median \in Int
  BY Typing DEF PersistCommits, Row
<1>3. EntryInv(e) /\ a \in Assets
  BY Typing DEF Coherent
<1>4. /\ n \in Nat /\ Len(Notes(e)) = n
      /\ DOMAIN Rows(e) = 1..n /\ DOMAIN Notes(e) = 1..n
      /\ \A i \in 1..n : Rows(e)[i].median \in Int
  BY <1>3, Tables DEF EntryInv, Dated
<1>5. Rows(e)' = Append(Rows(e), row) /\ Notes(e)' = Append(Notes(e), note)
  BY <1>1, <1>2, <1>3 DEF TypeOK, Rows, Notes
<1>. HIDE DEF row
<1>6. /\ DOMAIN Rows(e)' = 1..(n + 1)
      /\ \A i \in 1..n : Rows(e)'[i] = Rows(e)[i] /\ Notes(e)'[i] = Notes(e)[i]
      /\ Rows(e)'[n + 1] = row /\ Notes(e)'[n + 1] = note
  BY <1>2, <1>4, <1>5, Appended, Typing
<1>. HIDE DEF n
<1>7. \A j \in 1..n : \A i \in 1..(j - 1) :
         Notes(e)[i].acked /\ Rows(e)[i].median > 0 /\ Rows(e)[j].median <= 0
            => \E k \in (i + 1)..j : Notes(e)[k].blind
  BY <1>4 DEF Armed, Rows, Notes
<1>8. ASSUME NEW i \in 1..n, Notes(e)[i].acked, Rows(e)[i].median > 0, row.median <= 0,
             ~ note.blind
      PROVE  \E k \in (i + 1)..n : Notes(e)[k].blind
  <2>1. PICK r \in 1..n : Recent(e, r) /\ Accepts(row.median, Rows(e)[r].median)
    BY <1>1, <1>2, <1>3, <1>4, <1>8 DEF EntryInv, Guarded
  <2>2. Rows(e)[r].median <= 0
    BY <1>2, <1>4, <1>8, <2>1, BandKeepsSign
  <2>3. i < r
    <3>1. ASSUME r < i  PROVE FALSE
      <4>1. i \in (r + 1)..Len(Rows(e))
        BY <1>4, <3>1 DEF n
      <4>. QED  BY <1>8, <2>1, <4>1 DEF Recent
    <3>2. r # i
      BY <1>4, <1>8, <2>2
    <3>. QED  BY <1>4, <3>1, <3>2
  <2>4. i \in 1..(r - 1)
    BY <1>4, <2>3
  <2>5. PICK k \in (i + 1)..r : Notes(e)[k].blind
    BY <1>7, <1>8, <2>2, <2>4
  <2>. QED  BY <1>4, <2>5
<1>9. ASSUME NEW j \in 1..(n + 1), NEW i \in 1..(j - 1),
             Notes(e)'[i].acked, Rows(e)'[i].median > 0, Rows(e)'[j].median <= 0
      PROVE  \E k \in (i + 1)..j : Notes(e)'[k].blind
  <2>1. i \in 1..n /\ Rows(e)'[i] = Rows(e)[i] /\ Notes(e)'[i] = Notes(e)[i]
    BY <1>4, <1>6
  <2>2. CASE j \in 1..n
    <3>1. PICK k \in (i + 1)..j : Notes(e)[k].blind
      BY <1>6, <1>7, <1>9, <2>1, <2>2
    <3>2. k \in 1..n
      BY <1>4, <2>1, <2>2
    <3>. QED  BY <1>6, <3>1, <3>2
  <2>3. CASE j = n + 1 /\ note.blind
    <3>1. j \in (i + 1)..j
      BY <1>4, <2>1, <2>3
    <3>. QED  BY <1>6, <2>3, <3>1
  <2>4. CASE j = n + 1 /\ ~ note.blind
    <3>1. PICK k \in (i + 1)..n : Notes(e)[k].blind
      BY <1>6, <1>8, <1>9, <2>1, <2>4
    <3>2. k \in 1..n /\ k \in (i + 1)..j
      BY <1>4, <2>1, <2>4
    <3>. QED  BY <1>6, <3>1, <3>2
  <2>. QED  BY <1>4, <2>2, <2>3, <2>4
<1>. QED  BY <1>6, <1>9 DEF Armed, Rows, Notes

LEMMA DisarmedNext ==
    ASSUME TypeOK, TypeOK', Coherent, NeverDisarmed, [Next]_vars
    PROVE  NeverDisarmed'
<1>. SUFFICES ASSUME MaxDeviationPct < 100, NEW a \in Assets
              PROVE  Armed(a)'
  BY DEF NeverDisarmed, Armed
<1>1. Armed(a)
  BY DEF NeverDisarmed, Armed
<1>2. ASSUME NEW e \in Entries, PersistCommits(e)  PROVE Armed(a)'
  <2>1. CASE IdOf[e] = a
    BY <1>1, <1>2, <2>1, CommitArmed
  <2>2. CASE IdOf[e] # a
    <3>1. db'[a] = db[a] /\ audit'[a] = audit[a]
      BY <1>2, <2>2 DEF PersistCommits, TypeOK
    <3>. QED  BY <1>1, <3>1 DEF Armed
  <2>. QED  BY <2>1, <2>2
<1>3. CASE ~ \E e \in Entries : PersistCommits(e)
  <2>1. UNCHANGED <<db, audit>>
    BY <1>3 DEF Next, Loop, Tick, getLast, BeginTick, FetchReturns, Expire, TickerFires,
         LoopExits, TooFewSources, Aggregate, CacheHit, CacheMiss, LoadNone, LoadFails,
         LoadRow, SeedLast, PersistFails, CacheLast, Publish, CommitLands, StopBegins,
         StopReturns, Crash, Restart, Advance, vars
  <2>. QED  BY <1>1, <2>1 DEF Armed
<1>. QED  BY <1>2, <1>3

\* When every asset is listed once and the band is narrower than the price
\* itself, nothing but a round whose read failed lets a price of zero or less
\* past an acknowledged positive one, and so switches the guard off.
THEOREM GuardStaysOn == ASSUME UniqueIds PROVE Spec => []NeverDisarmed
<1>1. Init => NeverDisarmed
  <2>1. DOMAIN << >> = {}
    OBVIOUS
  <2>. QED  BY <2>1 DEF Init, NeverDisarmed
<1>2. TypeOK /\ TypeOK' /\ Coherent /\ NeverDisarmed /\ [Next]_vars => NeverDisarmed'
  BY DisarmedNext
<1>. QED  BY <1>1, <1>2, Coherence, TypeCorrect, PTL DEF Spec

-----------------------------------------------------------------------------
(* Stop.                                                                   *)

\* Once Stop has returned, every loop has.
AllDone == phase = "stopped" => \A e \in Entries : pc[e] = "done"

LEMMA AllDoneNext == TypeOK /\ AllDone /\ [Next]_vars => AllDone'
<1>. SUFFICES ASSUME TypeOK, AllDone, [Next]_vars  PROVE AllDone'
  OBVIOUS
<1>1. CASE \E e \in Entries : Loop(e)
  <2>1. PICK e \in Entries : Loop(e)
    BY <1>1
  <2>2. pc[e] # "done" /\ phase' = phase
    BY <2>1 DEF Loop, Tick, getLast, BeginTick, FetchReturns, Expire, InFlight, TickerFires,
       LoopExits, TooFewSources, Collected, Aggregate, CacheHit, CacheMiss, LoadNone,
       LoadFails, LoadRow, SeedLast, PersistFails, PersistCommits, CacheLast, Publish
  <2>. QED  BY <2>2 DEF AllDone
<1>2. CASE StopBegins \/ StopReturns \/ Crash \/ Restart \/ Advance \/ UNCHANGED vars
  BY <1>2 DEF AllDone, StopBegins, StopReturns, AllLoopsDone, Crash, Restart, Advance,
              vars, loopVars
<1>3. CASE \E a \in Assets : CommitLands(a)
  BY <1>3 DEF AllDone, CommitLands, loopVars
<1>. QED  BY <1>1, <1>2, <1>3 DEF Next

\* After Stop has returned nothing writes the table or calls Publish, and no
\* loop is inside a tick: Stop waits for every one of them.
THEOREM StopIsFinal == Spec => QuietAfterStop
<1>1. Init => AllDone
  BY DEF Init, AllDone
<1>2. AllDone /\ AllDone' /\ [Next]_vars =>
        [phase = "stopped" /\ phase' \in {"stopped", "down"} =>
            /\ UNCHANGED <<db, feed>>
            /\ \A e \in Entries : pc[e] \notin InFlight]_vars
  <2>. SUFFICES ASSUME AllDone, Next, phase = "stopped"
                PROVE  UNCHANGED <<db, feed>> /\ \A e \in Entries : pc[e] \notin InFlight
    OBVIOUS
  <2>1. \A e \in Entries : pc[e] = "done"
    BY DEF AllDone
  <2>2. ~ \E e \in Entries : PersistCommits(e) \/ Publish(e)
    BY <2>1 DEF PersistCommits, Publish
  <2>3. UNCHANGED <<db, feed>>
    BY <2>2 DEF Next, Loop, Tick, getLast, BeginTick, FetchReturns, Expire, TickerFires,
         LoopExits, TooFewSources, Aggregate, CacheHit, CacheMiss, LoadNone, LoadFails,
         LoadRow, SeedLast, PersistFails, CacheLast, CommitLands, StopBegins,
         StopReturns, Crash, Restart, Advance
  <2>. QED  BY <2>1, <2>3 DEF InFlight
<1>. QED  BY <1>1, <1>2, AllDoneNext, TypeCorrect, PTL DEF Spec, QuietAfterStop

-----------------------------------------------------------------------------
(* The cache and the feed when an asset may be listed more than once.      *)

Backed(a, median) == \E i \in landed[a] : db[a][i].median = median

Recorded(a, median, at) ==
    \E i \in landed[a] : db[a][i] = [median |-> median, at |-> at] /\ audit[a][i].acked

\* What a loop will cache or publish is in the table.
Carries(e) ==
    /\ pc[e] = "seed" => Backed(IdOf[e], round[e].row)
    /\ pc[e] \in {"cache", "publish"} => Recorded(IdOf[e], round[e].median, round[e].at)

\* No two rounds have one time, whichever loops they are of.
Apart(e) ==
    pc[e] \in Sampled =>
        /\ round[e].at <= now
        /\ \A f \in Entries \ {e} : pc[f] \in Sampled => round[f].at # round[e].at
        /\ \A k \in DOMAIN feed : feed[k].at # round[e].at

\* Cache and feed repeat the table.
Traced ==
    /\ \A a \in Assets : Len(audit[a]) = Len(db[a])
    /\ \A e \in Entries : Carries(e) /\ Apart(e)
    /\ CacheFromRows
    /\ \A k \in DOMAIN feed :
          Recorded(feed[k].asset, feed[k].median, feed[k].at) /\ feed[k].at <= now
    /\ \A k, l \in DOMAIN feed : feed[k].at = feed[l].at => k = l

LEMMA TableGrows ==
    ASSUME TypeOK, NEW a \in Assets, Len(audit[a]) = Len(db[a]), [Next]_vars
    PROVE  /\ Len(audit'[a]) = Len(db'[a])
           /\ \A i \in landed[a] :
                 i \in landed'[a] /\ db'[a][i] = db[a][i] /\ audit'[a][i] = audit[a][i]
<1>1. CASE \E e \in Entries : PersistCommits(e)
  <2>1. PICK e \in Entries : PersistCommits(e)
    BY <1>1
  <2>2. PICK acked \in BOOLEAN, lands \in BOOLEAN :
          /\ landed' = [landed EXCEPT ![IdOf[e]] = IF lands THEN @ \cup {Len(db[IdOf[e]]) + 1} ELSE @]
          /\ audit' = [audit EXCEPT ![IdOf[e]] = Append(@,
                [acked |-> acked, blind |-> round[e].blind, epoch |-> epoch])]
    BY <2>1 DEF PersistCommits
  <2>. DEFINE row == [median |-> round[e].median, at |-> round[e].at]
              note == [acked |-> acked, blind |-> round[e].blind, epoch |-> epoch]
  <2>3. row \in Row /\ note \in Audit
    BY Typing DEF Row, Audit, TypeOK
  <2>4. db' = [db EXCEPT ![IdOf[e]] = Append(@, row)]
    BY <2>1 DEF PersistCommits
  <2>5. db[a] \in Seq(Row) /\ audit[a] \in Seq(Audit) /\ landed[a] \subseteq DOMAIN db[a]
    BY DEF TypeOK
  <2>6. CASE a = IdOf[e]
    <3>1. db'[a] = Append(db[a], row) /\ audit'[a] = Append(audit[a], note)
          /\ landed[a] \subseteq landed'[a]
      BY <2>2, <2>4, <2>6 DEF TypeOK
    <3>2. DOMAIN db[a] = 1..Len(db[a]) /\ DOMAIN audit[a] = 1..Len(db[a])
      BY <2>5, LenProperties
    <3>. HIDE DEF row, note
    <3>. QED  BY <2>3, <2>5, <3>1, <3>2, Appended
  <2>7. CASE a # IdOf[e]
    <3>1. db'[a] = db[a] /\ audit'[a] = audit[a] /\ landed'[a] = landed[a]
      BY <2>2, <2>4, <2>7 DEF TypeOK
    <3>. QED  BY <3>1
  <2>. QED  BY <2>6, <2>7
<1>2. CASE \E b \in Assets : CommitLands(b)
  BY <1>2 DEF CommitLands, TypeOK
<1>3. CASE ~ (\E e \in Entries : PersistCommits(e)) /\ ~ \E b \in Assets : CommitLands(b)
  <2>1. UNCHANGED <<db, audit, landed>>
    BY <1>3 DEF Next, Loop, Tick, getLast, BeginTick, FetchReturns, Expire, TickerFires,
       LoopExits, TooFewSources, Aggregate, CacheHit, CacheMiss, LoadNone, LoadFails, LoadRow,
       SeedLast, PersistFails, CacheLast, Publish, StopBegins, StopReturns, Crash, Restart,
       Advance, vars
  <2>. QED  BY <2>1
<1>. QED  BY <1>1, <1>2, <1>3

\* What is in the table stays there.
LEMMA BackingStays ==
    ASSUME TypeOK, Traced, [Next]_vars, NEW a \in Assets
    PROVE  /\ \A m : Backed(a, m) => Backed(a, m)'
           /\ \A m, t : Recorded(a, m, t) => Recorded(a, m, t)'
<1>1. \A i \in landed[a] :
         i \in landed'[a] /\ db'[a][i] = db[a][i] /\ audit'[a][i] = audit[a][i]
  BY TableGrows DEF Traced
<1>. QED  BY <1>1 DEF Backed, Recorded

\* A step that leaves e, or ends its tick.
Calm(e) ==
    /\ pc'[e] \in Sampled => pc[e] \in Sampled /\ round'[e].at = round[e].at
    /\ pc'[e] = "seed" => pc[e] = "seed" /\ round'[e].row = round[e].row
    /\ pc'[e] \in {"cache", "publish"} =>
          pc[e] \in {"cache", "publish"} /\ round'[e].median = round[e].median

LEMMA CarriesOn ==
    ASSUME TypeOK, Traced, [Next]_vars, NEW e \in Entries, Calm(e)
    PROVE  Carries(e)'
<1>1. IdOf[e] \in Assets
  BY EntriesAssumption
<1>2. pc'[e] = "seed" => Backed(IdOf[e], round[e].row)'
  BY <1>1, BackingStays DEF Traced, Carries, Calm
<1>3. pc'[e] \in {"cache", "publish"} => Recorded(IdOf[e], round[e].median, round[e].at)'
  BY <1>1, BackingStays DEF Traced, Carries, Calm, Sampled
<1>. QED  BY <1>2, <1>3 DEF Carries, Calm, Backed, Recorded, Sampled

\* The times stay apart, if at most f gets a new one, a later one.
LEMMA TimesApart ==
    ASSUME TypeOK, TypeOK', Traced, NEW f \in Entries, feed' = feed, now <= now',
           \A e \in Entries \ {f} :
               pc'[e] \in Sampled => pc[e] \in Sampled /\ round'[e].at = round[e].at,
           pc'[f] \in Sampled =>
               \/ pc[f] \in Sampled /\ round'[f].at = round[f].at
               \/ round'[f].at = now + 1 /\ now' = now + 1
    PROVE  \A e \in Entries : Apart(e)'
<1>1. now \in Int /\ now' \in Int
  BY DEF TypeOK
<1>2. \A e \in Entries : round[e].at \in Int /\ round'[e].at \in Int
  BY DEF TypeOK, Round
<1>3. \A k \in DOMAIN feed : feed[k].at \in Int /\ feed[k].at <= now
  BY Feeds DEF Traced
<1>. QED  BY <1>1, <1>2, <1>3 DEF Traced, Apart

\* The feed stays true while it stays.
LEMMA FeedStays ==
    ASSUME TypeOK, TypeOK', Traced, [Next]_vars, feed' = feed, now <= now'
    PROVE  /\ \A k \in DOMAIN feed' :
                 Recorded(feed[k].asset, feed[k].median, feed[k].at)' /\ feed'[k].at <= now'
           /\ \A k, l \in DOMAIN feed' : feed'[k].at = feed'[l].at => k = l
           /\ \A a \in Assets : Len(audit'[a]) = Len(db'[a])
<1>1. now \in Int /\ now' \in Int
  BY DEF TypeOK
<1>2. \A k \in DOMAIN feed : feed[k].asset \in Assets /\ feed[k].at \in Int
  <2>1. feed \in Seq(Publication)
    BY DEF TypeOK
  <2>2. \A k \in DOMAIN feed : feed[k] \in Publication
    BY <2>1, Feeds, ElementOfSeq
  <2>. QED  BY <2>2 DEF Publication
<1>3. ASSUME NEW k \in DOMAIN feed
      PROVE  Recorded(feed[k].asset, feed[k].median, feed[k].at)'
  BY <1>2, <1>3, BackingStays DEF Traced, Recorded
<1>. QED  BY <1>1, <1>2, <1>3, TableGrows DEF Traced

LEMMA CacheStays ==
    ASSUME TypeOK, Traced, [Next]_vars, lastPrice' = lastPrice \/ lastPrice' = EmptyCache
    PROVE  CacheFromRows'
<1>1. \A a \in DOMAIN lastPrice : a \in Assets /\ Backed(a, lastPrice[a])
  BY DEF TypeOK, Traced, CacheFromRows, Backed
<1>2. CASE lastPrice' = lastPrice
  BY <1>1, <1>2, BackingStays DEF CacheFromRows, Backed
<1>3. CASE lastPrice' = EmptyCache
  BY <1>3 DEF EmptyCache, CacheFromRows
<1>. QED  BY <1>2, <1>3

\* Caching what is in the table.
LEMMA CacheSet ==
    ASSUME TypeOK, Traced, [Next]_vars, NEW a \in Assets, NEW m, Backed(a, m), setLast(a, m)
    PROVE  CacheFromRows'
<1>1. \A b \in DOMAIN lastPrice' :
         b \in Assets /\ Backed(b, lastPrice'[b])
  BY DEF TypeOK, Traced, CacheFromRows, Backed, setLast
<1>. QED  BY <1>1, BackingStays DEF CacheFromRows, Backed

\* A step of one loop is nothing to the others.
LEMMA OthersCalm ==
    ASSUME TypeOK, NEW e \in Entries, Loop(e), NEW f \in Entries, f # e
    PROVE  pc'[f] = pc[f] /\ round'[f] = round[f]
<1>1. ASSUME NEW step, Goto(e, step)  PROVE pc'[f] = pc[f] /\ round'[f] = round[f]
  BY <1>1 DEF Goto, TypeOK
<1>2. ASSUME EndTick(e)  PROVE pc'[f] = pc[f] /\ round'[f] = round[f]
  BY <1>2 DEF EndTick, TypeOK
<1>3. CASE BeginTick(e) \/ Expire(e) \/ TickerFires(e) \/ LoopExits(e)
  BY <1>3 DEF BeginTick, Expire, TickerFires, LoopExits, TypeOK
<1>4. CASE \E s \in Sources : FetchReturns(e, s)
  BY <1>4 DEF FetchReturns
<1>5. CASE Aggregate(e) \/ LoadFails(e) \/ LoadRow(e)
  BY <1>5 DEF Aggregate, LoadFails, LoadRow, TypeOK
<1>6. CASE TooFewSources(e) \/ PersistFails(e) \/ Publish(e)
  BY <1>2, <1>6 DEF TooFewSources, PersistFails, Publish
<1>7. CASE CacheHit(e) \/ SeedLast(e) \/ PersistCommits(e)
  BY <1>1, <1>2, <1>7 DEF CacheHit, SeedLast, PersistCommits, Judge
<1>8. CASE CacheMiss(e) \/ LoadNone(e) \/ CacheLast(e)
  BY <1>1, <1>8 DEF CacheMiss, LoadNone, CacheLast
<1>. QED  BY <1>3, <1>4, <1>5, <1>6, <1>7, <1>8 DEF Loop, Tick, getLast

\* An acknowledged round is in the table.
LEMMA CommitRecorded ==
    ASSUME TypeOK, TypeOK', Traced, NEW e \in Entries, PersistCommits(e),
           pc'[e] = "cache", round'[e] = round[e]
    PROVE  Recorded(IdOf[e], round[e].median, round[e].at)'
<1>. DEFINE a == IdOf[e]
            n == Len(db[a]) + 1
            row == [median |-> round[e].median, at |-> round[e].at]
<1>1. PICK acked \in BOOLEAN, lands \in BOOLEAN :
        /\ acked => lands
        /\ IF acked THEN Goto(e, "cache") ELSE EndTick(e)
        /\ landed' = [landed EXCEPT ![a] = IF lands THEN @ \cup {n} ELSE @]
        /\ audit' = [audit EXCEPT ![a] = Append(@,
              [acked |-> acked, blind |-> round[e].blind, epoch |-> epoch])]
  BY DEF PersistCommits
<1>. DEFINE note == [acked |-> acked, blind |-> round[e].blind, epoch |-> epoch]
<1>2. acked = TRUE /\ lands = TRUE
  <2>1. EndTick(e) => pc'[e] # "cache"
    BY DEF EndTick, TypeOK
  <2>. QED  BY <1>1, <2>1
<1>3. row \in Row /\ note \in Audit
  BY Typing DEF Row, Audit, TypeOK
<1>4. db[a] \in Seq(Row) /\ audit[a] \in Seq(Audit) /\ Len(audit[a]) = Len(db[a]) /\ a \in Assets
  BY Typing DEF TypeOK, Traced
<1>5. /\ db'[a] = Append(db[a], row) /\ audit'[a] = Append(audit[a], note)
      /\ landed'[a] = landed[a] \cup {n}
  BY <1>1, <1>2, <1>4 DEF PersistCommits, TypeOK
<1>6. note.acked
  BY <1>2
<1>. HIDE DEF row, note
<1>7. db'[a][n] = row /\ audit'[a][n] = note
  BY <1>3, <1>4, <1>5, Appended
<1>. QED  BY <1>5, <1>6, <1>7 DEF Recorded, row

\* Publish says once what the table has.
LEMMA PublishTraces ==
    ASSUME TypeOK, TypeOK', Traced, NEW e \in Entries, Publish(e), [Next]_vars,
           \A f \in Entries \ {e} : pc'[f] = pc[f] /\ round'[f] = round[f] /\ Carries(f)'
    PROVE  Traced'
<1>. DEFINE x == Aggregated(e)
            n == Len(feed)
<1>1. /\ pc[e] = "publish" /\ pc'[e] = "idle" /\ feed' = Append(feed, x)
      /\ UNCHANGED <<now, lastPrice, db, landed, audit>>
  BY DEF Publish, EndTick, TypeOK
<1>2. x \in Publication /\ x.asset = IdOf[e] /\ x.median = round[e].median /\ x.at = round[e].at
  BY Typing DEF Aggregated, Publication
<1>. HIDE DEF x
<1>3. /\ n \in Nat /\ DOMAIN feed = 1..n /\ DOMAIN feed' = 1..(n + 1)
      /\ feed'[n + 1] = x /\ \A k \in 1..n : feed'[k] = feed[k]
  BY <1>1, <1>2, Feeds, Appended DEF TypeOK
<1>4. /\ Recorded(x.asset, x.median, x.at) /\ x.at <= now
      /\ \A k \in 1..n : feed[k].at # x.at
      /\ \A f \in Entries \ {e} : pc[f] \in Sampled => round[f].at # x.at
  BY <1>1, <1>2, <1>3 DEF Traced, Carries, Apart, Sampled
<1>5. CacheFromRows'
  BY <1>1, CacheStays
<1>6. \A f \in Entries : Carries(f)' /\ Apart(f)'
  <2>1. Carries(e)' /\ Apart(e)'
    BY <1>1 DEF Carries, Apart, Sampled
  <2>2. ASSUME NEW f \in Entries \ {e}  PROVE Apart(f)'
    <3>1. /\ pc'[f] = pc[f] /\ round'[f] = round[f]
          /\ \A g \in Entries : pc'[g] \in Sampled => pc'[g] = pc[g] /\ round'[g] = round[g]
      BY <1>1 DEF Sampled
    <3>2. Apart(f) /\ now' = now
      BY <1>1 DEF Traced
    <3>3. \A k \in DOMAIN feed' : feed'[k] = x \/ (k \in DOMAIN feed /\ feed'[k] = feed[k])
      BY <1>3
    <3>4. pc[f] \in Sampled => x.at # round[f].at
      BY <1>4
    <3>. HIDE DEF n
    <3>. QED  BY <3>1, <3>2, <3>3, <3>4 DEF Apart
  <2>. QED  BY <2>1, <2>2
<1>7. \A k \in DOMAIN feed' :
         Recorded(feed[k].asset, feed[k].median, feed[k].at)' /\ feed'[k].at <= now'
  BY <1>1, <1>3, <1>4 DEF Traced, Recorded
<1>8. \A k, l \in DOMAIN feed' : feed'[k].at = feed'[l].at => k = l
  BY <1>3, <1>4 DEF Traced
<1>. QED  BY <1>1, <1>5, <1>6, <1>7, <1>8 DEF Traced

LEMMA LoopTraces ==
    ASSUME TypeOK, TypeOK', Traced, NEW e \in Entries, Loop(e)
    PROVE  Traced'
<1>. DEFINE same == pc'[e] = pc[e] /\ round'[e] = round[e]
            ended == pc'[e] \notin Sampled
<1>0. [Next]_vars /\ IdOf[e] \in Assets /\ round[e] \in Round /\ Carries(e) /\ Apart(e)
  BY EntriesAssumption DEF Next, TypeOK, Traced
<1>1. \A f \in Entries \ {e} : pc'[f] = pc[f] /\ round'[f] = round[f]
  BY OthersCalm
<1>2. \A f \in Entries \ {e} : Calm(f)
  BY <1>1 DEF Calm
<1>3. \A f \in Entries \ {e} : Carries(f)'
  BY <1>0, <1>2, CarriesOn
<1>4. now <= now' /\ now \in Int
  BY DEF TypeOK, Loop, Tick, getLast, BeginTick, FetchReturns, Expire, TickerFires, LoopExits,
     TooFewSources, Collected, Aggregate, CacheHit, CacheMiss, LoadNone, LoadFails, LoadRow,
     SeedLast, PersistFails, PersistCommits, CacheLast, Publish
<1>5. ASSUME EndTick(e)  PROVE ended
  BY <1>5 DEF EndTick, TypeOK, Sampled
<1>6. ASSUME NEW step, Goto(e, step)  PROVE pc'[e] = step /\ round'[e] = round[e]
  BY <1>6 DEF Goto, TypeOK
\* What is left to show when the feed stays.
<1>7. ASSUME feed' = feed, Carries(e)', CacheFromRows',
             pc'[e] \in Sampled =>
               \/ pc[e] \in Sampled /\ round'[e].at = round[e].at
               \/ round'[e].at = now + 1 /\ now' = now + 1
      PROVE  Traced'
  <2>1. \A f \in Entries : Apart(f)'
    <3>1. \A f \in Entries \ {e} :
             pc'[f] \in Sampled => pc[f] \in Sampled /\ round'[f].at = round[f].at
      BY <1>1
    <3>. QED  BY <1>4, <1>7, <3>1, TimesApart
  <2>. QED  BY <1>0, <1>3, <1>4, <1>7, <2>1, FeedStays DEF Traced
<1>8. ASSUME feed' = feed, lastPrice' = lastPrice, Calm(e)  PROVE Traced'
  BY <1>0, <1>7, <1>8, CacheStays, CarriesOn DEF Calm
<1>9. ended => Calm(e)
  BY DEF Calm, Sampled
<1>10. CASE BeginTick(e) \/ LoopExits(e)
  <2>1. ended
    BY <1>10 DEF BeginTick, LoopExits, TypeOK, Sampled
  <2>. QED  BY <1>8, <1>9, <1>10, <2>1 DEF BeginTick, LoopExits
<1>11. CASE Expire(e) \/ TickerFires(e) \/ \E s \in Sources : FetchReturns(e, s)
  BY <1>8, <1>11 DEF Expire, TickerFires, FetchReturns, Calm
<1>12. CASE TooFewSources(e) \/ PersistFails(e)
  BY <1>5, <1>8, <1>9, <1>12 DEF TooFewSources, PersistFails
<1>13. CASE Aggregate(e)
  <2>1. pc'[e] = "guard" /\ round'[e].at = now + 1 /\ now' = now + 1
        /\ feed' = feed /\ lastPrice' = lastPrice
    BY <1>13 DEF Aggregate, Collected, TypeOK, NoRound
  <2>2. Carries(e)'
    BY <2>1 DEF Carries
  <2>. QED  BY <1>0, <1>7, <2>1, <2>2, CacheStays
<1>14. CASE CacheHit(e)
  BY <1>5, <1>6, <1>8, <1>9, <1>14 DEF CacheHit, Judge, Calm, Sampled
<1>15. CASE CacheMiss(e) \/ LoadNone(e)
  BY <1>6, <1>8, <1>15 DEF CacheMiss, LoadNone, Calm, Sampled
<1>16. CASE LoadFails(e)
  <2>1. pc[e] = "load" /\ pc'[e] = "persist" /\ round'[e].at = round[e].at
    BY <1>0, <1>16 DEF LoadFails, TypeOK, Round
  <2>. QED  BY <1>8, <1>16, <2>1 DEF LoadFails, Calm, Sampled
<1>17. CASE LoadRow(e)
  <2>1. /\ pc[e] = "load" /\ pc'[e] = "seed" /\ feed' = feed /\ lastPrice' = lastPrice
        /\ landed[IdOf[e]] # {} /\ round' = [round EXCEPT ![e].row = LatestRow(IdOf[e]).median]
    BY <1>17 DEF LoadRow, TypeOK
  <2>2. PICK i \in landed[IdOf[e]] : LatestRow(IdOf[e]) = db[IdOf[e]][i]
    BY <1>0, <2>1, LatestRowFacts DEF TypeOK
  <2>3. round'[e].row = db[IdOf[e]][i].median /\ round'[e].at = round[e].at
    BY <1>0, <2>1, <2>2 DEF TypeOK, Round
  <2>4. i \in landed'[IdOf[e]] /\ db'[IdOf[e]][i] = db[IdOf[e]][i]
    BY <1>0, TableGrows DEF Traced
  <2>5. Carries(e)'
    BY <2>1, <2>3, <2>4 DEF Carries, Backed
  <2>. QED  BY <1>0, <1>7, <2>1, <2>3, <2>5, CacheStays DEF Sampled
<1>18. CASE SeedLast(e)
  <2>1. pc[e] = "seed" /\ setLast(IdOf[e], round[e].row) /\ feed' = feed
    BY <1>18 DEF SeedLast
  <2>2. CacheFromRows'
    BY <1>0, <2>1, CacheSet DEF Carries
  <2>3. Calm(e)
    BY <1>5, <1>6, <1>9, <1>18 DEF SeedLast, Judge, Calm, Sampled
  <2>4. Carries(e)'
    BY <1>0, <2>3, CarriesOn
  <2>. QED  BY <1>7, <2>1, <2>2, <2>3, <2>4 DEF Calm
<1>19. CASE PersistCommits(e)
  <2>1. pc[e] = "persist" /\ feed' = feed /\ lastPrice' = lastPrice
    BY <1>19 DEF PersistCommits
  <2>2. CASE Goto(e, "cache")
    <3>1. pc'[e] = "cache" /\ round'[e] = round[e]
      BY <1>6, <2>2
    <3>2. Carries(e)'
      BY <1>19, <3>1, CommitRecorded DEF Carries
    <3>. QED  BY <1>0, <1>7, <2>1, <3>1, <3>2, CacheStays DEF Sampled
  <2>3. CASE EndTick(e)
    BY <1>5, <1>8, <1>9, <2>1, <2>3
  <2>. QED  BY <1>19, <2>2, <2>3 DEF PersistCommits
<1>20. CASE CacheLast(e)
  <2>1. /\ pc[e] = "cache" /\ setLast(IdOf[e], round[e].median) /\ feed' = feed
        /\ pc'[e] = "publish" /\ round'[e] = round[e]
    BY <1>6, <1>20 DEF CacheLast
  <2>2. Backed(IdOf[e], round[e].median)
    BY <1>0, <2>1 DEF Carries, Recorded, Backed
  <2>3. CacheFromRows'
    BY <1>0, <2>1, <2>2, CacheSet
  <2>4. Calm(e)
    BY <2>1 DEF Calm, Sampled
  <2>5. Carries(e)'
    BY <1>0, <2>4, CarriesOn
  <2>. QED  BY <1>7, <2>1, <2>3, <2>4, <2>5 DEF Calm
<1>21. CASE Publish(e)
  BY <1>0, <1>1, <1>3, <1>4, <1>5, <1>9, <1>21, PublishTraces
<1>. QED
  BY <1>10, <1>11, <1>12, <1>13, <1>14, <1>15, <1>16, <1>17, <1>18, <1>19, <1>20, <1>21
     DEF Loop, Tick, getLast

LEMMA TracedNext == TypeOK /\ TypeOK' /\ Traced /\ [Next]_vars => Traced'
<1>. SUFFICES ASSUME TypeOK, TypeOK', Traced, [Next]_vars  PROVE Traced'
  OBVIOUS
<1>1. ASSUME \A e \in Entries : Calm(e), feed' = feed, now <= now',
             lastPrice' = lastPrice \/ lastPrice' = EmptyCache
      PROVE  Traced'
  <2>1. \A e \in Entries : Carries(e)'
    BY <1>1, CarriesOn
  <2>2. \A e \in Entries : Apart(e)'
    BY <1>1, TimesApart DEF Calm
  <2>. QED  BY <1>1, <2>1, <2>2, CacheStays, FeedStays DEF Traced
<1>2. CASE \E e \in Entries : Loop(e)
  BY <1>2, LoopTraces
<1>3. CASE Crash
  <2>1. \A e \in Entries : Calm(e)
    BY <1>3 DEF Crash, EveryLoop, Calm, Sampled
  <2>. QED  BY <1>1, <1>3, <2>1 DEF Crash, TypeOK
<1>4. CASE \/ \E a \in Assets : CommitLands(a)
           \/ StopBegins \/ StopReturns \/ Restart \/ Advance \/ UNCHANGED vars
  <2>1. UNCHANGED <<pc, round, lastPrice, feed>> /\ now' \in {now, now + 1}
    BY <1>4 DEF CommitLands, StopBegins, StopReturns, Restart, Advance, vars, loopVars
  <2>. QED  BY <1>1, <2>1 DEF Calm, TypeOK
<1>. QED  BY <1>2, <1>3, <1>4 DEF Next

LEMMA AlwaysTraced == Spec => []Traced
<1>1. Init => Traced
  BY DEF Init, Traced, Carries, Apart, EveryLoop, Sampled, CacheFromRows, EmptyCache
<1>. QED  BY <1>1, TracedNext, TypeCorrect, PTL DEF Spec

\* However often an asset is listed, the cached price is the median of a row that
\* is in the table: the guard never compares with a rejected or lost round.
THEOREM CacheHoldsRows == Spec => []CacheFromRows
<1>1. Traced => CacheFromRows
  BY DEF Traced
<1>. QED  BY <1>1, AlwaysTraced, PTL

\* However often an asset is listed, the bus hears of acknowledged rows only, and
\* of each once.
THEOREM FeedHoldsRows == Spec => []FeedFromRows
<1>1. Traced => FeedFromRows
  BY DEF Traced, Recorded, FeedFromRows
<1>. QED  BY <1>1, AlwaysTraced, PTL

-----------------------------------------------------------------------------
(* The aggregator implements PriceFeed: a COMMIT is an Accept, one that    *)
(* lands late a Surface, a publication an Announce, every other step a     *)
(* stutter.                                                                *)

\* The rows of PriceFeed.
FeedRow ==
    [median : Int, at : Int, sure : BOOLEAN, blind : BOOLEAN, visible : BOOLEAN]

\* Every row has its note.
LEMMA Paired ==
    ASSUME TypeOK, Coherent, NEW a \in Assets
    PROVE  /\ Len(db[a]) \in Nat
           /\ DOMAIN db[a] = 1..Len(db[a]) /\ DOMAIN audit[a] = 1..Len(db[a])
           /\ \A i \in 1..Len(db[a]) : AuditedRow(a, i) \in FeedRow
<1>1. db[a] \in Seq(Row) /\ audit[a] \in Seq(Audit)
  BY DEF TypeOK
<1>2. Len(db[a]) = Len(audit[a])
  BY DEF Coherent, Unlisted, EntryInv, Dated, Rows, Notes
<1>3. /\ Len(db[a]) \in Nat
      /\ DOMAIN db[a] = 1..Len(db[a]) /\ DOMAIN audit[a] = 1..Len(db[a])
  BY <1>1, <1>2, LenProperties
<1>4. \A i \in 1..Len(db[a]) : db[a][i] \in Row /\ audit[a][i] \in Audit
  BY <1>1, <1>2, ElementOfSeq
<1>. QED  BY <1>3, <1>4 DEF AuditedRow, FeedRow, Row, Audit

\* The history of an asset is a sequence as long as its table.
LEMMA Histories ==
    ASSUME TypeOK, Coherent, NEW a \in Assets
    PROVE  /\ history[a] \in Seq(FeedRow)
           /\ Len(history[a]) = Len(db[a])
           /\ DOMAIN history[a] = 1..Len(db[a])
           /\ \A i \in 1..Len(db[a]) : history[a][i] = AuditedRow(a, i)
           /\ history[a] # << >> <=> db[a] # << >>
<1>1. /\ history[a] = [i \in 1..Len(db[a]) |-> AuditedRow(a, i)]
      /\ Len(db[a]) \in Nat
      /\ \A i \in 1..Len(db[a]) : AuditedRow(a, i) \in FeedRow
  BY Paired DEF history
<1>2. history[a] \in [1..Len(db[a]) -> FeedRow]
  BY <1>1
<1>3. history[a] \in Seq(FeedRow)
  BY <1>1, <1>2, SeqDef
<1>4. /\ DOMAIN history[a] = 1..Len(db[a])
      /\ \A i \in 1..Len(db[a]) : history[a][i] = AuditedRow(a, i)
  BY <1>1
<1>5. Len(history[a]) = Len(db[a])
  BY <1>1, <1>3, <1>4, LenProperties
<1>6. db[a] \in Seq(Row)
  BY DEF TypeOK
<1>. QED  BY <1>3, <1>4, <1>5, <1>6, EmptySeq

HistoryShape ==
    \A a \in Assets :
        /\ history[a] \in Seq(FeedRow)
        /\ Len(db[a]) \in Nat /\ Len(history[a]) = Len(db[a])
        /\ DOMAIN history[a] = 1..Len(db[a])
        /\ \A i \in 1..Len(db[a]) :
              /\ history[a][i] \in FeedRow
              /\ history[a][i].median = db[a][i].median
              /\ history[a][i].at = db[a][i].at
              /\ history[a][i].sure = audit[a][i].acked
              /\ history[a][i].blind = audit[a][i].blind
              /\ history[a][i].visible = (i \in landed[a])

LEMMA Shape == TypeOK /\ Coherent => HistoryShape
<1>. SUFFICES ASSUME TypeOK, Coherent, NEW a \in Assets
              PROVE  /\ history[a] \in Seq(FeedRow)
                     /\ Len(db[a]) \in Nat /\ Len(history[a]) = Len(db[a])
                     /\ DOMAIN history[a] = 1..Len(db[a])
                     /\ \A i \in 1..Len(db[a]) :
                           /\ history[a][i] \in FeedRow
                           /\ history[a][i].median = db[a][i].median
                           /\ history[a][i].at = db[a][i].at
                           /\ history[a][i].sure = audit[a][i].acked
                           /\ history[a][i].blind = audit[a][i].blind
                           /\ history[a][i].visible = (i \in landed[a])
  BY DEF HistoryShape
<1>1. \A i \in 1..Len(db[a]) : /\ history[a][i] = AuditedRow(a, i)
                               /\ AuditedRow(a, i) \in FeedRow
  BY Histories, Paired
<1>2. \A i \in 1..Len(db[a]) :
        /\ history[a][i].median = db[a][i].median /\ history[a][i].at = db[a][i].at
        /\ history[a][i].sure = audit[a][i].acked
        /\ history[a][i].blind = audit[a][i].blind
        /\ history[a][i].visible = (i \in landed[a])
  <2>. SUFFICES ASSUME NEW i \in 1..Len(db[a])
                PROVE  /\ history[a][i].median = db[a][i].median
                       /\ history[a][i].at = db[a][i].at
                       /\ history[a][i].sure = audit[a][i].acked
                       /\ history[a][i].blind = audit[a][i].blind
                       /\ history[a][i].visible = (i \in landed[a])
    OBVIOUS
  <2>1. history[a][i] = AuditedRow(a, i)
    BY <1>1
  <2>. QED  BY <2>1 DEF AuditedRow
<1>. QED  BY <1>1, <1>2, Histories, Paired

LEMMA ShapeNext == TypeOK' /\ Coherent' => HistoryShape'
BY Shape, PTL

LEMMA SameRow ==
    ASSUME NEW r \in FeedRow, NEW q \in FeedRow, r.median = q.median, r.at = q.at,
           r.sure = q.sure, r.blind = q.blind, r.visible = q.visible
    PROVE  r = q
BY DEF FeedRow

LEMMA InitRefines ==
    ASSUME UniqueIds, Init
    PROVE  Promise!Init
<1>1. TypeOK /\ Coherent
  BY TypeInit, CoherentInit
<1>2. \A a \in Assets : history[a] = << >>
  BY <1>1, Histories DEF Init
<1>. QED  BY <1>2 DEF Promise!Init, Init, history

\* A step that leaves the table and the feed alone is a stutter.
LEMMA Stutters ==
    ASSUME UNCHANGED <<db, landed, audit, feed>>
    PROVE  UNCHANGED <<history, feed>>
BY DEF history, AuditedRow

\* A commit appends a row that PriceFeed accepts.
LEMMA CommitAccepts ==
    ASSUME UniqueIds, TypeOK, TypeOK', Coherent, Coherent',
           NEW e \in Entries, PersistCommits(e)
    PROVE  Promise!Accept(IdOf[e])
<1>. DEFINE a == IdOf[e]
            n == Len(db[a])
            row == [median |-> round[e].median, at |-> round[e].at]
            last == history'[a][n + 1]
<1>1. HistoryShape /\ HistoryShape' /\ a \in Assets
  BY Shape, ShapeNext, Typing
<1>2. PICK note \in Audit, lands \in BOOLEAN :
        /\ audit' = [audit EXCEPT ![a] = Append(@, note)]
        /\ landed' = [landed EXCEPT ![a] = IF lands THEN @ \cup {n + 1} ELSE @]
        /\ note.blind = round[e].blind
        /\ note.acked => lands
  <2>1. PICK acked, lands \in BOOLEAN :
          /\ acked => lands
          /\ landed' = [landed EXCEPT ![a] = IF lands THEN @ \cup {n + 1} ELSE @]
          /\ audit' = [audit EXCEPT ![a] = Append(@,
               [acked |-> acked, blind |-> round[e].blind, epoch |-> epoch])]
    BY DEF PersistCommits
  <2>2. [acked |-> acked, blind |-> round[e].blind, epoch |-> epoch] \in Audit
    BY Typing DEF Audit, TypeOK
  <2>. QED  BY <2>1, <2>2
<1>3. row \in Row /\ db' = [db EXCEPT ![a] = Append(@, row)] /\ feed' = feed
  BY Typing DEF PersistCommits, Row
<1>4. /\ db[a] \in Seq(Row) /\ audit[a] \in Seq(Audit) /\ n \in Nat
      /\ Len(audit[a]) = n
  BY <1>1, Paired, LenProperties DEF TypeOK, Coherent, EntryInv, Dated, Rows, Notes
<1>5. /\ db'[a] = Append(db[a], row) /\ audit'[a] = Append(audit[a], note)
      /\ \A b \in Assets \ {a} :
            db'[b] = db[b] /\ audit'[b] = audit[b] /\ landed'[b] = landed[b]
      /\ landed'[a] = IF lands THEN landed[a] \cup {n + 1} ELSE landed[a]
  BY <1>1, <1>2, <1>3 DEF TypeOK
<1>. HIDE DEF row
<1>6. /\ Len(db'[a]) = n + 1
      /\ \A i \in 1..n : db'[a][i] = db[a][i] /\ audit'[a][i] = audit[a][i]
      /\ db'[a][n + 1] = row /\ audit'[a][n + 1] = note
  BY <1>3, <1>4, <1>5, Appended
<1>. HIDE DEF n
<1>7. /\ n = Len(db[a])
      /\ last \in FeedRow /\ last.median = round[e].median /\ last.at = round[e].at
      /\ last.blind = round[e].blind
      /\ last.sure => last.visible
  <2>1. n = Len(db[a]) /\ n + 1 \in 1..Len(db'[a])
    BY <1>4, <1>6 DEF n
  <2>2. /\ last \in FeedRow /\ last.median = db'[a][n + 1].median
        /\ last.at = db'[a][n + 1].at /\ last.blind = audit'[a][n + 1].blind
        /\ last.sure = audit'[a][n + 1].acked /\ last.visible = (n + 1 \in landed'[a])
    BY <1>1, <2>1 DEF HistoryShape
  <2>3. row.median = round[e].median /\ row.at = round[e].at
    BY DEF row
  <2>4. last.sure => last.visible
    <3>1. note.acked => n + 1 \in landed'[a]
      BY <1>2, <1>5
    <3>. QED  BY <1>6, <2>2, <3>1
  <2>. QED  BY <1>2, <1>6, <2>1, <2>2, <2>3, <2>4
<1>8. \A i \in 1..n : history'[a][i] = history[a][i]
  <2>. SUFFICES ASSUME NEW i \in 1..n  PROVE history'[a][i] = history[a][i]
    OBVIOUS
  <2>1. i \in 1..Len(db[a]) /\ i \in 1..Len(db'[a])
    BY <1>4, <1>6, <1>7
  <2>2. /\ history[a][i] \in FeedRow
        /\ history[a][i].median = db[a][i].median /\ history[a][i].at = db[a][i].at
        /\ history[a][i].sure = audit[a][i].acked
        /\ history[a][i].blind = audit[a][i].blind
        /\ history[a][i].visible = (i \in landed[a])
    BY <1>1, <2>1 DEF HistoryShape
  <2>3. /\ history'[a][i] \in FeedRow
        /\ history'[a][i].median = db'[a][i].median /\ history'[a][i].at = db'[a][i].at
        /\ history'[a][i].sure = audit'[a][i].acked
        /\ history'[a][i].blind = audit'[a][i].blind
        /\ history'[a][i].visible = (i \in landed'[a])
    BY <1>1, <2>1 DEF HistoryShape
  <2>4. db'[a][i] = db[a][i] /\ audit'[a][i] = audit[a][i]
    BY <1>6
  <2>5. i \in landed'[a] <=> i \in landed[a]
    BY <1>4, <1>5
  <2>6. history'[a][i].visible = history[a][i].visible
    BY <2>2, <2>3, <2>5
  <2>. QED  BY <2>2, <2>3, <2>4, <2>6, SameRow
<1>9. history'[a] = Append(history[a], last) /\ history'[a][n + 1] = last
  <2>1. /\ history[a] \in Seq(FeedRow) /\ Len(history[a]) = n
        /\ history'[a] \in Seq(FeedRow) /\ Len(history'[a]) = n + 1
        /\ history'[a][n + 1] = last
    BY <1>1, <1>4, <1>6, <1>7 DEF HistoryShape
  <2>. HIDE DEF last
  <2>2. /\ Append(history[a], last) \in Seq(FeedRow)
        /\ Len(Append(history[a], last)) = n + 1
        /\ \A i \in 1..n : Append(history[a], last)[i] = history[a][i]
        /\ Append(history[a], last)[n + 1] = last
    <3>1. last \in FeedRow
      BY <1>7 DEF last
    <3>2. history[a] \in Seq(FeedRow) /\ Len(history[a]) = n
      BY <2>1
    <3>. QED  BY <3>1, <3>2, Appended
  <2>. QED  BY <1>4, <1>8, <2>1, <2>2, SeqEqual
<1>10. \A b \in Assets \ {a} : history'[b] = history[b]
  BY <1>5 DEF history, AuditedRow
<1>11. history' = [history EXCEPT ![a] = Append(@, last)]
  <2>. HIDE DEF last
  <2>. QED  BY <1>9, <1>10 DEF history
<1>12. \A i \in 1..n : /\ history[a][i].at = db[a][i].at
                       /\ history[a][i].median = db[a][i].median
                       /\ history[a][i].sure = audit[a][i].acked
                       /\ history[a][i].visible = (i \in landed[a])
  BY <1>1, <1>7 DEF HistoryShape
<1>13. pc[e] = "persist"
  BY DEF PersistCommits
<1>14. \A i \in 1..n : history[a][i].at < last.at
  <2>1. DOMAIN Rows(e) = 1..n
    BY <1>1, <1>7, Paired DEF Rows
  <2>. QED  BY <1>7, <1>12, <1>13, <2>1 DEF Coherent, EntryInv, InTime, Rows
<1>15. \/ \A i \in DOMAIN history[a] : ~ history[a][i].sure
       \/ last.blind
       \/ \E i \in Promise!Recent(a) : Accepts(last.median, history[a][i].median)
  <2>1. /\ DOMAIN Rows(e) = 1..n /\ DOMAIN Notes(e) = 1..n
        /\ DOMAIN history[a] = 1..n /\ Len(history[a]) = n
    BY <1>1, <1>7, Paired DEF HistoryShape, Rows, Notes
  <2>2. CASE round[e].blind
    BY <1>7, <2>2
  <2>3. CASE \A i \in DOMAIN Notes(e) : ~ Notes(e)[i].acked
    BY <1>12, <2>1, <2>3 DEF Notes
  <2>4. ASSUME NEW i \in DOMAIN Rows(e), Recent(e, i),
               Accepts(round[e].median, Rows(e)[i].median)
        PROVE  \E k \in Promise!Recent(a) : Accepts(last.median, history[a][k].median)
    <3>1. /\ i \in 1..n /\ i \in landed[a]
          /\ \A j \in (i + 1)..n : ~ audit[a][j].acked
      BY <2>1, <2>4, <1>7 DEF Recent, Rows, Notes, Table
    <3>2. \A j \in (i + 1)..n : ~ history[a][j].sure
      BY <1>4, <1>12, <3>1
    <3>3. i \in Promise!Recent(a)
      BY <1>12, <2>1, <3>1, <3>2 DEF Promise!Recent
    <3>. QED  BY <1>7, <1>12, <2>4, <3>1, <3>3 DEF Rows
  <2>. QED  BY <1>13, <2>2, <2>3, <2>4 DEF Coherent, EntryInv, Guarded
<1>. QED
  <2>1. /\ Len(history'[a]) = n + 1 /\ Len(history[a]) = n
        /\ DOMAIN history[a] = 1..n
    BY <1>1, <1>4, <1>6, <1>7 DEF HistoryShape
  <2>. HIDE DEF last
  <2>. QED  BY <1>3, <1>7, <1>9, <1>11, <1>14, <1>15, <2>1 DEF Promise!Accept

\* A publication announces the last row, which is sure and not yet announced.
LEMMA PublishAnnounces ==
    ASSUME TypeOK, Coherent, NEW e \in Entries, Publish(e)
    PROVE  Promise!Announce(IdOf[e])
<1>. DEFINE a == IdOf[e]
            n == Len(db[a])
<1>1. HistoryShape /\ a \in Assets
  BY Shape, Typing
<1>2. /\ pc[e] = "publish" /\ UNCHANGED <<db, landed, audit>>
      /\ feed' = Append(feed, [asset |-> a, median |-> round[e].median, at |-> round[e].at])
  BY DEF Publish, Aggregated
<1>3. /\ Rows(e) # << >> /\ LastNote(e).acked
      /\ LastRow(e) = [median |-> round[e].median, at |-> round[e].at]
      /\ \A k \in DOMAIN feed : feed[k].asset = a => feed[k].at < round[e].at
  BY <1>2 DEF Coherent, EntryInv, Settled, Announced
<1>4. history[a] # << >> /\ n \in 1..n /\ Len(history[a]) = n
  <2>1. history[a] # << >> /\ n \in Nat /\ n > 0
    BY <1>1, <1>3, Histories, Tables DEF Rows
  <2>. QED  BY <1>1, <2>1 DEF HistoryShape
<1>5. /\ history[a][n].median = round[e].median /\ history[a][n].at = round[e].at
      /\ history[a][n].sure
  <2>1. /\ db[a][n] = [median |-> round[e].median, at |-> round[e].at]
        /\ audit[a][n].acked
    BY <1>3 DEF LastRow, LastNote, Rows, Notes
  <2>2. /\ history[a][n].median = db[a][n].median /\ history[a][n].at = db[a][n].at
        /\ history[a][n].sure = audit[a][n].acked
    BY <1>1, <1>4 DEF HistoryShape
  <2>. QED  BY <2>1, <2>2
<1>6. UNCHANGED history
  BY <1>2 DEF history, AuditedRow
<1>. QED  BY <1>2, <1>3, <1>4, <1>5, <1>6 DEF Promise!Announce

\* A commit that lands late makes one row visible.
LEMMA LandingSurfaces ==
    ASSUME TypeOK, TypeOK', Coherent, Coherent', NEW a \in Assets, CommitLands(a)
    PROVE  Promise!Surface(a)
<1>1. PICK i \in DOMAIN db[a] \ landed[a] : landed' = [landed EXCEPT ![a] = @ \cup {i}]
  BY DEF CommitLands
<1>2. UNCHANGED <<db, audit, feed>>
  BY DEF CommitLands
<1>3. HistoryShape /\ HistoryShape'
  BY Shape, ShapeNext
<1>4. /\ landed'[a] = landed[a] \cup {i}
      /\ \A b \in Assets \ {a} : landed'[b] = landed[b]
  BY <1>1 DEF TypeOK
<1>. DEFINE n == Len(db[a])
            seen == [j \in 1..n |-> [history[a][j] EXCEPT !.visible = (j = i \/ @)]]
<1>5. /\ DOMAIN history[a] = 1..n /\ Len(history[a]) = n /\ Len(history'[a]) = n
      /\ history'[a] \in Seq(FeedRow) /\ DOMAIN history'[a] = 1..n /\ n \in Nat
  BY <1>2, <1>3 DEF HistoryShape
<1>6. i \in 1..n /\ ~ history[a][i].visible
  BY <1>1, <1>3, Paired DEF HistoryShape
<1>7. \A j \in 1..n : history'[a][j] = seen[j]
  <2>. SUFFICES ASSUME NEW j \in 1..n  PROVE history'[a][j] = seen[j]
    OBVIOUS
  <2>1. /\ history[a][j] \in FeedRow /\ history'[a][j] \in FeedRow
        /\ history'[a][j].median = history[a][j].median
        /\ history'[a][j].at = history[a][j].at
        /\ history'[a][j].sure = history[a][j].sure
        /\ history'[a][j].blind = history[a][j].blind
        /\ history[a][j].visible = (j \in landed[a])
        /\ history'[a][j].visible = (j \in landed'[a])
    BY <1>2, <1>3 DEF HistoryShape
  <2>2. history'[a][j].visible = (j = i \/ history[a][j].visible)
    <3>1. j \in landed'[a] <=> j = i \/ j \in landed[a]
      BY <1>4
    <3>2. /\ history[a][j].visible <=> j \in landed[a]
          /\ history'[a][j].visible <=> j \in landed'[a]
          /\ history'[a][j].visible \in BOOLEAN
      BY <2>1 DEF FeedRow
    <3>. QED  BY <3>1, <3>2
  <2>3. /\ seen[j] \in FeedRow /\ seen[j].median = history[a][j].median
        /\ seen[j].at = history[a][j].at /\ seen[j].sure = history[a][j].sure
        /\ seen[j].blind = history[a][j].blind
        /\ seen[j].visible = (j = i \/ history[a][j].visible)
    BY <2>1 DEF FeedRow
  <2>. HIDE DEF seen
  <2>. QED  BY <2>1, <2>2, <2>3, SameRow
<1>8. history'[a] = seen
  <2>1. history'[a] = [j \in 1..n |-> history'[a][j]]
    BY <1>5
  <2>. QED  BY <1>7, <2>1
<1>. HIDE DEF seen
<1>9. \A b \in Assets \ {a} : history'[b] = history[b]
  BY <1>2, <1>4 DEF history, AuditedRow
<1>10. history' = [history EXCEPT ![a] = seen]
  BY <1>8, <1>9 DEF history
<1>. QED  BY <1>2, <1>5, <1>6, <1>10 DEF Promise!Surface, seen

LEMMA NextRefines ==
    ASSUME UniqueIds, TypeOK, TypeOK', Coherent, Coherent', [Next]_vars
    PROVE  [Promise!Next]_<<history, feed>>
<1>1. CASE \E e \in Entries : PersistCommits(e)
  BY <1>1, CommitAccepts, Typing DEF Promise!Next
<1>2. CASE \E e \in Entries : Publish(e)
  BY <1>2, PublishAnnounces, Typing DEF Promise!Next
<1>3. CASE \E a \in Assets : CommitLands(a)
  BY <1>3, LandingSurfaces DEF Promise!Next
<1>4. CASE /\ ~ \E e \in Entries : PersistCommits(e) \/ Publish(e)
           /\ ~ \E a \in Assets : CommitLands(a)
  <2>1. UNCHANGED <<db, landed, audit, feed>>
    BY <1>4 DEF Next, Loop, Tick, getLast, BeginTick, FetchReturns, Expire, TickerFires,
         LoopExits, TooFewSources, Aggregate, CacheHit, CacheMiss, LoadNone, LoadFails,
         LoadRow, SeedLast, PersistFails, CacheLast, StopBegins, StopReturns, Crash,
         Restart, Advance, vars
  <2>. QED  BY <2>1, Stutters
<1>. QED  BY <1>1, <1>2, <1>3, <1>4

\* When every asset is listed once, the table and the bus behave as PriceFeed
\* promises: RunOnce, getLast, the mutex and Stop implement it through lost
\* answers, crashes and restarts.
THEOREM PromiseKept == ASSUME UniqueIds PROVE Spec => ImplementsPriceFeed
<1>1. Init => Promise!Init
  BY InitRefines
<1>2. TypeOK /\ TypeOK' /\ Coherent /\ Coherent' /\ [Next]_vars
        => [Promise!Next]_<<history, feed>>
  BY NextRefines
<1>. QED  BY <1>1, <1>2, Coherence, TypeCorrect, PTL DEF Spec, ImplementsPriceFeed, Promise!Spec

=============================================================================
