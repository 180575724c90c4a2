------------------------ MODULE AggregatorInvariant ------------------------
(***************************************************************************)
(* The inductive invariant behind the safety of Aggregator when every      *)
(* asset is listed once: what a loop knows of its asset's rows at each     *)
(* step of a tick.                                                         *)
(***************************************************************************)
EXTENDS Aggregator

Rows(e)  == db[IdOf[e]]
Table(e) == landed[IdOf[e]]
Notes(e) == audit[IdOf[e]]
Cached(e) == IdOf[e] \in DOMAIN lastPrice

\* The last row of the table of e, and what is known of it.
LastRow(e)  == Rows(e)[Len(Rows(e))]
LastNote(e) == Notes(e)[Len(Rows(e))]

\* Rows are dated in the order their COMMITs were sent, none in the future or
\* by a process to come; the acknowledged ones are in the table.
Dated(e) ==
    /\ Len(Notes(e)) = Len(Rows(e))
    /\ \A i, j \in DOMAIN Rows(e) : i < j => Rows(e)[i].at < Rows(e)[j].at
    /\ \A i \in DOMAIN Rows(e) : Rows(e)[i].at <= now
    /\ \A i \in DOMAIN Notes(e) : Notes(e)[i].epoch <= epoch
    /\ \A i \in DOMAIN Notes(e) : Notes(e)[i].acked => i \in Table(e)

\* A loop inside a tick belongs to a live process, and its round, once
\* stamped, is not of the future and is newer than every row until it is
\* one itself.
InTime(e) ==
    /\ pc[e] \in InFlight => phase # "down"
    /\ pc[e] \in Sampled => round[e].at <= now
    /\ pc[e] \in {"guard", "load", "seed", "persist"} =>
          \A i \in DOMAIN Rows(e) : Rows(e)[i].at < round[e].at

\* The last acknowledged row of e, or a later one that is in the table.
Recent(e, i) ==
    i \in Table(e) /\ \A j \in (i + 1)..Len(Rows(e)) : ~ Notes(e)[j].acked

\* The guard, unless it was blind, has judged the round by a recent row, if
\* any row was acknowledged.
Guarded(e) ==
    /\ pc[e] = "seed" =>
          \E i \in DOMAIN Rows(e) : Recent(e, i) /\ round[e].row = Rows(e)[i].median
    /\ pc[e] = "persist" /\ ~ round[e].blind =>
          \/ \E i \in DOMAIN Rows(e) :
                Recent(e, i) /\ Accepts(round[e].median, Rows(e)[i].median)
          \/ \A i \in DOMAIN Notes(e) : ~ Notes(e)[i].acked

\* A loop past PersistRound has the last row of the table in its hands.
Settled(e) ==
    pc[e] \in {"cache", "publish"} =>
        /\ Rows(e) # << >>
        /\ LastNote(e).acked
        /\ LastRow(e) = [median |-> round[e].median, at |-> round[e].at]

\* The cache holds the last acknowledged row, or a later one.
Tracks(e) ==
    Cached(e) /\ pc[e] # "cache" =>
        \E i \in DOMAIN Rows(e) : Recent(e, i) /\ Rows(e)[i].median = lastPrice[IdOf[e]]

\* A loop that is blind, or about to read, has an empty cache; and while the
\* cache is empty, this process has had no row acknowledged.
Sighted(e) ==
    /\ pc[e] \in {"guard", "load", "seed"} => ~ round[e].blind
    /\ pc[e] = "load" \/ (pc[e] = "persist" /\ round[e].blind) => ~ Cached(e)
    /\ ~ Cached(e) /\ pc[e] # "cache" /\ phase # "down" =>
          \A i \in DOMAIN Notes(e) : Notes(e)[i].acked => Notes(e)[i].epoch < epoch

\* The band and the single blind row, for the table of e.
Band(e) ==
    \A j \in DOMAIN Rows(e) : \A i \in 1..(j - 1) :
        Notes(e)[i].acked /\ ~ Notes(e)[j].blind /\ Table(e) \cap (i + 1)..(j - 1) = {}
            => Accepts(Rows(e)[j].median, Rows(e)[i].median)

OneBlind(e) ==
    \A j \in DOMAIN Notes(e) : \A i \in 1..(j - 1) :
        Notes(e)[j].acked /\ Notes(e)[j].blind /\ Notes(e)[i].acked
            => Notes(e)[i].epoch < Notes(e)[j].epoch

\* The feed announces rows of the table, in order, and lacks at most the one
\* the loop is about to publish.
Announced(e) ==
    /\ \A k \in DOMAIN feed : feed[k].asset = IdOf[e] =>
          /\ \E i \in DOMAIN Rows(e) : Rows(e)[i].at = feed[k].at
          /\ pc[e] \in {"cache", "publish"} => feed[k].at < round[e].at
    /\ \A k, l \in DOMAIN feed :
          k < l /\ feed[k].asset = IdOf[e] /\ feed[l].asset = IdOf[e]
             => feed[k].at < feed[l].at
    /\ phase # "down" =>
          \A i \in DOMAIN Rows(e) : Notes(e)[i].acked /\ Notes(e)[i].epoch = epoch =>
             \/ \E k \in DOMAIN feed :
                   feed[k].asset = IdOf[e] /\ feed[k].at = Rows(e)[i].at
             \/ pc[e] \in {"cache", "publish"} /\ round[e].at = Rows(e)[i].at

EntryInv(e) ==
    /\ Dated(e) /\ InTime(e) /\ Guarded(e) /\ Settled(e) /\ Tracks(e)
    /\ Sighted(e) /\ Band(e) /\ OneBlind(e) /\ Announced(e)

\* Assets no entry names have no rows, and are not announced.
Unlisted ==
    /\ \A a \in Assets : (\A e \in Entries : IdOf[e] # a) =>
          db[a] = << >> /\ audit[a] = << >> /\ landed[a] = {}
    /\ \A k \in DOMAIN feed : \E e \in Entries : feed[k].asset = IdOf[e]

\* At every step of RunOnce (persist, setLast, publish) and of getLast, loop,
\* cache, table and feed agree about the last accepted price; TypeOK, BandHeld,
\* BlindOnce, CacheTracksRows and FeedMirrorsRows follow.
Coherent == Unlisted /\ \A e \in Entries : EntryInv(e)

-----------------------------------------------------------------------------

\* What RunOnce computed is still what the results it holds amount to.
Stamped(e) ==
    pc[e] \in Sampled =>
        LET S == Included(results[e], ClassOf[e], round[e].at)
        IN  /\ Cardinality(S) >= MinSources
            /\ round[e].median = computeMedian(results[e], S)
            /\ round[e].start = WindowStart(results[e], S)
            /\ round[e].end = WindowEnd(results[e], S)

\* Until it is published, a round is exactly what RunOnce computed from the
\* results it still holds, by the policy as of its AggregatedAt: no step
\* between the median and the bus changes either.
AllStamped == \A e \in Entries : Stamped(e)

=============================================================================
