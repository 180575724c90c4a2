----------------------------- MODULE Repository -----------------------------
(***************************************************************************)
(* The repository statement by statement: PersistRound with its            *)
(* transaction and its deferred Rollback, the two reads, the pool they     *)
(* share, and what the breakdown's JSON makes of a round.  Any statement   *)
(* may fail: the database, the connection, or the caller's context.        *)
(***************************************************************************)
EXTENDS Wire, SequencesExt

CONSTANTS
    Callers,     \* goroutines that call the repository
    Assets, Prices,
    Retired,     \* the name of a source that the code no longer knows
    Breakdowns,  \* what a round may rest on: for each of its sources, an answer or None
    Instants,    \* bound: the times of rounds, no two of them in one microsecond
    MaxRounds,   \* bound: calls of PersistRound
    MaxConns,    \* size of the pool
    None, NoRound

\* How long before the end of the round a price was fetched, and observed.
Answer == [kind : AllSources, price : Prices \cup {NaN}, fetched : Nat \ {0},
           observed : Int \cup {NoTime}, included : BOOLEAN]
Failure == [kind : AllSources, price : {None}]

ASSUME RepositoryAssumption ==
    /\ MaxRounds \in Nat /\ MaxConns \in Nat \ {0}
    /\ NaN \notin Prices /\ None \notin Prices \cup {NaN}
    /\ Retired \notin ToSet(sourceKindStrings)
    /\ \A breakdown \in Breakdowns :
          /\ ToSet(breakdown) \subseteq Answer \cup Failure
          /\ ToSet(breakdown) \cap Answer # {}
    /\ Instants \subseteq Nat
    /\ \A t \in Instants : Stamp(t) > 0
    /\ \A t, u \in Instants : Stamp(t) = Stamp(u) => t = u
    \* A price is observed after the epoch, by a second at least.
    /\ \A breakdown \in Breakdowns : \A answer \in ToSet(breakdown) \cap Answer : \A t \in Instants :
          /\ t - answer.fetched >= Second
          /\ answer.observed # NoTime => t - answer.observed >= Second

-----------------------------------------------------------------------------

VARIABLES
    aggregated,   \* prices_aggregated, as far as it is committed
    raw,          \* prices_raw, likewise: a row is <<number of its round, source>>
    given,        \* given[n]: the round of the n-th call of PersistRound
    pc,           \* pc[c]: what c is doing
    round,        \* round[c]: the number of the round c is persisting
    staged,       \* staged[c]: what its transaction has inserted
    holders,      \* who holds a connection
    orphans,      \* transactions whose COMMIT was sent on a connection since lost
    acked         \* history: the rounds whose PersistRound returned nil

vars == <<aggregated, raw, given, pc, round, staged, holders, orphans, acked>>

\* n stands for the median and the window.
Row == [n : Nat, asset : Assets, at : Nat,
        breakdown : Seq([source : STRING, price : Prices \cup {0}, fetched : Int,
                         observed : Nat, age : Nat, included : BOOLEAN])]

Nothing == [raw |-> {}, aggregated |-> {}]

TypeOK ==
    /\ aggregated \subseteq Row
    /\ raw \subseteq Nat \X STRING
    /\ Len(given) <= MaxRounds
    /\ \A n \in DOMAIN given : given[n].asset \in Assets /\ given[n].at \in Instants
    /\ pc \in [Callers -> {"idle", "begin", "raws", "agg", "commit", "sent", "landed", "rollback",
                           "query", "rows"}]
    /\ round \in [Callers -> DOMAIN given \cup {NoRound}]
    /\ \A c \in Callers : staged[c].raw \subseteq Nat \X STRING /\ staged[c].aggregated \subseteq Row
    /\ holders \subseteq Callers
    /\ \A t \in orphans : t.raw \subseteq Nat \X STRING /\ t.aggregated \subseteq Row
    /\ acked \subseteq DOMAIN given

\* The table may hold a row of an older version of the service.
OldRow(asset) ==
    [n |-> 0, asset |-> asset, at |-> 0,
     breakdown |-> <<[source |-> Retired, price |-> 0, fetched |-> 1, observed |-> 0,
                      age |-> 0, included |-> TRUE]>>]

Init ==
    /\ \E assets \in SUBSET Assets : aggregated = {OldRow(a) : a \in assets}
    /\ raw = {}
    /\ given = << >>
    /\ pc = [c \in Callers |-> "idle"]
    /\ round = [c \in Callers |-> NoRound]
    /\ staged = [c \in Callers |-> Nothing]
    /\ holders = {} /\ orphans = {} /\ acked = {}

tables == <<aggregated, raw>>

Goto(c, label) == pc' = [pc EXCEPT ![c] = label]

Acquire(c) ==
    /\ Cardinality(holders) < MaxConns
    /\ holders' = holders \cup {c}

-----------------------------------------------------------------------------
(* PersistRound.                                                           *)

\* The contributions of a round that ends at time t (fetchAll).
Contributions(breakdown, t) ==
    [i \in DOMAIN breakdown |->
        LET b == breakdown[i]
        IN  IF b.price = None THEN Absent(b.kind)
            ELSE Answered(b.kind, b.price, t - b.fetched,
                    IF b.observed = NoTime THEN NoTime ELSE t - b.observed, t - 1, b.included)]

\* The sources of a round that answered, and its raw rows.
Names(sources) ==
    {String(sources[i].source) : i \in {j \in DOMAIN sources : sources[j].fetched # NoTime}}

Raws(n) == {n} \X Names(given[n].sources)

\* A round at hand, whose asset id is valid; only its sources may be beyond
\* encoding.  Loops that share an asset may come in another order than their
\* rounds ended.
PersistRound(c, asset, breakdown, t) ==
    /\ pc[c] = "idle" /\ Len(given) < MaxRounds
    /\ \A n \in DOMAIN given : given[n].at # t
    /\ given' = Append(given, [asset |-> asset, price |-> Len(given) + 1, at |-> t,
                               sources |-> Contributions(breakdown, t)])
    /\ IF Encodes(Contributions(breakdown, t))
       THEN Goto(c, "begin") /\ round' = [round EXCEPT ![c] = Len(given) + 1]
       ELSE UNCHANGED <<pc, round>>
    /\ UNCHANGED <<tables, staged, holders, orphans, acked>>

BeginTx(c) ==
    /\ pc[c] = "begin"
    /\ Acquire(c)
    /\ Goto(c, "raws")
    /\ UNCHANGED <<tables, given, round, staged, orphans, acked>>

\* No connection before the context ends, or none that works.
BeginFails(c) ==
    /\ pc[c] = "begin"
    /\ Goto(c, "idle") /\ round' = [round EXCEPT ![c] = NoRound]
    /\ UNCHANGED <<tables, given, staged, holders, orphans, acked>>

\* Mutant: the raw rows bypass the transaction.
InsertsOutside(c) ==
    /\ pc[c] = "raws"
    /\ \E row \in Raws(round[c]) \ raw :
          /\ raw' = raw \cup {row}
          /\ IF Raws(round[c]) \subseteq raw' THEN Goto(c, "agg") ELSE UNCHANGED pc
    /\ UNCHANGED <<aggregated, given, round, staged, holders, orphans, acked>>

\* One row of the batch.
InsertRaw(c) ==
    /\ pc[c] = "raws"
    /\ \E row \in Raws(round[c]) \ staged[c].raw :
          /\ staged' = [staged EXCEPT ![c].raw = @ \cup {row}]
          /\ IF Raws(round[c]) \subseteq staged'[c].raw THEN Goto(c, "agg") ELSE UNCHANGED pc
    /\ UNCHANGED <<tables, given, round, holders, orphans, acked>>

RowOf(n) ==
    [n |-> n, asset |-> given[n].asset, at |-> Stamp(given[n].at),
     breakdown |-> encodeBreakdown(given[n].sources)]

InsertAggregated(c) ==
    /\ pc[c] = "agg"
    /\ staged' = [staged EXCEPT ![c].aggregated = {RowOf(round[c])}]
    /\ Goto(c, "commit")
    /\ UNCHANGED <<tables, given, round, holders, orphans, acked>>

\* Mutant: an early return without the deferred Rollback.
KeepsTx(c) ==
    /\ pc[c] \in {"raws", "agg"}
    /\ Goto(c, "idle")
    /\ round' = [round EXCEPT ![c] = NoRound] /\ staged' = [staged EXCEPT ![c] = Nothing]
    /\ UNCHANGED <<tables, given, holders, orphans, acked>>

\* An insert fails, and with it the transaction.
InsertFails(c) ==
    /\ pc[c] \in {"raws", "agg"}
    /\ Goto(c, "rollback")
    /\ UNCHANGED <<tables, given, round, staged, holders, orphans, acked>>

SendCommit(c) ==
    /\ pc[c] = "commit"
    /\ Goto(c, "sent")
    /\ UNCHANGED <<tables, given, round, staged, holders, orphans, acked>>

Apply(t) ==
    /\ aggregated' = aggregated \cup t.aggregated
    /\ raw' = raw \cup t.raw

Return(c) ==
    /\ Goto(c, "idle")
    /\ round' = [round EXCEPT ![c] = NoRound]
    /\ staged' = [staged EXCEPT ![c] = Nothing]
    /\ holders' = holders \ {c}

\* The database commits.
CommitLands(c) ==
    /\ pc[c] = "sent"
    /\ Apply(staged[c])
    /\ Goto(c, "landed")
    /\ UNCHANGED <<given, round, staged, holders, orphans, acked>>

\* Its answer arrives.
Committed(c) ==
    /\ pc[c] = "landed"
    /\ acked' = acked \cup {round[c]}
    /\ Return(c)
    /\ UNCHANGED <<tables, given, orphans>>

\* Mutant: the error of Commit is swallowed.
CommitIgnored(c) ==
    /\ pc[c] \in {"commit", "sent", "landed"}
    /\ orphans' = IF pc[c] = "sent" THEN orphans \cup {staged[c]} ELSE orphans
    /\ acked' = acked \cup {round[c]}
    /\ Return(c)
    /\ UNCHANGED <<tables, given>>

\* COMMIT is not sent, or its answer does not come: the database may have
\* received it.
CommitFails(c) ==
    /\ pc[c] \in {"commit", "sent", "landed"}
    /\ orphans' = IF pc[c] = "sent" THEN orphans \cup {staged[c]} ELSE orphans
    /\ Goto(c, "rollback")
    /\ UNCHANGED <<tables, given, round, staged, holders, acked>>

\* Rollback gives the connection back, to be closed if the ROLLBACK failed.
Rollback(c) ==
    /\ pc[c] = "rollback"
    /\ Return(c)
    /\ UNCHANGED <<tables, given, orphans, acked>>

\* The database comes to a COMMIT nobody waits for, or to the lost connection.
OrphanEnds(t) ==
    /\ orphans' = orphans \ {t}
    /\ Apply(t) \/ UNCHANGED tables
    /\ UNCHANGED <<given, pc, round, staged, holders, acked>>

-----------------------------------------------------------------------------
(* The reads.                                                              *)

\* Scan and decodeBreakdown.
Decoded(row) ==
    [asset |-> row.asset, price |-> row.n, at |-> row.at,
     sources |-> decodeBreakdown(row.breakdown)]

\* ORDER BY aggregated_at DESC.
Descending(rows) ==
    CHOOSE s \in [1..Cardinality(rows) -> rows] :
        /\ \A i, j \in DOMAIN s : i < j => s[i].at >= s[j].at
        /\ Range(s) = rows

Between(asset, from, to) == {r \in aggregated : r.asset = asset /\ from <= r.at /\ r.at <= to}

\* LIMIT, which 0 leaves out.
Limited(limit, n) == IF limit > 0 /\ limit < n THEN limit ELSE n

\* Mutant: LIMIT before ORDER BY.
AnyRows(asset, from, to, limit) ==
    LET rows == Between(asset, from, to)
        some == CHOOSE s \in SUBSET rows : Cardinality(s) = Limited(limit, Cardinality(rows))
    IN  [i \in 1..Cardinality(some) |-> Decoded(Descending(some)[i])]

GetHistory(asset, from, to, limit) ==
    LET rows == Between(asset, from, to)
        sorted == Descending(rows)
    IN  [i \in 1..Limited(limit, Cardinality(rows)) |-> Decoded(sorted[i])]

RowsOf(asset) == {r \in aggregated : r.asset = asset}

\* Mutant: the order is the wrong way round.
OldestOf(asset) == CHOOSE r \in RowsOf(asset) : \A s \in RowsOf(asset) : r.at <= s.at

\* ORDER BY aggregated_at DESC LIMIT 1.
LatestOf(asset) == CHOOSE r \in RowsOf(asset) : \A s \in RowsOf(asset) : r.at >= s.at

GetLatest(asset) ==
    IF RowsOf(asset) = {} THEN NoRound ELSE Decoded(LatestOf(asset))

\* GetLatest, GetHistory and Ping of the pool: one statement on a connection.
QueryCalled(c) ==
    /\ pc[c] = "idle"
    /\ Goto(c, "query")
    /\ UNCHANGED <<tables, given, round, staged, holders, orphans, acked>>

Query(c) ==
    /\ pc[c] = "query"
    /\ Acquire(c)
    /\ Goto(c, "rows")
    /\ UNCHANGED <<tables, given, round, staged, orphans, acked>>

QueryFails(c) ==
    /\ pc[c] = "query"
    /\ Goto(c, "idle")
    /\ UNCHANGED <<tables, given, round, staged, holders, orphans, acked>>

\* Scan, or rows.Close, gives the connection back.
QueryReturns(c) ==
    /\ pc[c] = "rows"
    /\ Goto(c, "idle")
    /\ holders' = holders \ {c}
    /\ UNCHANGED <<tables, given, round, staged, orphans, acked>>

-----------------------------------------------------------------------------

Persist(c) ==
    \/ BeginTx(c) \/ InsertRaw(c) \/ InsertAggregated(c) \/ InsertFails(c)
    \/ SendCommit(c) \/ CommitLands(c) \/ Committed(c) \/ CommitFails(c) \/ Rollback(c)

Next ==
    \/ \E c \in Callers :
          \/ \E asset \in Assets, breakdown \in Breakdowns, t \in Instants :
                PersistRound(c, asset, breakdown, t)
          \/ BeginFails(c) \/ Persist(c)
          \/ QueryCalled(c) \/ Query(c) \/ QueryFails(c) \/ QueryReturns(c)
    \/ \E t \in orphans : OrphanEnds(t)

Spec == Init /\ [][Next]_vars

\* Statements end, at the latest with their context, and the pool serves those
\* who wait for a connection in turn; that a wait is given up is not assumed.
Fairness == \A c \in Callers : SF_vars(Persist(c)) /\ SF_vars(Query(c)) /\ WF_vars(QueryReturns(c))

FairSpec == Spec /\ Fairness

-----------------------------------------------------------------------------
(* Properties.                                                             *)

Stored(n) == \E r \in aggregated : r.n = n

\* Readers see the raw rows of a round and its aggregated row together or not
\* at all, whatever failed (postgres.go: PersistRound; interface.go:21).
AllOrNothing ==
    \A n \in DOMAIN given :
        {row \in raw : row[1] = n} = IF Stored(n) THEN Raws(n) ELSE {}

\* What is read.
InSeconds(p) == IF p = Nil THEN Nil ELSE [p EXCEPT !.rest = 0]
InMicros(p) == [p EXCEPT !.rest = Stamp(@)]
InWholeSeconds(source) == [source EXCEPT !.fetched = InSeconds(@), !.observed = InSeconds(@)]
Cut(message) ==
    [message EXCEPT !.aggregatedAt = InMicros(@),
                    !.sources = [i \in DOMAIN @ |-> InWholeSeconds(@[i])]]

\* GetPrice sends of a round what Subscribe sent, with its time cut to
\* microseconds and those of its sources to seconds: an absent source stays
\* absent, none turns up and no time is lost; and a client that parses the
\* message has what GetLatest returned (postgres.go: encodeBreakdown,
\* decodeBreakdown; proto.go: ToProto, AggregatedPriceFromProto).
ReadsWhatWasStreamed ==
    \A asset \in Assets :
        LET got == GetLatest(asset)
        IN  got # NoRound =>
                /\ FromProto(ToProto(got)) = got
                /\ got.price > 0 => ToProto(got) = Cut(ToProto(given[got.price]))

\* A longer history continues a shorter one, and the latest row heads them all
\* (postgres.go: GetHistory, GetLatest).
HistoryStartsWithLatest ==
    \A asset \in Assets, to \in Instants :
        LET all == GetHistory(asset, 0, to, 0)
        IN  \A limit \in 1..MaxRounds :
                LET some == GetHistory(asset, 0, to, limit)
                IN  /\ IsPrefix(some, all)
                    /\ all # << >> /\ (\A r \in RowsOf(asset) : r.at <= to) =>
                         Head(some) = GetLatest(asset)

\* What Store speaks of.
handed ==
    [n \in DOMAIN given |->
        [asset |-> given[n].asset, at |-> given[n].at, sources |-> Names(given[n].sources)]]
readable == {r.n : r \in aggregated} \ {0}
latest == [a \in Assets |-> IF RowsOf(a) = {} THEN 0 ELSE LatestOf(a).n]

Promised == INSTANCE Store WITH samples <- raw, told <- acked

\* Whatever fails, and in whatever order COMMITs land, callers and readers find
\* what Store promises: rounds appear whole and once, an acknowledged one is
\* there, and the latest is the one with the latest time (postgres.go:
\* PersistRound, GetLatest).
ImplementsStore == Promised!Spec

\* However calls fail, the pool does not run dry: who waits for a connection
\* gets one, or gives up (the deferred Rollback; rows.Close).
PoolServes == \A c \in Callers : pc[c] \in {"begin", "query"} ~> pc[c] = "idle"

=============================================================================
