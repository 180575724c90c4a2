----------------------------- MODULE Aggregator -----------------------------
(***************************************************************************)
(* The aggregator module of the price service: one goroutine per entry of  *)
(* the configured asset list, each running RunOnce on its ticker, all      *)
(* sharing the lastPrice cache, the repository and the bus, in a process   *)
(* that is stopped, crashes and is restarted.                              *)
(*                                                                         *)
(* A tick is split wherever the code blocks or releases the mutex: the     *)
(* fetches, the cache lookup, the GetLatest query, the seeding of the      *)
(* cache, the transaction, setLast and Publish are steps of their own, so  *)
(* crashes, deadlines, Stop and the other loops fall between them.         *)
(***************************************************************************)
EXTENDS Rounds

CONSTANTS
    Assets,      \* asset ids
    Entries,     \* entries of the configured asset list, one loop each
    IdOf,        \* IdOf[e]: the asset id of entry e (ids may repeat)
    ClassOf,     \* ClassOf[e]: "crypto" or "rwa"
    SymbolsOf,   \* SymbolsOf[e]: the sources the entry has a symbol for
    Registered,  \* the sources whose adapter is enabled
    Quotes,      \* the prices a source may report
    Lags,        \* how far a source's own timestamp lags its fetch
    MaxTicks,    \* bound: ticker firings that start a tick, per entry
    MaxTime,     \* bound: seconds that pass outside Collect
    MaxRestarts, \* bound: crashes of the process
    MaxLate      \* bound: COMMITs of an asset the database has yet to come to

ASSUME EntriesAssumption ==
    /\ IdOf \in [Entries -> Assets]
    /\ ClassOf \in [Entries -> {"crypto", "rwa"}]
    /\ SymbolsOf \in [Entries -> SUBSET Sources]
    /\ Registered \subseteq Sources
    /\ Quotes \subseteq Int
    /\ Lags \subseteq Int

ASSUME BoundsAssumption ==
    MaxTicks \in Nat /\ MaxTime \in Nat /\ MaxRestarts \in Nat /\ MaxLate \in Nat

VARIABLES
    now,        \* the wall clock
    phase,      \* the process: "up", "stopping", "stopped" or "down"
    pc,         \* pc[e]: where loop e is
    fired,      \* fired[e]: the ticker channel of e holds a tick
    begun,      \* begun[e]: ticks e started, over all restarts (the bound)
    expired,    \* expired[e]: the context of e's tick is done
    results,    \* results[e]: what fetchAll has of each source
    round,      \* round[e]: the round RunOnce is assembling
    lastPrice,  \* the cache: a function on the cached assets
    db,         \* db[a]: the rows whose COMMIT was sent, in that order
    landed,     \* landed[a]: those the database has committed, by index
    audit,      \* history: audit[a][i] says how row i of db[a] got there
    feed,       \* history: the calls to bus.Publish
    epoch,      \* history: how often the process restarted
    succeeded   \* history: a round of this process was accepted

loopVars == <<pc, fired, begun, expired, results, round>>
vars == <<now, phase, loopVars, lastPrice, db, landed, audit, feed, epoch, succeeded>>

-----------------------------------------------------------------------------
(* The state of a loop.                                                    *)

\* Steps at which a tick, and so its context, is alive.
InFlight == {"fetch", "guard", "load", "seed", "persist", "cache", "publish"}

Row == [median : Int, at : Int]

Round == [median : Int, at : Int, start : Int, end : Int,
          row   : Int,       \* the median GetLatest returned
          blind : BOOLEAN]   \* the read of the last price failed

NoRound == [median |-> 0, at |-> 0, start |-> 0, end |-> 0,
            row |-> 0, blind |-> FALSE]

NoResults == [s \in Sources |-> Absent]

\* acked: PersistRound returned nil; blind: the guard had no last price
\* because its read failed; epoch: the process that wrote the row.
Audit == [acked : BOOLEAN, blind : BOOLEAN, epoch : Nat]

Publication == [asset : Assets, median : Int, at : Int]

TypeOK ==
    /\ now \in Nat
    /\ phase \in {"up", "stopping", "stopped", "down"}
    /\ pc \in [Entries -> InFlight \cup {"start", "idle", "done"}]
    /\ fired \in [Entries -> BOOLEAN]
    /\ begun \in [Entries -> Nat]
    /\ expired \in [Entries -> BOOLEAN]
    /\ results \in [Entries -> [Sources -> Result]]
    /\ round \in [Entries -> Round]
    /\ DOMAIN lastPrice \subseteq Assets
    /\ \A a \in DOMAIN lastPrice : lastPrice[a] \in Int
    /\ db \in [Assets -> Seq(Row)]
    /\ landed \in [Assets -> SUBSET Nat]
    /\ \A a \in Assets : landed[a] \subseteq DOMAIN db[a]
    /\ audit \in [Assets -> Seq(Audit)]
    /\ feed \in Seq(Publication)
    /\ epoch \in Nat
    /\ succeeded \in BOOLEAN

EveryLoop(x) == [e \in Entries |-> x]

EmptyCache == [a \in {} |-> 0]

\* The aggregator module has just started: every loop is about to run its
\* first tick, the cache is empty.
Init ==
    /\ now = 0
    /\ phase = "up"
    /\ pc = EveryLoop("start")
    /\ fired = EveryLoop(FALSE)
    /\ begun = EveryLoop(0)
    /\ expired = EveryLoop(FALSE)
    /\ results = EveryLoop(NoResults)
    /\ round = EveryLoop(NoRound)
    /\ lastPrice = EmptyCache
    /\ db = [a \in Assets |-> << >>]
    /\ landed = [a \in Assets |-> {}]
    /\ audit = [a \in Assets |-> << >>]
    /\ feed = << >>
    /\ epoch = 0
    /\ succeeded = FALSE

-----------------------------------------------------------------------------
(* One tick: RunOnce and the calls it makes.                               *)

\* RunOnce returns and tickCancel runs: the locals of the tick are gone.
EndTick(e) ==
    /\ pc' = [pc EXCEPT ![e] = "idle"]
    /\ expired' = [expired EXCEPT ![e] = FALSE]
    /\ results' = [results EXCEPT ![e] = NoResults]
    /\ round' = [round EXCEPT ![e] = NoRound]

Goto(e, step) ==
    /\ pc' = [pc EXCEPT ![e] = step]
    /\ UNCHANGED <<expired, results, round>>

\* tick(): the first one unconditionally, later ones when select takes the
\* ticker's channel.  The tick's context is a child of the run context, so
\* it is born done once Stop has cancelled that.  fetchAll starts a fetch
\* for every source of the entry whose adapter is registered.
BeginTick(e) ==
    /\ phase \in {"up", "stopping"}
    /\ \/ pc[e] = "start" /\ UNCHANGED fired
       \/ /\ pc[e] = "idle" /\ fired[e]
          /\ fired' = [fired EXCEPT ![e] = FALSE]
    /\ pc' = [pc EXCEPT ![e] = "fetch"]
    /\ begun' = [begun EXCEPT ![e] = @ + 1]
    /\ expired' = [expired EXCEPT ![e] = (phase = "stopping")]
    /\ results' = [results EXCEPT ![e] =
                      [s \in Sources |-> IF s \notin SymbolsOf[e] THEN Absent
                                         ELSE IF s \in Registered THEN Fetching
                                         ELSE Failed]]
    /\ UNCHANGED <<now, phase, round, lastPrice, db, landed, audit, feed, epoch, succeeded>>

\* What an adapter may answer now: an error, or a price and its age.
Answers == {Failed} \cup {Fetched(q, now, now - lag) : q \in Quotes, lag \in Lags}

\* adapter.Fetch of source s returns, with a price or with an error.
FetchReturns(e, s) ==
    /\ pc[e] = "fetch"
    /\ results[e][s].status = "fetching"
    /\ \E r \in Answers : results' = [results EXCEPT ![e][s] = r]
    /\ UNCHANGED <<now, phase, pc, fired, begun, expired, round, lastPrice,
                   db, landed, audit, feed, epoch, succeeded>>

\* Mutant: context.WithCancel where the code has context.WithTimeout.
NoDeadline(e) ==
    /\ phase = "stopping"
    /\ pc[e] \in InFlight
    /\ ~ expired[e]
    /\ expired' = [expired EXCEPT ![e] = TRUE]
    /\ UNCHANGED <<now, phase, pc, fired, begun, results, round, lastPrice,
                   db, landed, audit, feed, epoch, succeeded>>

\* The tick's deadline (one refresh interval) passes.
Expire(e) ==
    /\ pc[e] \in InFlight
    /\ ~ expired[e]
    /\ expired' = [expired EXCEPT ![e] = TRUE]
    /\ UNCHANGED <<now, phase, pc, fired, begun, results, round, lastPrice,
                   db, landed, audit, feed, epoch, succeeded>>

EnoughSources(e, at) ==
    Cardinality(Included(results[e], ClassOf[e], at)) >= MinSources

\* g.Wait returns, tickEnd is read (no two reads of the clock agree), the
\* freshness policy applied and the included prices counted.
Collected(e) ==
    /\ pc[e] = "fetch"
    /\ \A s \in Sources : results[e][s].status # "fetching"
    /\ now' = now + 1

\* ErrNotEnoughSources.
TooFewSources(e) ==
    /\ Collected(e)
    /\ ~ EnoughSources(e, now + 1)
    /\ EndTick(e)
    /\ UNCHANGED <<phase, fired, begun, lastPrice, db, landed, audit, feed, epoch, succeeded>>

\* Steps 2 and 3, with the window of step 5.
Aggregate(e) ==
    /\ Collected(e)
    /\ EnoughSources(e, now + 1)
    /\ LET included == Included(results[e], ClassOf[e], now + 1)
       IN  round' = [round EXCEPT ![e] =
               [NoRound EXCEPT !.median = computeMedian(results[e], included),
                               !.at     = now + 1,
                               !.start  = WindowStart(results[e], included),
                               !.end    = WindowEnd(results[e], included)]]
    /\ pc' = [pc EXCEPT ![e] = "guard"]
    /\ UNCHANGED <<phase, fired, begun, expired, results, lastPrice,
                   db, landed, audit, feed, epoch, succeeded>>

-----------------------------------------------------------------------------
(* getLast, and the deviation guard on what it returns.                    *)

\* The guard against last: ErrDeviationExceeded ends the tick.
Judge(e, last) ==
    \/ Accepts(round[e].median, last) /\ Goto(e, "persist")
    \/ ~ Accepts(round[e].median, last) /\ EndTick(e)

CacheHit(e) ==
    /\ pc[e] = "guard"
    /\ IdOf[e] \in DOMAIN lastPrice
    /\ Judge(e, lastPrice[IdOf[e]])
    /\ UNCHANGED <<now, phase, fired, begun, lastPrice, db, landed, audit, feed, epoch, succeeded>>

CacheMiss(e) ==
    /\ pc[e] = "guard"
    /\ IdOf[e] \notin DOMAIN lastPrice
    /\ Goto(e, "load")
    /\ UNCHANGED <<now, phase, fired, begun, lastPrice, db, landed, audit, feed, epoch, succeeded>>

\* Mutant: the oldest row (ORDER BY aggregated_at without DESC).
OldestRow(a) ==
    CHOOSE row \in {db[a][i] : i \in landed[a]} :
        \A i \in landed[a] : db[a][i].at >= row.at

\* ORDER BY aggregated_at DESC LIMIT 1.
LatestRow(a) ==
    CHOOSE row \in {db[a][i] : i \in landed[a]} :
        \A i \in landed[a] : db[a][i].at <= row.at

\* GetLatest answers that the asset has no row: the guard does not apply.
LoadNone(e) ==
    /\ pc[e] = "load"
    /\ ~ expired[e]
    /\ landed[IdOf[e]] = {}
    /\ Goto(e, "persist")
    /\ UNCHANGED <<now, phase, fired, begun, lastPrice, db, landed, audit, feed, epoch, succeeded>>

\* GetLatest fails, as it must on a context that is done: the guard is
\* skipped, the tick goes on.
LoadFails(e) ==
    /\ pc[e] = "load"
    /\ round' = [round EXCEPT ![e].blind = TRUE]
    /\ pc' = [pc EXCEPT ![e] = "persist"]
    /\ UNCHANGED <<now, phase, fired, begun, expired, results, lastPrice,
                   db, landed, audit, feed, epoch, succeeded>>

\* GetLatest returns a row.
LoadRow(e) ==
    /\ pc[e] = "load"
    /\ ~ expired[e]
    /\ landed[IdOf[e]] # {}
    /\ round' = [round EXCEPT ![e].row = LatestRow(IdOf[e]).median]
    /\ pc' = [pc EXCEPT ![e] = "seed"]
    /\ UNCHANGED <<now, phase, fired, begun, expired, results, lastPrice,
                   db, landed, audit, feed, epoch, succeeded>>

\* Mutant: the cache is never written.
NotCached(a, p) == UNCHANGED lastPrice

\* Mutant: the cache keeps what it has.
KeepLast(a, p) ==
    lastPrice' = [b \in DOMAIN lastPrice \cup {a} |->
                    IF b \in DOMAIN lastPrice THEN lastPrice[b] ELSE p]

setLast(a, p) ==
    lastPrice' = [b \in DOMAIN lastPrice \cup {a} |->
                    IF b = a THEN p ELSE lastPrice[b]]

\* Mutant: the cache is seeded with the proposed median.
SeedProposed(e) ==
    /\ pc[e] = "seed"
    /\ setLast(IdOf[e], round[e].median)
    /\ Judge(e, round[e].row)
    /\ UNCHANGED <<now, phase, fired, begun, db, landed, audit, feed, epoch, succeeded>>

\* getLast seeds the cache with the row it read, then the guard decides.
SeedLast(e) ==
    /\ pc[e] = "seed"
    /\ setLast(IdOf[e], round[e].row)
    /\ Judge(e, round[e].row)
    /\ UNCHANGED <<now, phase, fired, begun, db, landed, audit, feed, epoch, succeeded>>

-----------------------------------------------------------------------------
(* Steps 5 and 6.                                                          *)

\* Mutant: the error of PersistRound is not looked at.
ErrorIgnored(e) ==
    /\ pc[e] = "persist"
    /\ Goto(e, "cache")
    /\ UNCHANGED <<now, phase, fired, begun, lastPrice, db, landed, audit, feed, epoch, succeeded>>

\* PersistRound returns an error and nothing was committed: the database
\* refused, or the context was done before the commit was sent.
PersistFails(e) ==
    /\ pc[e] = "persist"
    /\ EndTick(e)
    /\ UNCHANGED <<now, phase, fired, begun, lastPrice, db, landed, audit, feed, epoch, succeeded>>

\* COMMIT is sent.  The answer may be lost, to the deadline or with the
\* connection: then PersistRound returns an error, and the database may have
\* committed, or may yet come to it.
PersistCommits(e) ==
    LET a == IdOf[e]
        n == Len(db[a]) + 1
    IN  /\ pc[e] = "persist"
        /\ ~ expired[e]
        /\ Raws(results[e]) # {}
        /\ db' = [db EXCEPT ![a] = Append(@,
                     [median |-> round[e].median, at |-> round[e].at])]
        /\ \E acked, lands \in BOOLEAN :
             /\ acked => lands
             /\ ~ lands => Cardinality(DOMAIN db[a] \ landed[a]) < MaxLate
             /\ IF acked THEN Goto(e, "cache") ELSE EndTick(e)
             /\ landed' = [landed EXCEPT ![a] = IF lands THEN @ \cup {n} ELSE @]
             /\ audit' = [audit EXCEPT ![a] = Append(@,
                  [acked |-> acked, blind |-> round[e].blind, epoch |-> epoch])]
        /\ UNCHANGED <<now, phase, fired, begun, lastPrice, feed, epoch, succeeded>>

\* The database comes to a COMMIT that nobody waits for any more: rounds
\* later, after Stop, or when the process that sent it is gone.
CommitLands(a) ==
    /\ \E i \in DOMAIN db[a] \ landed[a] : landed' = [landed EXCEPT ![a] = @ \cup {i}]
    /\ UNCHANGED <<now, phase, loopVars, lastPrice, db, audit, feed, epoch, succeeded>>

CacheLast(e) ==
    /\ pc[e] = "cache"
    /\ setLast(IdOf[e], round[e].median)
    /\ succeeded' = TRUE
    /\ Goto(e, "publish")
    /\ UNCHANGED <<now, phase, fired, begun, db, landed, audit, feed, epoch>>

\* Mutant: the asset id is left at its zero value.
Unstamped(e) ==
    [asset |-> "", median |-> round[e].median, at |-> round[e].at]

\* Mutant: WindowEnd where AggregatedAt belongs.
StampedWindowEnd(e) ==
    [asset |-> IdOf[e], median |-> round[e].median, at |-> round[e].end]

Aggregated(e) ==
    [asset |-> IdOf[e], median |-> round[e].median, at |-> round[e].at]

\* bus.Publish never blocks; RunOnce returns the price.
Publish(e) ==
    /\ pc[e] = "publish"
    /\ feed' = Append(feed, Aggregated(e))
    /\ EndTick(e)
    /\ UNCHANGED <<now, phase, fired, begun, lastPrice, db, landed, audit, epoch, succeeded>>

-----------------------------------------------------------------------------
(* The loop around the ticks, Stop, and the process.                       *)

\* The ticker's channel holds one tick; a firing that finds it full is lost.
TickerFires(e) ==
    /\ phase \in {"up", "stopping"}
    /\ pc[e] # "done"
    /\ ~ fired[e]
    /\ begun[e] < MaxTicks
    /\ fired' = [fired EXCEPT ![e] = TRUE]
    /\ UNCHANGED <<now, phase, pc, begun, expired, results, round, lastPrice,
                   db, landed, audit, feed, epoch, succeeded>>

\* Mutant: ctx.Done is looked at before the first tick only.
ExitsAtStart(e) ==
    /\ phase = "stopping"
    /\ pc[e] = "start"
    /\ pc' = [pc EXCEPT ![e] = "done"]
    /\ UNCHANGED <<now, phase, fired, begun, expired, results, round, lastPrice,
                   db, landed, audit, feed, epoch, succeeded>>

\* select takes ctx.Done.
LoopExits(e) ==
    /\ phase = "stopping"
    /\ pc[e] = "idle"
    /\ pc' = [pc EXCEPT ![e] = "done"]
    /\ UNCHANGED <<now, phase, fired, begun, expired, results, round, lastPrice,
                   db, landed, audit, feed, epoch, succeeded>>

\* Stop cancels the run context, and with it the context of every tick.
StopBegins ==
    /\ phase = "up"
    /\ phase' = "stopping"
    /\ expired' = [e \in Entries |-> expired[e] \/ pc[e] \in InFlight]
    /\ UNCHANGED <<now, pc, fired, begun, results, round, lastPrice,
                   db, landed, audit, feed, epoch, succeeded>>

\* Mutant: Stop returns without waiting for the loops.
NoWait == phase = "stopping"

\* wg.Wait
AllLoopsDone ==
    /\ phase = "stopping"
    /\ \A e \in Entries : pc[e] = "done"

StopReturns ==
    /\ AllLoopsDone
    /\ phase' = "stopped"
    /\ UNCHANGED <<now, loopVars, lastPrice, db, landed, audit, feed, epoch, succeeded>>

\* The process dies, or exits after Stop: its memory is gone.
Crash ==
    /\ phase # "down"
    /\ epoch < MaxRestarts
    /\ phase' = "down"
    /\ pc' = EveryLoop("start")
    /\ fired' = EveryLoop(FALSE)
    /\ expired' = EveryLoop(FALSE)
    /\ results' = EveryLoop(NoResults)
    /\ round' = EveryLoop(NoRound)
    /\ lastPrice' = EmptyCache
    /\ succeeded' = FALSE
    /\ UNCHANGED <<now, begun, db, landed, audit, feed, epoch>>

Restart ==
    /\ phase = "down"
    /\ phase' = "up"
    /\ epoch' = epoch + 1
    /\ UNCHANGED <<now, loopVars, lastPrice, db, landed, audit, feed, succeeded>>

\* A second passes.
Advance ==
    /\ now < MaxTime
    /\ now' = now + 1
    /\ UNCHANGED <<phase, loopVars, lastPrice, db, landed, audit, feed, epoch, succeeded>>

-----------------------------------------------------------------------------

getLast(e) == CacheHit(e) \/ CacheMiss(e) \/ LoadNone(e) \/ LoadFails(e)
              \/ LoadRow(e) \/ SeedLast(e)

\* The steps loop e takes by itself once a tick runs.
Tick(e) ==
    \/ TooFewSources(e) \/ Aggregate(e)
    \/ getLast(e)
    \/ PersistFails(e) \/ PersistCommits(e)
    \/ CacheLast(e) \/ Publish(e)

Loop(e) ==
    \/ BeginTick(e)
    \/ \E s \in Sources : FetchReturns(e, s)
    \/ Expire(e)
    \/ Tick(e)
    \/ TickerFires(e)
    \/ LoopExits(e)

Next ==
    \/ \E e \in Entries : Loop(e)
    \/ \E a \in Assets : CommitLands(a)
    \/ StopBegins \/ StopReturns
    \/ Crash \/ Restart
    \/ Advance

Spec == Init /\ [][Next]_vars
-----------------------------------------------------------------------------
(* Safety.                                                                 *)

\* The configuration lists every asset once.  The code does not check it;
\* properties about consecutive rows of an asset hold only then.
UniqueIds == \A e, f \in Entries : IdOf[e] = IdOf[f] => e = f

Sampled == {"guard", "load", "seed", "persist", "cache", "publish"}

\* The sources whose price is young enough, said without Included: less than
\* a second beyond the threshold of the class (which is not negative).
Young(e) ==
    {s \in Sources :
        /\ results[e][s].status = "fetched"
        /\ FreshnessPolicy = "strict" /\ results[e][s].observedAt # NoTime =>
              round[e].at - results[e][s].observedAt <
                 (1 + IF ClassOf[e] = "rwa" THEN StaleAfterRWA
                                            ELSE StaleAfterCrypto) * Second}

\* A round that passed MinSources (RunOnce, steps 2 and 5) rests on at least
\* MinSources prices, none older than the policy allows; its window is the
\* span of exactly those fetches.
RoundSound ==
    \A e \in Entries : pc[e] \in Sampled =>
        LET times == {results[e][s].fetchedAt : s \in Young(e)}
        IN  /\ Cardinality(Young(e)) >= MinSources
            /\ round[e].start \in times /\ round[e].end \in times
            /\ \A t \in times : round[e].start <= t /\ t <= round[e].end

\* The k-th smallest price among the sources S.
Ranked(e, S, k) ==
    CHOOSE p \in {results[e][s].price : s \in S} :
        /\ Cardinality({s \in S : results[e][s].price < p}) < k
        /\ Cardinality({s \in S : results[e][s].price <= p}) >= k

\* computeMedian by rank, without sorting: twice the median is the sum of the
\* two middle prices (the same one when their number is odd).
MedianIsMiddle ==
    \A e \in Entries : pc[e] \in Sampled =>
        LET n == Cardinality(Young(e))
        IN  2 * round[e].median = Ranked(e, Young(e), (n + 1) \div 2)
                                + Ranked(e, Young(e), (n + 2) \div 2)

\* A minority of wrong sources cannot move a round's median outside the
\* prices of the others, whatever they report: the reason RunOnce takes a
\* median.
MinorityHarmless ==
    \A e \in Entries : pc[e] \in Sampled =>
        \A F \in SUBSET Young(e) :
            2 * Cardinality(F) < Cardinality(Young(e)) =>
                \E s, t \in Young(e) \ F :
                    /\ results[e][s].price <= round[e].median
                    /\ round[e].median <= results[e][t].price

\* The deviation guard over the life of the database, across crashes, failed
\* calls and late commits: a row is within the band around the acknowledged
\* row that precedes it in the table, unless the guard could not read the last
\* price (getLast on a failed GetLatest).  Only a commit whose answer was lost
\* and that reached the table between the two opens another gap.
BandHeld ==
    \A a \in Assets : \A j \in DOMAIN db[a] : \A i \in 1..(j - 1) :
        audit[a][i].acked /\ ~ audit[a][j].blind /\ landed[a] \cap (i + 1)..(j - 1) = {}
            => Accepts(db[a][j].median, db[a][i].median)

\* A last price of zero or less switches the guard off (RunOnce: last > 0), so
\* none may get in past a positive one, not even through rows in between whose
\* answer was lost or that landed late: from an acknowledged price above zero
\* to one that is not, a blind round lies between.
NeverDisarmed ==
    MaxDeviationPct < 100 =>
        \A a \in Assets : \A j \in DOMAIN db[a] : \A i \in 1..(j - 1) :
            audit[a][i].acked /\ db[a][i].median > 0 /\ db[a][j].median <= 0
                => \E k \in (i + 1)..j : audit[a][k].blind

\* The guard is blind at most once per asset and process: an acknowledged
\* row written without a last price, because its read failed, is the first
\* acknowledged row of its process (the cache is set from then on).
BlindOnce ==
    \A a \in Assets : \A j \in DOMAIN audit[a] : \A i \in 1..(j - 1) :
        audit[a][j].acked /\ audit[a][j].blind /\ audit[a][i].acked
            => audit[a][i].epoch < audit[a][j].epoch

\* The cache never lags an acknowledged row, save between PersistRound and
\* setLast: it holds the median of a row of the table after which no commit
\* but those whose answer was lost was sent.
CacheTracksRows ==
    \A e \in Entries :
        LET a == IdOf[e]
        IN  a \in DOMAIN lastPrice /\ pc[e] # "cache" =>
              \E i \in landed[a] :
                 /\ db[a][i].median = lastPrice[a]
                 /\ \A j \in (i + 1)..Len(db[a]) : ~ audit[a][j].acked

\* Whatever the configuration, the cached price of an asset is the median of
\* a committed row: the guard never compares with a rejected or rolled-back
\* round.
CacheFromRows ==
    \A a \in DOMAIN lastPrice : \E i \in landed[a] : db[a][i].median = lastPrice[a]

\* Every published price was persisted and acknowledged first (RunOnce:
\* PersistRound before Publish), and none is published twice.
FeedFromRows ==
    /\ \A k \in DOMAIN feed : \E i \in landed[feed[k].asset] :
          /\ db[feed[k].asset][i] = [median |-> feed[k].median, at |-> feed[k].at]
          /\ audit[feed[k].asset][i].acked
    /\ \A k, l \in DOMAIN feed : feed[k] = feed[l] => k = l

\* What the bus is told of an asset is its acknowledged rows, in the order of
\* their AggregatedAt, and no row of this process is skipped: a row that is
\* not in the feed belongs to the tick now between PersistRound and Publish.
FeedMirrorsRows ==
    /\ \A k, l \in DOMAIN feed :
          k < l /\ feed[k].asset = feed[l].asset => feed[k].at < feed[l].at
    /\ phase # "down" =>
          \A e \in Entries : \A i \in DOMAIN db[IdOf[e]] :
            LET a == IdOf[e]
            IN  audit[a][i].acked /\ audit[a][i].epoch = epoch =>
                  \/ \E k \in DOMAIN feed :
                        feed[k].asset = a /\ feed[k].at = db[a][i].at
                  \/ pc[e] \in {"cache", "publish"} /\ round[e].at = db[a][i].at

\* After Stop has returned the module sends nothing to the database or to the
\* bus, though the database may still come to what was sent: the manager
\* closes the pool next.
QuietAfterStop ==
    [][phase = "stopped" /\ phase' \in {"stopped", "down"} =>
         /\ UNCHANGED <<db, feed>>
         /\ \A e \in Entries : pc[e] \notin InFlight]_vars

\* internal/aggregator/aggregator.go:52: "lastPrice caches the most recently
\* accepted median per asset".  Once this process has had a round of an asset
\* accepted, and its loop has set the cache, the cached price is not that of a
\* row that is older, by its time and by its commit, than all it has accepted.
CacheNotBehind ==
    \A a \in DOMAIN lastPrice :
        LET accepted == {i \in landed[a] : audit[a][i].acked /\ audit[a][i].epoch = epoch}
        IN  accepted # {} /\ (\A e \in Entries : IdOf[e] = a => pc[e] # "cache")
              => \E i \in landed[a] : \E k \in accepted :
                    /\ k <= i \/ db[a][k].at <= db[a][i].at
                    /\ db[a][i].median = lastPrice[a]

\* Module.HealthCheck.
Healthy == DOMAIN lastPrice # {}

\* internal/aggregator/module.go:109: healthy "once at least one asset has a
\* last price cached (i.e. one successful tick)".
HealthyMeansTicked == Healthy => succeeded

-----------------------------------------------------------------------------
(* Liveness.                                                               *)

\* The goroutines run; a tick's deadline passes; adapters honour a context
\* that is done; the ticker ticks; select is fair between its two channels.
Fairness ==
    /\ \A e \in Entries :
          /\ WF_vars(BeginTick(e))
          /\ WF_vars(Expire(e))
          /\ \A s \in Sources : WF_vars(expired[e] /\ FetchReturns(e, s))
          /\ WF_vars(Tick(e))
          /\ WF_vars(TickerFires(e))
          /\ SF_vars(LoopExits(e))
    /\ WF_vars(StopReturns)

FairSpec == Spec /\ Fairness

\* A source that never answers cannot stall a loop: a process that stays up
\* goes on starting ticks, up to the bound.
KeepsTicking ==
    \A e \in Entries : <>[](phase = "up") => <>(begun[e] >= MaxTicks)

\* Stop, once begun, returns unless the process dies first.
StopTerminates == phase = "stopping" ~> phase \in {"stopped", "down"}

=============================================================================
