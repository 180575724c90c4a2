# Verification of the price service

The price service polls public price sources for a list of assets, takes the
median of what they answer, rejects medians that jump too far, stores the rest
in Postgres and streams them to gRPC clients. This directory models it in
TLA+, checks the model with TLC and proves theorems about it with TLAPS. Paths
below are relative to the repository.

## 1. The system

| component | code | state it keeps | operations | talks to |
|---|---|---|---|---|
| aggregation round | `internal/aggregator/aggregator.go` | `lastPrice`, the cache of accepted medians, under a mutex; the locals of a running round | `RunOnce`, `fetchAll`, `getLast`, `setLast` | adapters (fan-out), repository (read, transaction), bus |
| scheduler | `internal/aggregator/module.go` | one goroutine and ticker per asset entry, a run context, a wait group | `Start`, `loop`, `Stop`, `HealthCheck` | rounds, module manager |
| bus | `internal/aggregator/bus.go` | a map of buffered channels under a RWMutex | `Subscribe`, `Publish`, `cancel`, `Count` | rounds publish, stream handlers drain |
| repository | `internal/repository/postgres.go` | tables `prices_raw`, `prices_aggregated` | `PersistRound` (one transaction), `GetLatest`, `GetHistory` | Postgres |
| repository module | `internal/repository/module.go` | the connection pool | `Init`, `Stop`, `HealthCheck` | module manager |
| gRPC handlers | `internal/grpc/handlers/price_service.go` | one stream per subscribed client | `GetPrice`, `Subscribe` | repository (snapshot), bus (tail) |
| gRPC server | `internal/grpc/server.go`, `module.go` | listener, `running` flag | `Serve`, `GracefulStop`, `HealthCheck` | module manager |
| health endpoints | `internal/healthz/module.go` | an HTTP server | `/healthz`, `/readyz` | every module's `HealthCheck` |
| manager, application | `internal/module`, `internal/application.go`, `cmd/serve` | the ordered list of modules | `InitAll`, `StartAll`, `StopAll` (reverse) | all modules |
| sources | `internal/sources` | HTTP clients, one rate limiter per source | `Fetch`, `acquireToken`, registry `Get` | upstream HTTP APIs |
| configuration, models | `config`, `internal/models` | none | `Validate`, `NewAsset`, `Asset.Sources` | start-up |

What is hard about it:

* **Concurrency.** One loop per asset entry; all loops share the cache, the
  pool, the bus and the rate limiters. The mutex is released between the cache
  lookup, the query and the seeding of the cache. Streams come and go while the
  bus publishes.
* **Failure.** The commit, the cache and the publication are three steps with
  no common transaction. A commit can succeed while its answer is lost. The
  read that feeds the deviation guard can fail, and then the guard is skipped.
  The process can die anywhere.
* **Time.** Every tick has a deadline of one refresh interval; sources hang;
  tickers drop ticks; ages are compared with thresholds in whole seconds.
* **Shutdown.** Stop cancels the loops and waits for them, the manager stops
  the modules in reverse order, and streams live as long as their client.

What makes each component correct is listed with its properties in section 3.
`PROJECT.json` lists the hazards at the lines where they bite.

## 2. The modules

| module | models |
|---|---|
| `SourceKinds` | the tables of source kinds: name, number and class of asset. Operators only. |
| `Rounds` | the arithmetic of a round: outcomes of the sources, freshness policy, median, window, deviation test. Operators only. |
| `Wire` | a round on its way to a client: contributions and their ages, the JSON of the breakdown, `TIMESTAMPTZ`, the protobuf messages both ways. Operators only. |
| `Aggregator` | the loops, a round step by step, the cache, the table, the feed, deadlines, Stop, crash and restart. |
| `PriceFeed` | the abstract specification of the aggregator: an append-only history of rows per asset, each within the band of a recent one, some of which become visible late or never, and a feed that announces them in order. |
| `AggregatorRefinement` | the refinement mapping from `Aggregator` to `PriceFeed`. |
| `Bus` | the bus: lock, registration, channels, the offer of a price to one channel after the other, drops, cancel. |
| `PriceStream` | `GetPrice` and `Subscribe` over the table and the bus (`INSTANCE Bus`), with clients that leave. |
| `Config` | the defaults, `Scheme.Validate`, and what `NewAsset`, the adapters' constructors and the registry accept. Operators only. |
| `Lifecycle` | the process from start to exit: `App.Init` under a configuration, `StartAll`, the signal, `StopAll`, and the loops, calls and probes that use the pool meanwhile. |
| `Store` | the abstract specification of the repository: rounds handed over become readable whole, once, late or never; who is told so can read his; the latest has the latest time. |
| `Repository` | `PersistRound` statement by statement, the reads, the pool. Implements `Store`. |
| `Sources` | one adapter with its limiter and concurrent fetches; what each of the eleven adapters makes of an answer. |
| `MC...` | constants for TLC. |
| `AggregatorInvariant` | the inductive invariants `Coherent` and `AllStamped`, and their parts. |
| `FiniteOrders` | lemmas about finite sets of things with an integer key: least and greatest, the order by key, ranks. |
| `AggregatorProofs` | the median and the window; type correctness; what a round rests on: theorems from `AllStamped`. |
| `AggregatorSafety` | the guard, the cache and the feed: theorems from `Coherent` and `Traced`; `Aggregator` implements `PriceFeed`. |
| `BusProofs` | the bus is safe for any number of publishers and subscriptions. |
| `PriceStreamProofs` | what a client sees never goes back, is in the table, and has no hole once it is subscribed. |
| `LifecycleProofs` | the pool outlives its users, an orderly exit leaves nothing behind, a failed server is noticed, loops are configured, the defaults suffice. |
| `RepositoryProofs` | rounds are stored whole, what is read is what was streamed, the two reads agree, and `Repository` implements `Store`. |
| `SourcesProofs` | the rate of requests holds, and what an adapter returns can be used. |

### Aggregator and the code

| code | model |
|---|---|
| `Module.loop`, one per entry of the list | `pc[e]`: `start` (before the first tick), `idle` (in `select`), a step of a tick, `done` |
| `ticker.C` | `fired[e]`: a channel of capacity one |
| `tickCtx` | `expired[e]`; set by the deadline (`Expire`), by `StopBegins`, or at birth when Stop has begun |
| `results` in `fetchAll` | `results[e][s]`: absent (no symbol), fetching, failed, fetched |
| locals of `RunOnce` | `round[e]` |
| `lastPrice` under `mu` | `lastPrice`, a function on the cached assets; each locked section is one step |
| `prices_aggregated` | `db[a]`, the rows whose `COMMIT` was sent, in that order, and `landed[a]`, those of them the table has; `audit[a]` remembers for each row whether `PersistRound` returned nil, whether the guard had failed to read, and which process wrote it (history, not code) |
| calls of `bus.Publish` | `feed` (history) |

A tick is the steps `fetch` (answers arrive one by one), `guard` (cache
lookup), `load` (the query), `seed` (cache written with the row), `persist`,
`cache` (`setLast`) and `publish`. `PersistRound` has four outcomes:
`PersistFails` (nothing stored), `PersistCommits` acknowledged, and
`PersistCommits` with the answer lost, where the code gets an error for a row
that is there, or for one that the database has yet to come to. Such a row
lands at any later step (`CommitLands`): rounds later, after Stop, in the next
process, or never. `GetLatest` reads the landed row with the latest time, may
fail at any time and must fail on a context that is done.

In terms of `PriceFeed` sending `COMMIT` is an `Accept`, a late landing a
`Surface`, a publication an `Announce`.

Abstractions:

* Prices are integers, multiples of two, so that the mean of two is exact; the
  rounding of float64 is not modelled.
* A tick of the clock passes at `Collected` (two reads of the wall clock in one
  process differ), so rounds of one loop have increasing times. **Assumption:**
  the wall clock is not stepped back. With a clock stepped back `ORDER BY
  aggregated_at` no longer returns the round that was accepted last, and
  `BandHeld` would fail.
* The raw rows of a round are not kept: they are written in the same
  transaction and read by nothing in the service.
* Whether the database answers, an adapter answers, a commit's answer arrives,
  is nondeterministic.

### Bus, PriceStream and the code

| code | model |
|---|---|
| `Bus.mu`, a `sync.RWMutex` | `readers`, and `writer`: who holds the write lock or waits for it, which already keeps new readers out |
| `Bus.subs` | `subs`, the registered subscriptions; `chan[c]`, `closed` their channels |
| the loop of `Publish` | `left[p]`: the channels still to be offered the price, in any order; `PublishReturns` when none is left |
| `Subscribe`, `cancel` | `SubscribeCalled`/`Register`, `CancelCalled`/`Unregister`: the two halves of taking the lock |
| the `Subscribe` handler | `step[c]`: `snapshot` and `first` (a row read, not yet sent), `subscribe`, `tail`, `send`, `cancel`, `leave`, `ended` |
| `srv.Context()` | `gone[c]`, set at any step by `ClientLeaves` |
| a round of the aggregator | `Persists` (acknowledged or not), then `Publishes` if acknowledged |

A price is known by its asset and the number of its row (`stamp`). The handler
uses the bus through `B == INSTANCE Bus`; `UsesBus` checks that every behaviour
of `PriceStream` is one of `Bus`, so the theorems of `BusProofs` hold for the
streams too. That rows and publications of an asset come in one order is not
assumed anew: it is `FeedMirrorsRows` of `Aggregator`, with every asset listed
once. The branch of the handler for a closed channel is left out, because
nothing but the handler's own cancel closes it.

### Lifecycle, Config and the code

| code | model |
|---|---|
| `App.Init` | `main = "init"`, `at` the step; each step may fail where the code can: validation, the ping of the database, registry and assets, the listener |
| `Manager.modules` | `modules`, in the order of registration |
| `StartAll`, `StopAll` | `main` is `start` or `stop`, `at` the module; each `Stop` that waits is two steps (`StopGRPC`, then `GRPCStops` once no call is under way) |
| a signal | `Signal`: ends the process before `signal.Notify`, begins the stop after it, is ignored later |
| `Server.running` | `running`; `grpc` is what the server really does |
| the health service and reflection | calls that need no connection (`CallServed`): `Check` returns, `Watch` stays until its client leaves; the status is `SERVING` from the start and nothing resets it, also while the server drains |
| `healthz.Module.listening` | `listening`; set by the goroutine before it listens, reset when `ListenAndServe` returns (`HTTPReturns`) |
| `pgxpool.Pool` | `pool`, and `holders`, who has a connection; `Close` waits until there is none |
| loops, gRPC calls, `/readyz` | `loop[i]`, `call[c]`, `probe[p]`: where they are, with a query as two steps |

A configuration is a record of what `Validate` and the constructors look at;
`MCLifecycle` runs the defaults with one asset for each list of sources they
have (five of the ten assets), and twenty-one flawed ones.
Of these `Validate` lets pass an asset id that is not canonical, a symbol that
is empty or for an unknown source, a source of the other class, a URL or a
timeout that is missing, and a registry with no source enabled; the
constructors refuse them (`config/init.go:297-300` promises the validation
of assets before, and `LoopsAreConfigured` shows that nothing gets past both).

Abstractions: `Server.running` is a plain `bool` that two goroutines write and
a third reads; the model lets them take turns. A byte is not torn, and a store
that becomes visible late is `StartGRPC` or `ServeReturns` late. A failed bind
of the health server is only logged (`HTTPListens`), and `/readyz` skips its
own module, so nobody reads `listening` but a caller of its `HealthCheck`. `serve.go:30` says that cobra always calls `PostRun`; it does
not when `RunE` errs, so a failed `Init` ends the process without `Stop`
(`InitFails`), which leaves nothing but what the operating system reclaims.

### Repository and the code

| code | model |
|---|---|
| `PersistRound` | `BeginTx`, one `InsertRaw` per row of the batch, `InsertAggregated`, `SendCommit`, `CommitLands`, `Committed`; on an error `InsertFails` or `CommitFails`, and the deferred `Rollback` |
| the open transaction | `staged[c]`, what it has inserted; `holders`, who has a connection |
| a `COMMIT` given up on | `orphans`: the database applies it or drops it at any later time (`OrphanEnds`) |
| `prices_raw`, `prices_aggregated` | `raw`, `aggregated`, as far as they are committed |
| arguments and results of the calls | `given`, `acked` (history) |
| `GetLatest`, `GetHistory` | operators on `aggregated`; a query is the statement that evaluates them on a connection |
| `fetchAll`'s contributions, `AgeSec` | `Wire`: `Answered`, `Absent` |
| `encodeBreakdown`, `decodeBreakdown`, `aggregated_at` | the same names in `Wire`, with times cut to seconds and, in `Stamp`, to microseconds |
| `ToProto`, `AggregatedPriceFromProto` | `ToProto`, `FromProto`: a zero `time.Time` is a timestamp that is not set |

Instants are `1/Second` of a second, `Micro` of them a microsecond; the codec's
`Unix`, with the zero `time.Time` before the epoch, is modelled by what it does.
Rounds may be persisted, and may commit, in another order than their times: two
loops can share an asset. `OldRow` is a row of an older version of the service,
with a source the code no longer knows.

`Store` is the repository as its callers know it. `PersistRound` called is a
`Hand`; `CommitLands` and an orphan that lands are an `Appear`, `Committed` is a
`Tell`; all else leaves it alone. These are the outcomes that `Aggregator` gives `PersistRound`, and
`latest` is what its `LoadRow` reads; the two modules are not composed, since
`Aggregator` keeps neither samples nor breakdowns.

Abstractions: the median and the window are carried as the number of the round,
payloads are not kept. **Assumption** (`RepositoryAssumption`): no two rounds of
an instance end in the same microsecond.

### Sources and the code

Every adapter has its own limiter and shares nothing with the others, so a
behaviour is about one `kind`, chosen at its start. `fetch[f]` is a call of
`Fetch`: waiting for its token, then for the answer. The limiter is that of
`golang.org/x/time/rate` (external): `spent` is the time at which it has no token
left; `Wait` takes a token from the future, refuses when that is beyond the deadline,
and gives it back when the context ends first. An answer is a status and what
the adapter tells apart in the body; a price that comes as text is a number,
`NaN`, `Empty` or `Garbage`. Timers are assumed to be on time (`Advance`): a
goroutine that is delayed after `Wait` could bunch requests. A `rate_limit` of zero
or less builds an adapter without a limiter (`adapter.go:86`); it is not modelled, and
`RateHeld` claims nothing of it.
The request itself is left out.

## 3. The runs

Deadlock checking is off, since a process that has been
stopped, or has used up its bound of ticks and restarts, or whose clients are
all gone, really does nothing.

| run | instance | shows |
|---|---|---|
| `agg_chain` | one asset, one source, prices 0, 20, 22 with a band of 10 %, three rounds, one restart, a late `COMMIT` | `Coherent`, `BandHeld`, `NeverDisarmed`, `BlindOnce`, `CacheTracksRows`, `FeedMirrorsRows`, `ImplementsPriceFeed`, `TypeOK` |
| `agg_rounds` | three sources, two ticks, strict policy, half-second clock, fairness | `RoundSound`, `MedianIsMiddle`, `MinorityHarmless`, `KeepsTicking`, `StopTerminates` |
| `agg_shared` | one asset listed twice, a round or two each | `CacheFromRows`, `FeedFromRows`, `QuietAfterStop` |
| `agg_twins` | the same | **violation** of `CacheNotBehind` |
| `agg_ready` | one asset, one restart | **violation** of `HealthyMeansTicked` |
| `bus_all` | two publishers of two prices, two subscriptions, channels of one slot, fairness | `TypeOK`, `NeverSendsOnClosed`, `Accounted`, `InOrder`, `NobodyWaitsForSubscribers` |
| `stream_all` | two assets of two rows, one client, channel of one slot, all forms of request, fairness | `NeverGoesBack`, `GetPriceNotBehind`, `TailComplete`, `UsesBus`, `LeaversForgotten` |
| `stream_gap` | one asset of two rows, one client | **violation** of `SnapshotThenEveryTick` |
| `life_all` | 26 configurations, one loop, one unary call, one stream, one probe, one connection, fairness, clients that leave | `PoolOutlivesUsers`, `EveryModuleStopped`, `BrokenIsNotReady`, `LoopsAreConfigured`, `DefaultsSuffice`, `StopEnds` |
| `life_bound` | one configuration, one stream, fairness | **violation** of `StopEnds` |
| `repo_all` | two callers, two connections, three rounds, fairness | `AllOrNothing`, `ReadsWhatWasStreamed`, `HistoryStartsWithLatest`, `ImplementsStore`, `PoolServes` |
| `sources_all` | each adapter, three fetches, a burst of one, fairness | `RateHeld`, `UsableAnswers`, `FetchEnds` |

* **BandHeld**: a row whose predecessor was acknowledged lies within the band
  around it, across crashes and failed calls, unless its guard was blind. Two
  gaps are real and are what the property's premises name: a lost answer, or a
  commit that lands late, leaves the cache behind the table, and a failing read
  skips the guard.
* **NeverDisarmed**: `BandHeld` says nothing of a row after one of zero or less,
  because the code skips the guard there (`last > 0`). This says that such a row does
  not come about behind the guard's back: past an acknowledged positive row it takes a
  blind round, even through a chain of rows whose answers were lost. A first
  row of zero is let in, as in the code.
* **BlindOnce** bounds the second gap: at most the first acknowledged row of a
  process is blind.
* **CacheTracksRows**: outside the step between commit and `setLast`, the
  cache holds the median of a row after which only unacknowledged rows were
  committed. With an asset listed twice this is false, which is why
  `agg_shared` checks only the weaker `CacheFromRows`.
* **CacheNotBehind** is what the comment on `lastPrice` says, in its mildest
  form: once a round of this process was accepted and cached, the cached price is not
  from before all of them. With an asset listed twice a loop that has read a row puts it
  into the cache after the other loop has cached a newer one.
* **FeedMirrorsRows**, **FeedFromRows**: the bus is told exactly the
  acknowledged rows, in order. **QuietAfterStop**: and nothing once Stop has
  returned, whatever commit still lands.
* **RoundSound**, **MedianIsMiddle**, **MinorityHarmless** restate, without the
  code's operators, what a round rests on. A source older than the threshold by
  less than a second still counts, since the code cuts ages to whole seconds.
* **ImplementsPriceFeed** is the summary: a row is within the band of one that
  is *recent*, i.e. the last one whose writer was sure of it, or a visible one
  after it. A process that restarts over a commit still in flight compares with
  the row before, and both may end up in the table.
* **HealthyMeansTicked** is what `module.go:109` says of readiness. After a
  restart over a table with a row, the first `getLast` fills the cache before
  the round is judged: the module is healthy without a successful tick, and
  stays so if every round is rejected.
* **NeverSendsOnClosed**, **Accounted**, **InOrder**: a send on a closed channel
  would panic; a subscription misses only what found its channel full.
* **NeverGoesBack**: snapshot and tail are read at different times and by
  different ways; still a client never sees an older price after a newer one,
  and sees at most the snapshot row twice.
* **TailComplete** lifts `Accounted` to the client, with its filter and the
  price in the handler's hand.
* **GetPriceNotBehind** ties the two calls: what was pushed can be read.
* **SnapshotThenEveryTick** is what README.md:193 says; a round that falls
  between the snapshot's query and `bus.Subscribe` is in neither.
* **PoolOutlivesUsers**, **EveryModuleStopped**: the order of the stops and the
  waiting in each of them are what keeps a tick or a call off a closed pool; an
  error of one stop does not spare the others.
* **BrokenIsNotReady**: a probe that arrives after the gRPC server has given up
  is not told `ready`, whatever the start, `Serve` and the probe interleave.
* **LoopsAreConfigured**, **DefaultsSuffice**: what reaches the loops is what
  `Rounds` and `Aggregator` assume; the shipped defaults, whichever
  assets are kept, need only a password and the keys of the enabled sources.
* **StopEnds** is what the comment on `App.Stop` says. It holds if the clients of
  streams leave one day (`LeavingSpec`), which makes it a statement about
  everything else that may block: the pool, the loops, the probes. Without that
  (`FairSpec`) it fails: `GracefulStop` waits for a stream without a deadline,
  and the aggregator and the pool behind it are never stopped.
* **AllOrNothing**: a reader finds a round whole or not at all, also when a
  statement or `COMMIT` fails.
* **ImplementsStore** is the summary for the repository: a round appears once,
  perhaps after its caller has given up; an acknowledged one is there and stays; and commits of concurrent rounds, late ones too, cannot take
  the latest row back in time.
* **ReadsWhatWasStreamed**: the bus sends a round as it was computed, `GetLatest`
  returns it from its JSON. Message by message: the same sources and prices, an
  absent source stays absent, and no time is lost, though those of the sources are
  cut to seconds and that of the round to microseconds; a client that parses
  the message has what the repository returned.
* **HistoryStartsWithLatest**: the two reads agree, and a limit cuts off the
  oldest.
* **PoolServes**: no error path keeps a connection.
* **RateHeld**: any stretch of time sees at most a burst and what has dripped
  since; tokens that are given back do not come twice.
* **UsableAnswers**: no adapter takes an absent or unreadable text for a price;
  all but Alpha Vantage refuse zero; those that bar what is not positive do so
  for every row, side and quote; a price's time is one the source gave or that
  of the fetch.
* **FetchEnds**: a fetch ends although neither a token nor an answer comes.

### Bounds

Two consecutive rows and one row before them are enough for every way a guard
can be fooled (stale cache, stale seed, blind read), hence three rounds; one
restart separates two processes, and the second behaves as any later one would
because a restart leaves nothing but the table. The prices give each pair of
outcomes: within the band, outside it, and the zero that turns the guard off.
Three sources give even and odd numbers of survivors and a minority of one;
`Lags` puts a source's clock ahead of ours and an age at the threshold, which a
step of the clock carries past it. Two ticks are enough for a loop to have gone on
after a source that did not answer. `MaxTicks` stops the ticker, `MaxTime` the clock, `MaxRestarts` the
crashes, and `MaxLate` bounds the commits of an asset that are still in flight: one is
enough to have a row turn up below, above or instead of an acknowledged one.
None of them is in the code.

For the bus, two publishers and two subscriptions are enough for a send, a
registration and a cancel to overlap in every order, and a channel of one slot
is full after one price. Two rows per asset are a snapshot and a successor, two
assets a filter that matters. `MaxStamp` and `MaxRows` bound the prices.

For the lifecycle, one connection makes every pair of users contend, and one
user of each sort stands in the way of each stop; the configurations differ
from a sound one in a respect or two. For the repository, three rounds of one
asset are one committed, one in flight and one orphaned; two connections let
two transactions overlap. With four instants in a second and two in a
microsecond, the times 13, 15 and 17 fall on either side of a whole second, and every
one has something to be cut. For the sources, three fetches are one that has a
token, one that waits and one that is refused; the deadline lies between the
second and the third token. `MaxAssets`, `MaxRounds`, `MaxNow` and `MaxFetches`
are bounds of the models.

### Fairness

`FairSpec` assumes what the code provides: goroutines run (weak fairness of a
loop's next step), a tick's deadline passes (`context.WithTimeout`), an adapter
returns once its context is done (it is passed to every blocking call), the
ticker ticks, and `select` with two ready channels does not choose the ticker
for ever (strong fairness of `LoopExits`: while ticks go on, the exit is enabled
only between them). Nothing is assumed of sources that are merely slow, of the
database, or of crashes.

For the bus, publishers and lock waiters run and nothing is assumed of
subscribers. For the streams, a handler runs, but a `Send` may wait for its
client, and a query for the database, until the client is gone (gRPC then fails
the call); `select` and the lock are fair (strong fairness).

For the lifecycle, goroutines run (that of `healthz` until `ListenAndServe` has returned), a tick's queries end with its deadline, a call's with
the database, a waiting user gets a free connection in the end (`pgxpool` serves
in turn, hence strong fairness), and a loop that may exit does not choose
the ticker for ever. Only `LeavingSpec` assumes that clients leave. For the
repository, statements end, at the latest with their context, and the pool is
fair; giving up is not assumed. For the sources, the clock moves on and deadlines
are kept; that a server answers is not assumed.

## 4. Proofs

Every safety property that a passing run checks is a theorem; what is left to
TLC is liveness.

`FiniteOrders` holds what several proofs need: a finite set of integers has a
least and a greatest member, things with integer keys can be listed in ascending
order (`SortedExists`), and the key at a place of that list is the one of its
rank (`SortedRank`, `RankUnique`). Induction over finite sets is done by a
minimal counterexample under the strict-subset order, which is well-founded.

`AggregatorProofs` proves that the window bounds are the least and greatest
fetch times, and `MedianResistsMinority`: leave out any minority, and the median
still lies between two of the remaining prices. The heart is a counting argument:
the sorted positions not above the median number at least half, so a minority
cannot hold all of them. `TypeCorrect`, `Spec => []TypeOK`, for any assets, entries,
sources and bounds, is not quite bookkeeping: that a median is a number at all
needs `MinSources > 0` (which `Scheme.Validate` enforces) and the lemmas on the
median. `RoundSound`, `MinorityHarmless` and `MedianIsMiddle` follow, assuming
`SaneThresholds` (the staleness thresholds are not negative), from `AllStamped`:
until it is published a round is what `RunOnce` computed from the results it
still holds. `MedianIsMiddle` assumes in addition `ExactMeans`, that prices are
even: the code halves a sum of floats, the model one of integers. The code's
median is a place in a sorted list, the property's a price by its rank;
`MedianOfRanks` joins them.

`AggregatorSafety` proves `BandHeld`, `NeverDisarmed`, `BlindOnce`,
`CacheTracksRows` and `FeedMirrorsRows`, assuming `UniqueIds` (every asset listed once; `agg_shared`
is the case without it). None of them is inductive: that a new row is within
the band of the last one depends on what the cache held when the guard looked,
which depends on what was written to the cache after the last commit, and so
on around the tick. `Coherent` says for every step of a tick what the loop
knows:

* `Dated`: the rows of an asset are ordered in time, none is of the future;
* `InTime`: a round that is not yet a row is newer than every row;
* `Guarded`: at `persist` the median is within the band of a *recent* row (the
  last acknowledged one or a later one) unless the guard was blind or there was
  no row; at `seed` the row in hand is still the last one;
* `Settled`: between the commit and the publication the round is the last row;
* `Tracks`: the cache holds the median of a recent row;
* `Sighted`: a process with an empty cache has had no row acknowledged;
* `Announced`: the feed lacks at most the row being published;
* `Band`, `OneBlind`: the properties themselves, per entry.

`NeverDisarmed` is inductive on top of `Coherent` (`CommitArmed`): a new row was judged
by a recent one; if that is positive the new one is (`BandKeepsSign`, for a band below
100 %), and if it is not, the property held of it before.

That an asset has one loop is used in one place: a step of another entry leaves
the rows and the cache of this one alone (`LoopSpares`). Each step of the
loop's own is a lemma (`...Keeps`). `CacheFromRows` and `FeedFromRows` are
proved without `UniqueIds`, from `Traced`: what a loop is about to cache or to
publish is in the table (`Carries`), where it stays, and no two rounds have one
time (`Apart`), so none is announced twice. `StopIsFinal` proves `QuietAfterStop`: when
Stop has returned every loop is done.

It also proves `PromiseKept`, `Spec => ImplementsPriceFeed`, under
`UniqueIds`: a commit is an `Accept`, whose guard is `Guarded`; a commit that
lands late is a `Surface`; a publication is an `Announce`, by `Settled` and
`Announced`; every other step leaves table and feed alone.

`BusProofs` proves `TypeOK`, `NeverSendsOnClosed`, `Accounted` and `InOrder`
for any number of publishers and subscriptions. The invariant says that a
publisher has only registered channels left, and none once it has given the
lock back (`Reaching`), so a cancel, which holds the write lock, finds nobody
about to send; and that what a publisher has still to offer is newer than
everything of its own in that channel.

`PriceStreamProofs` proves `NeverGoesBack`, `GetPriceNotBehind`, `TailComplete`
and `UsesBus` for any assets, requests, rows, buffer and number of streams. The
bus's invariant is taken over from `BusProofs`, instantiated with the loops as
publishers and the streams as subscribers; what is added says by loop what it
has acknowledged and not yet announced (`Round`), and by stream

* `Placed`: where the handler is, the subscription is too;
* `Known`: what the client was shown, the price in hand included, is in the
  table, and was the first of its asset or came by the bus;
* `Ahead`: shown, in hand, waiting in the channel: in this order an asset's
  rows never go back, and one that is still to be offered is not older;
* `Owed`: an acknowledged round of a wanted asset is from before the
  subscription, held, or not yet offered to this channel.

That snapshot and tail fit together rests on one thing about the bus: when
`Register` takes the write lock nobody is publishing, so a row that is
announced after it is not older than any that the snapshot can have read. The same
round may come by both ways, hence "not older".

`LifecycleProofs` proves `PoolOutlivesUsers` and `EveryModuleStopped` for any
set of configurations and any number of assets, calls, probes and connections.
The inductive invariant, `Orderly`, follows the main goroutine: the modules
stand in one order (`InOrder`), the pool is open from the `Init` of the first of
them to its `Stop` (`PoolStage`), there is no loop before the second has started
or after it has stopped (`LoopStage`), and no call before the third has started
or after it has stopped (`CallStage`). That no call comes in during or after the
drain is part of `CallStage` (`Refusing`): without it a call could
arrive between the drain and the close of the pool.
`BrokenIsNotReady` follows from `Failed`: the flag goes up once, before any
`Serve` can fail, and stays down after. `LoopsAreConfigured` follows from
`Checked` (each step of `App.Init` has checked its part of the configuration,
which never changes) and from `KindsFit`: the table of names and the switch over
classes, which the code keeps apart, agree. `DefaultsSuffice` is about one
configuration with any of its assets, among any others: every check of start-up
lets it pass (`ShippedIsValid`), so what fails is the database or the port.

`RepositoryProofs` proves `RoundsAreWhole` (`AllOrNothing`) and
`StoreImplemented`, `Spec => ImplementsStore`, for any callers, rounds,
breakdowns and size of the pool. The invariant says by caller what its
transaction holds (`Stage`: some of the raw rows of its round, then all, then the
round whole), that an orphan holds a whole round (`Orphaned`), that the
tables are made of whole rounds, and that every asset with a row has a latest
one (`Tables`; without it `LatestOf` would be a choice from nothing).
The heart of the refinement is `LatestAfter`: a round that lands, in
whatever order, becomes the latest exactly if it is later than the one before.
Since the table compares times cut to microseconds and `Store` whole ones, it
needs `StampOrders`: the cut keeps the order of times that it keeps apart.

`ReadsReturnRounds` proves `ReadsWhatWasStreamed`. A row is that of the round
whose number it carries (`Numbered`, part of the invariant: the property finds the
streamed round by it), so the claim is one about the conversions. It rests on the
division of an instant into whole seconds and a rest (`StampSplits`: cutting to
microseconds leaves the seconds alone, which is why `WireAssumption` asks
that a second is a whole number of microseconds), and on the two tables
of source kinds being inverse (`KindsReturn`). `HistoriesAgree` proves
`HistoryStartsWithLatest`: `ORDER BY` leaves the order of rows with equal times
open, and `GetHistory` is a choice among the lists it allows; since no two rows of
an asset have one time there is but one such list, and a limit cuts it.

`SourcesProofs` proves `UsableAnswers` adapter by adapter (`coingeckoSound` and so
on), for any answer of the shapes in `Bodies`, and `RateHeld` for any number
of fetches. The limiter keeps one number, `spent`, and gives a token back only if
none was taken after it. The invariant, `Spaced`, lays the tokens on a line of
time: every request has used, and every waiting fetch holds, a token with a
place of its own, an interval from every other and none after `spent`; a request
goes out at the place of its token or at most the burst later. A token given
back is then the last on the line, and taking it off leaves the others
behind the new `spent`. That the rate holds is counting: the places of the
requests in a stretch of time fall into different intervals (`RateFollows`).

Assumptions on constants: `ConfigAssumption` (what `Scheme.Validate` checks of
the aggregation section), `LifecycleAssumption` (at least one connection, no
configuration longer than `MaxAssets`, whole numbers as thresholds), `RepositoryAssumption` (no two rounds in
one microsecond, times after the epoch, a round has an answer), `WireAssumption`
(a second is whole microseconds; an unset timestamp is none), `SourcesAssumption`
and `RepliesAssumption` (a body that can be read has the shape its adapter
unmarshals it into), `DefaultsAssumption` (the ids of the shipped assets are canonical),
`BusAssumption`, `RequestsAssumption` (requests are
lists of assets, or of an identifier that no asset has), `EntriesAssumption` and `BoundsAssumption` (types). TLC evaluates them in the runs of their modules.

Left to TLC: liveness, which these provers do not do (`KeepsTicking`,
`StopTerminates`, `NobodyWaitsForSubscribers`, `LeaversForgotten`, `StopEnds`,
`PoolServes`, `FetchEnds`).

## 5. Findings

* `agg_twins`: with an asset listed twice, which nothing refuses, the cache can
  be set back to an older price.
* `agg_ready`: healthy after a restart without a successful tick.
* `stream_gap`: a round between the snapshot's query and the subscription is
  lost to the client.
* `life_bound`: a stop that a single client can hold up for ever.

Met while reading, and not the subject of a run:

* `alpha_vantage.go:128` takes a rate of zero as a price, though
  `adapter.go:27-28` asks for `ErrNoData` where there is no usable one. A round
  with a median of zero passes the guard only if there was no positive last price to judge it
  by (`NeverDisarmed`), and then switches it off for the next (`aggregator.go:115`).
* `strconv.ParseFloat` reads `NaN`, which fails every comparison of the adapters;
  `json.Marshal` then refuses the breakdown and the round is lost
  (`Wire`: `Encodes`).
* Of the default Uniswap pools, those of LINK, UNI and AAVE have WETH on the
  other side, so the adapter, which wants a stablecoin, always answers `ErrNoData`.
* A source that hangs lets the tick's context expire, which `getLast` and
  `PersistRound` share: a round whose other sources have answered is lost
  with it.
* A stream carries times in full, `GetPrice` in whole seconds, for the same
  round.

## 6. Plan

What is left, in this order:

1. Theorems about the abstract specifications alone: what `PriceFeed` and `Store`
   promise, stated once and inherited through the refinements.
2. A composition of `PriceFeed` with `PriceStream`, which now takes over
   `FeedMirrorsRows` as the way its rounds come.

Not modelled: the logger, the version and the command line, which keep no state
that anything reads; generated protobuf code; SQL beyond the two tables and the
two reads; and the parsing of each upstream's JSON beyond its outcomes. One
hazard has no property, because the code does what it would forbid: a real jump
of the price beyond the band blocks an asset until the price returns. Another is
covered in part: `Repository` takes rounds in any order of their times, but
`Aggregator` assumes a wall clock that is not stepped back.
