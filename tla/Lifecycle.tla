----------------------------- MODULE Lifecycle -----------------------------
(***************************************************************************)
(* The process from its start to its exit: App.Init, Manager.StartAll, the *)
(* signal, Manager.StopAll; and those the modules serve or run, each of    *)
(* which may hold a connection of the pool: the aggregation loops, the     *)
(* gRPC calls and the readiness probes.                                    *)
(***************************************************************************)
EXTENDS Config, FiniteSets

CONSTANTS
    Schemes,     \* the configurations the process may be given
    MaxAssets,   \* the longest list of assets in Schemes
    Calls,       \* gRPC calls
    Unary,       \* the unary ones, GetPrice or Check; the others are streams
    Probes,      \* requests for /readyz
    MaxConns     \* size of the pool

ASSUME LifecycleAssumption ==
    /\ \A scheme \in Schemes :
          scheme.minSources \in Int /\ scheme.maxDeviation \in Int /\ Len(scheme.assets) <= MaxAssets
    /\ Unary \subseteq Calls /\ MaxConns \in Nat \ {0}

Loops == 1..MaxAssets

VARIABLES
    config,     \* App.config
    main,       \* what the main goroutine is doing
    at,         \* the module it is doing it to, or the step of App.Init
    modules,    \* Manager.modules, by name
    stopErr,    \* StopAll has met an error
    pool,       \* the pool of connections
    holders,    \* who holds a connection
    cancelled,  \* the loops' context is done
    loop,       \* loop[i]: where the loop of the i-th entry is
    warm,       \* lastPrice is not empty
    grpc,       \* the gRPC server
    running,    \* Server.running
    call,       \* call[c]: where the handler of c is
    gone,       \* the streams whose client has left
    http,       \* the health server
    listening,  \* its flag, which only its own HealthCheck reads
    probe,      \* probe[p]: where the handler of p is
    late        \* history: the probes that came after Serve had failed

mainVars == <<config, main, at, modules, stopErr>>
poolVars == <<pool, holders>>
loopVars == <<cancelled, loop, warm>>
grpcVars == <<grpc, running, call, gone>>
httpVars == <<http, listening, probe, late>>
vars == <<mainVars, poolVars, loopVars, grpcVars, httpVars>>

Names == {"repository", "aggregator", "grpc", "healthz"}

TypeOK ==
    /\ config \in Schemes
    /\ main \in {"init", "start", "serve", "stop", "stopped", "failed", "killed"}
    /\ at \in 0..5 /\ stopErr \in BOOLEAN
    /\ modules \in Seq(Names) /\ Len(modules) <= 4
    /\ pool \in {"none", "open", "closing", "closed"}
    /\ holders \subseteq Loops \cup Calls \cup Probes
    /\ cancelled \in BOOLEAN /\ warm \in BOOLEAN /\ running \in BOOLEAN
    /\ listening \in BOOLEAN
    /\ loop \in [Loops -> {"none", "idle", "tick", "query", "done"}]
    /\ grpc \in {"none", "bound", "serving", "failing", "broken", "draining", "stopped"}
    /\ call \in [Calls -> {"none", "open", "query", "tail", "done"}]
    /\ gone \subseteq Calls
    /\ http \in {"none", "starting", "serving", "broken", "closing", "closed"}
    /\ probe \in [Probes -> {"none", "asked", "ping", "pinged", "ready", "unready"}]
    /\ late \subseteq Probes

Init ==
    /\ config \in Schemes
    /\ main = "init" /\ at = 0 /\ modules = << >> /\ stopErr = FALSE
    /\ pool = "none" /\ holders = {}
    /\ cancelled = FALSE /\ loop = [i \in Loops |-> "none"] /\ warm = FALSE
    /\ grpc = "none" /\ running = FALSE
    /\ call = [c \in Calls |-> "none"] /\ gone = {}
    /\ http = "none" /\ listening = FALSE /\ probe = [p \in Probes |-> "none"] /\ late = {}

-----------------------------------------------------------------------------
(* App.Init.                                                               *)

\* RunE returns an error; cobra then skips PostRun, and with it App.Stop.
InitFails == main' = "failed" /\ UNCHANGED <<config, at, modules, stopErr>>

Initialised(name) ==
    /\ modules' = Append(modules, name)
    /\ at' = at + 1
    /\ UNCHANGED <<config, main, stopErr>>

InitConfig ==
    /\ main = "init" /\ at = 0
    /\ IF Validate(config)
       THEN at' = 1 /\ UNCHANGED <<config, main, modules, stopErr>>
       ELSE InitFails
    /\ UNCHANGED <<poolVars, loopVars, grpcVars, httpVars>>

\* The pool is kept only if the database answers a ping.
InitRepository ==
    /\ main = "init" /\ at = 1
    /\ \/ Initialised("repository") /\ pool' = "open"
       \/ InitFails /\ UNCHANGED pool
    /\ UNCHANGED <<holders, loopVars, grpcVars, httpVars>>

InitAggregator ==
    /\ main = "init" /\ at = 2
    /\ IF NewRegistry(config) /\ parseAssets(config)
       THEN Initialised("aggregator")
       ELSE InitFails
    /\ UNCHANGED <<poolVars, loopVars, grpcVars, httpVars>>

\* The listener is bound here, if the port is free.
InitGRPC ==
    /\ main = "init" /\ at = 3
    /\ \/ config.timeout /\ Initialised("grpc") /\ grpc' = "bound"
       \/ InitFails /\ UNCHANGED grpc
    /\ UNCHANGED <<poolVars, loopVars, running, call, gone, httpVars>>

InitHealthz ==
    /\ main = "init" /\ at = 4
    /\ modules' = Append(modules, "healthz")
    /\ main' = "start" /\ at' = 1
    /\ UNCHANGED <<config, stopErr, poolVars, loopVars, grpcVars, httpVars>>

-----------------------------------------------------------------------------
(* Manager.StartAll, and the servers' goroutines.                          *)

Starting(name) == main = "start" /\ at \in DOMAIN modules /\ modules[at] = name

Started == at' = at + 1 /\ UNCHANGED <<config, main, modules, stopErr>>

StartRepository ==
    /\ Starting("repository") /\ Started
    /\ UNCHANGED <<poolVars, loopVars, grpcVars, httpVars>>

\* One loop for each entry, with its first tick.
StartAggregator ==
    /\ Starting("aggregator") /\ Started
    /\ loop' = [i \in Loops |-> IF i <= Len(config.assets) THEN "tick" ELSE "none"]
    /\ UNCHANGED <<poolVars, cancelled, warm, grpcVars, httpVars>>

\* MarkRunning, then a goroutine that serves.
StartGRPC ==
    /\ Starting("grpc") /\ Started
    /\ running' = TRUE
    /\ grpc' = "serving"
    /\ UNCHANGED <<poolVars, loopVars, call, gone, httpVars>>

StartHealthz ==
    /\ Starting("healthz") /\ Started
    /\ http' = "starting"
    /\ UNCHANGED <<poolVars, loopVars, grpcVars, listening, probe, late>>

\* The goroutine of healthz; that it cannot listen is only logged.
HTTPListens ==
    /\ http = "starting"
    /\ http' \in {"serving", "broken"}
    /\ listening' = TRUE
    /\ UNCHANGED <<mainVars, poolVars, loopVars, grpcVars, probe, late>>

\* ListenAndServe returns: it could not listen, or Shutdown was called.
HTTPReturns ==
    /\ http \in {"broken", "closing", "closed"} /\ listening = TRUE
    /\ listening' = FALSE
    /\ UNCHANGED <<mainVars, poolVars, loopVars, grpcVars, http, probe, late>>

\* Accept fails for good.
ServeFails ==
    /\ grpc = "serving"
    /\ grpc' = "failing"
    /\ UNCHANGED <<mainVars, poolVars, loopVars, running, call, gone, httpVars>>

\* Mutant: Serve returns without resetting the flag.
StaysRunning ==
    /\ grpc = "failing"
    /\ grpc' = "broken"
    /\ UNCHANGED <<mainVars, poolVars, loopVars, running, call, gone, httpVars>>

\* Serve returns: when it fails, or once GracefulStop is through.
ServeReturns ==
    /\ \/ grpc = "failing"
       \/ grpc = "stopped" /\ running
    /\ grpc' = IF grpc = "failing" THEN "broken" ELSE grpc
    /\ running' = FALSE
    /\ UNCHANGED <<mainVars, poolVars, loopVars, call, gone, httpVars>>

-----------------------------------------------------------------------------
(* The signal and Manager.StopAll.                                         *)

ServeBegins ==
    /\ main = "start" /\ at = Len(modules) + 1
    /\ main' = "serve"
    /\ UNCHANGED <<config, at, modules, stopErr, poolVars, loopVars, grpcVars, httpVars>>

\* Before App.Serve asks for signals one ends the process; the one it waits
\* for makes it stop; a later one goes unnoticed.
Signal ==
    /\ \/ main \in {"init", "start"} /\ main' = "killed" /\ UNCHANGED at
       \/ main = "serve" /\ main' = "stop" /\ at' = Len(modules)
    /\ UNCHANGED <<config, modules, stopErr, poolVars, loopVars, grpcVars, httpVars>>

Stopping(name) == main = "stop" /\ at \in DOMAIN modules /\ modules[at] = name

\* Mutant: the first error ends the loop over the modules.
NextUnlessFailed(failed) ==
    /\ stopErr' = (stopErr \/ failed)
    /\ at' = IF failed THEN 0 ELSE at - 1
    /\ main' = IF at = 1 \/ failed THEN "stopped" ELSE main
    /\ UNCHANGED <<config, modules>>

\* The next module in reverse order, whatever this one's Stop returned.
StopNext(failed) ==
    /\ stopErr' = (stopErr \/ failed)
    /\ at' = at - 1
    /\ main' = IF at = 1 THEN "stopped" ELSE main
    /\ UNCHANGED <<config, modules>>

StopHealthz ==
    /\ Stopping("healthz") /\ http # "closing"
    /\ http' = "closing"
    /\ UNCHANGED <<mainVars, poolVars, loopVars, grpcVars, listening, probe, late>>

Asked(p) == probe[p] \in {"asked", "ping", "pinged"}

\* Shutdown waits for the requests under way, but not for long.
HealthzStops ==
    /\ Stopping("healthz") /\ http = "closing"
    /\ http' = "closed"
    /\ StopNext(\E p \in Probes : Asked(p))
    /\ UNCHANGED <<poolVars, loopVars, grpcVars, listening, probe, late>>

StopGRPC ==
    /\ Stopping("grpc") /\ grpc # "draining"
    /\ grpc' = "draining"
    /\ UNCHANGED <<mainVars, poolVars, loopVars, running, call, gone, httpVars>>

\* Mutant: the server is stopped without waiting for its calls.
StopsAtOnce ==
    /\ Stopping("grpc") /\ grpc = "draining"
    /\ grpc' = "stopped"
    /\ StopNext(FALSE)
    /\ UNCHANGED <<poolVars, loopVars, running, call, gone, httpVars>>

\* GracefulStop waits for the calls under way, as long as they take.
GRPCStops ==
    /\ Stopping("grpc") /\ grpc = "draining"
    /\ \A c \in Calls : call[c] \in {"none", "done"}
    /\ grpc' = "stopped"
    /\ StopNext(FALSE)
    /\ UNCHANGED <<poolVars, loopVars, running, call, gone, httpVars>>

StopAggregator ==
    /\ Stopping("aggregator") /\ ~ cancelled
    /\ cancelled' = TRUE
    /\ UNCHANGED <<mainVars, poolVars, loop, warm, grpcVars, httpVars>>

\* wg.Wait
AggregatorStops ==
    /\ Stopping("aggregator") /\ cancelled
    /\ \A i \in Loops : loop[i] \in {"none", "done"}
    /\ StopNext(FALSE)
    /\ UNCHANGED <<poolVars, loopVars, grpcVars, httpVars>>

StopRepository ==
    /\ Stopping("repository") /\ pool = "open"
    /\ pool' = "closing"
    /\ UNCHANGED <<mainVars, holders, loopVars, grpcVars, httpVars>>

\* Close waits until every connection has been given back.
RepositoryStops ==
    /\ Stopping("repository") /\ pool = "closing"
    /\ holders = {}
    /\ pool' = "closed"
    /\ StopNext(FALSE)
    /\ UNCHANGED <<holders, loopVars, grpcVars, httpVars>>

-----------------------------------------------------------------------------
(* The users of the pool.                                                  *)

Acquires(user) ==
    /\ pool = "open" /\ Cardinality(holders) < MaxConns
    /\ holders' = holders \cup {user}
    /\ UNCHANGED pool

Releases(user) == holders' = holders \ {user} /\ UNCHANGED pool

Alive == main \notin {"stopped", "failed", "killed"}

LoopGoes(i, from, to) ==
    /\ Alive
    /\ loop[i] = from
    /\ loop' = [loop EXCEPT ![i] = to]
    /\ UNCHANGED <<mainVars, cancelled, grpcVars, httpVars>>

TickBegins(i) == LoopGoes(i, "idle", "tick") /\ UNCHANGED <<poolVars, warm>>
LoopQueries(i) == LoopGoes(i, "tick", "query") /\ Acquires(i) /\ UNCHANGED warm

\* Mutant: a tick keeps its connection.
KeepsConnection(i) ==
    /\ LoopGoes(i, "query", "tick")
    /\ warm' \in {warm, TRUE}
    /\ UNCHANGED poolVars

\* A query or a transaction ends, at the latest with the context of the tick;
\* lastPrice may have been set.
LoopQueryEnds(i) ==
    /\ LoopGoes(i, "query", "tick")
    /\ Releases(i)
    /\ warm' \in {warm, TRUE}

TickEnds(i) == LoopGoes(i, "tick", "idle") /\ UNCHANGED <<poolVars, warm>>

LoopExits(i) ==
    /\ cancelled
    /\ LoopGoes(i, "idle", "done")
    /\ UNCHANGED <<poolVars, warm>>

CallGoes(c, from, to) ==
    /\ Alive
    /\ call[c] = from
    /\ call' = [call EXCEPT ![c] = to]
    /\ UNCHANGED <<mainVars, loopVars, grpc, running, httpVars>>

\* A new call comes in, over a new connection or, when Accept has failed, an
\* old one.
CallArrives(c) ==
    /\ grpc \in {"serving", "failing", "broken"}
    /\ CallGoes(c, "none", "open")
    /\ UNCHANGED <<poolVars, gone>>

CallQueries(c) == CallGoes(c, "open", "query") /\ Acquires(c) /\ UNCHANGED gone
CallQueryEnds(c) == CallGoes(c, "query", "tail") /\ Releases(c) /\ UNCHANGED gone

\* A call of the health service (SERVING is set once and for all) or of
\* reflection, or a snapshot without a query that succeeds: no connection.
CallServed(c) == CallGoes(c, "open", "tail") /\ UNCHANGED <<poolVars, gone>>

\* The request is refused, or its context ends before there is a connection.
CallRefused(c) == CallGoes(c, "open", "done") /\ UNCHANGED <<poolVars, gone>>

\* GetPrice returns what it read, a health Check at once; the tail of a Subscribe
\* or of a health Watch ends with its client only.
CallReturns(c) ==
    /\ c \in Unary \/ c \in gone
    /\ CallGoes(c, "tail", "done")
    /\ UNCHANGED <<poolVars, gone>>

\* The client of a stream (one that is dead is noticed by the keepalive); that of
\* a unary call makes no difference.
ClientLeaves(c) ==
    /\ Alive /\ call[c] \in {"query", "tail"} /\ c \notin Unary \cup gone
    /\ gone' = gone \cup {c}
    /\ UNCHANGED <<mainVars, poolVars, loopVars, grpc, running, call, httpVars>>

ProbeGoes(p, from, to) ==
    /\ Alive
    /\ probe[p] = from
    /\ probe' = [probe EXCEPT ![p] = to]
    /\ UNCHANGED <<mainVars, loopVars, grpcVars, http, listening>>

ProbeArrives(p) ==
    /\ http = "serving"
    /\ ProbeGoes(p, "none", "asked")
    /\ late' = IF grpc = "broken" THEN late \cup {p} ELSE late
    /\ UNCHANGED poolVars

ProbePings(p) == ProbeGoes(p, "asked", "ping") /\ Acquires(p) /\ UNCHANGED late
PingReturns(p) == ProbeGoes(p, "ping", "pinged") /\ Releases(p) /\ UNCHANGED late

\* No connection, no answer, or no longer anyone who waits for it.
PingFails(p) ==
    /\ \E from \in {"asked", "ping"} : ProbeGoes(p, from, "unready")
    /\ Releases(p)
    /\ UNCHANGED late

\* handleReadyz, with the aggregator's and the gRPC module's HealthCheck.
ProbeAnswers(p) ==
    /\ ProbeGoes(p, "pinged", IF warm /\ running THEN "ready" ELSE "unready")
    /\ UNCHANGED <<poolVars, late>>

-----------------------------------------------------------------------------

AppInit == InitConfig \/ InitRepository \/ InitAggregator \/ InitGRPC \/ InitHealthz
StartAll == StartRepository \/ StartAggregator \/ StartGRPC \/ StartHealthz \/ ServeBegins
StopAll ==
    \/ StopHealthz \/ HealthzStops
    \/ StopGRPC \/ GRPCStops
    \/ StopAggregator \/ AggregatorStops
    \/ StopRepository \/ RepositoryStops

Tick(i) == LoopQueries(i) \/ LoopQueryEnds(i) \/ TickEnds(i)
Call(c) == CallQueries(c) \/ CallQueryEnds(c) \/ CallServed(c) \/ CallRefused(c) \/ CallReturns(c)
Readyz(p) == ProbePings(p) \/ PingReturns(p) \/ PingFails(p) \/ ProbeAnswers(p)

Next ==
    \/ AppInit \/ StartAll \/ Signal \/ StopAll
    \/ HTTPListens \/ HTTPReturns \/ ServeFails \/ ServeReturns
    \/ \E i \in Loops : TickBegins(i) \/ Tick(i) \/ LoopExits(i)
    \/ \E c \in Calls : CallArrives(c) \/ Call(c) \/ ClientLeaves(c)
    \/ \E p \in Probes : ProbeArrives(p) \/ Readyz(p)

Spec == Init /\ [][Next]_vars

-----------------------------------------------------------------------------
(* Safety.                                                                 *)

Working(u) ==
    \/ u \in Loops /\ loop[u] \notin {"none", "done"}
    \/ u \in Calls /\ call[u] \notin {"none", "done"}

\* The pool is open as long as a loop or a call may use it: modules start in
\* the order of their dependencies, stop in reverse, and each Stop waits for
\* its own (application.go: Init; manager.go: StopAll).
PoolOutlivesUsers == (\E u \in Loops \cup Calls : Working(u)) => pool = "open"

\* Whatever a Stop reports, an orderly exit has stopped every module: no loop
\* and no call was cut short, and no connection is left (manager.go: StopAll).
EveryModuleStopped ==
    main = "stopped" =>
        /\ pool = "closed" /\ holders = {}
        /\ ~ \E u \in Loops \cup Calls : Working(u)

\* A probe that comes after the gRPC server has given up is never told that
\* the service is ready (grpc/server.go: Serve; healthz: handleReadyz).
BrokenIsNotReady == \A p \in late : probe[p] # "ready"

\* Loops run only under a configuration that Aggregator may assume: positive
\* thresholds and intervals, and for each asset sources of its own class.
LoopsAreConfigured ==
    (\E i \in Loops : loop[i] # "none") =>
        /\ config.minSources > 0
        /\ config.maxDeviation \in 1..100
        /\ \A asset \in ToSet(config.assets) :
              /\ asset.refreshIntervalSec > 0
              /\ DOMAIN asset.symbols # {}
              /\ DOMAIN asset.symbols \subseteq IF asset.class = "crypto" THEN Crypto ELSE RWA

\* Supplied, with some of its assets, in any order.
Shipped(scheme) ==
    /\ scheme.assets # << >> /\ ToSet(scheme.assets) \subseteq ToSet(defaultAssets)
    /\ scheme = [Supplied EXCEPT !.assets = scheme.assets]

\* The shipped defaults with a password and the keys of the sources they enable
\* are enough, whichever of their assets are kept: start-up then fails for the
\* database or the port only (config/init.go: setDefaults, Validate).
DefaultsSuffice == main = "failed" /\ Shipped(config) => at \in {1, 3}

-----------------------------------------------------------------------------
(* Liveness.                                                               *)

\* Goroutines run, a tick makes but a few queries, the deadlines of
\* ticks and of Shutdown pass, the database answers calls, probers do not wait
\* for ever, and select is fair.
Fairness ==
    /\ WF_vars(AppInit \/ StartAll \/ StopAll)
    /\ WF_vars(HTTPListens \/ HTTPReturns) /\ WF_vars(ServeReturns)
    /\ \A i \in Loops :
          WF_vars(LoopQueryEnds(i)) /\ SF_vars(TickEnds(i)) /\ SF_vars(LoopExits(i))
    /\ \A c \in Calls :
          SF_vars(CallQueries(c)) /\ WF_vars(CallQueryEnds(c) \/ CallReturns(c))
    /\ \A p \in Probes : WF_vars(PingFails(p) \/ ProbeAnswers(p))

FairSpec == Spec /\ Fairness

\* Moreover, the clients of calls leave one day.
LeavingSpec == FairSpec /\ \A c \in Calls : WF_vars(ClientLeaves(c))

\* application.go:137: "Stop drives StopAll with a bounded shutdown
\* deadline."  Once told to stop, the process comes to an orderly exit.
StopEnds == main = "stop" ~> main = "stopped"

=============================================================================
