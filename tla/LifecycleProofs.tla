-------------------------- MODULE LifecycleProofs --------------------------
(***************************************************************************)
(* However many assets, calls, probes and connections there are, the pool  *)
(* outlives its users, and an orderly exit leaves nothing behind.          *)
(***************************************************************************)
EXTENDS Lifecycle, FiniteSetTheorems, SequenceTheorems, TLAPS

Order == <<"repository", "aggregator", "grpc", "healthz">>

\* The modules are registered, started and stopped in one order.
InOrder ==
    /\ main = "init" => at \in 0..4 /\ Len(modules) = IF at = 0 THEN 0 ELSE at - 1
    /\ main \in {"start", "serve", "stop"} => Len(modules) = 4
    /\ main = "start" => at \in 1..5
    /\ main = "stop" => at \in 1..4
    /\ Len(modules) \in 0..4
    /\ \A i \in 1..Len(modules) : modules[i] = Order[i]

\* The pool is there from its module's Init to its module's Stop.
PoolStage ==
    /\ main = "init" => pool = IF at \in {0, 1} THEN "none" ELSE "open"
    /\ main \in {"start", "serve"} => pool = "open"
    /\ main = "stop" => pool = "open" \/ (pool = "closing" /\ at = 1)
    /\ main = "stopped" => pool = "closed" /\ holders = {}

NoLoop == \A i \in Loops : loop[i] \in {"none", "done"}
NoCall == \A c \in Calls : call[c] \in {"none", "done"}
Refusing == grpc \notin {"serving", "failing", "broken"}

\* The users of the pool, before they start and after they have stopped.
LoopStage ==
    \/ main \in {"init", "failed", "stopped"}
    \/ main = "start" /\ at \in {1, 2}
    \/ main = "stop" /\ at = 1
    => NoLoop

CallStage ==
    \/ main \in {"init", "failed", "stopped"}
    \/ main = "start" /\ at \in {1, 2, 3}
    \/ main = "stop" /\ at \in {1, 2}
    => NoCall /\ Refusing

Bounded == IsFiniteSet(holders) /\ Cardinality(holders) <= MaxConns

Stages == InOrder /\ PoolStage /\ LoopStage /\ CallStage /\ PoolOutlivesUsers

\* The inductive invariant.
Orderly == TypeOK /\ Bounded /\ Stages

LEMMA AcquiresKeeps ==
    ASSUME LifecycleAssumption, Bounded, NEW user, Acquires(user)
    PROVE  Bounded'
<1>1. IsFiniteSet(holders) /\ Cardinality(holders) \in Nat /\ Cardinality(holders) < MaxConns
  BY FS_CardinalityType DEF Bounded, Acquires
<1>2. /\ IsFiniteSet(holders \cup {user})
      /\ Cardinality(holders \cup {user}) \in {Cardinality(holders), Cardinality(holders) + 1}
  BY <1>1, FS_AddElement
<1>3. holders' = holders \cup {user}
  BY DEF Acquires
<1> QED BY <1>1, <1>2, <1>3 DEF LifecycleAssumption, Bounded

LEMMA ReleasesKeeps ==
    ASSUME LifecycleAssumption, Bounded, NEW user, Releases(user)
    PROVE  Bounded'
<1>1. /\ IsFiniteSet(holders \ {user})
      /\ Cardinality(holders \ {user}) \in Nat
      /\ Cardinality(holders) \in Nat
      /\ Cardinality(holders \ {user}) <= Cardinality(holders)
  BY FS_Subset, FS_CardinalityType DEF Bounded
<1> QED BY <1>1 DEF LifecycleAssumption, Bounded, Releases

LEMMA InitTyped ==
    ASSUME TypeOK, InOrder, AppInit
    PROVE  TypeOK'
<1> DEFINE early == main = "init" /\ at \in 0..4
<1>a. ASSUME NEW name \in Names, early, at > 0, modules' = Append(modules, name)
      PROVE  modules' \in Seq(Names) /\ Len(modules') <= 4
  BY <1>a DEF TypeOK, InOrder
<1>1. CASE InitConfig
  <2>1. main' \in {"init", "failed"} /\ at' \in 0..1 /\ UNCHANGED <<config, modules, stopErr>>
    BY <1>1 DEF InitConfig, InitFails
  <2> QED BY <1>1, <2>1 DEF InitConfig, TypeOK, poolVars, loopVars, grpcVars, httpVars
<1>2. CASE InitRepository
  BY <1>2, <1>a DEF InitRepository, InitFails, Initialised, TypeOK, Names, poolVars, loopVars, grpcVars, httpVars
<1>3. CASE InitAggregator
  <2>1. \/ Initialised("aggregator")
        \/ InitFails
    BY <1>3 DEF InitAggregator
  <2> QED BY <1>3, <2>1, <1>a DEF InitAggregator, InitFails, Initialised, TypeOK, Names, poolVars, loopVars, grpcVars, httpVars
<1>4. CASE InitGRPC
  BY <1>4, <1>a DEF InitGRPC, InitFails, Initialised, TypeOK, Names, poolVars, loopVars, grpcVars, httpVars
<1>5. CASE InitHealthz
  BY <1>5, <1>a DEF InitHealthz, TypeOK, Names, poolVars, loopVars, grpcVars, httpVars
<1> QED BY <1>1, <1>2, <1>3, <1>4, <1>5 DEF AppInit

LEMMA MainTyped ==
    ASSUME TypeOK, InOrder, StartAll \/ Signal \/ StopAll
    PROVE  TypeOK'
<1> USE DEF TypeOK, mainVars, poolVars, loopVars, grpcVars, httpVars
<1>1. CASE StartRepository
  BY <1>1 DEF StartRepository, Starting, Started, InOrder
<1>2. CASE StartAggregator
  BY <1>2 DEF StartAggregator, Starting, Started, InOrder
<1>3. CASE StartGRPC
  BY <1>3 DEF StartGRPC, Starting, Started, InOrder
<1>4. CASE StartHealthz
  BY <1>4 DEF StartHealthz, Starting, Started, InOrder
<1>5. CASE ServeBegins
  BY <1>5 DEF ServeBegins
<1>6. CASE Signal
  BY <1>6 DEF Signal, InOrder
<1>7. CASE StopHealthz
  BY <1>7 DEF StopHealthz
<1>11. CASE HealthzStops
  BY <1>11 DEF HealthzStops, Stopping, StopNext, InOrder
<1>8. CASE StopGRPC
  BY <1>8 DEF StopGRPC
<1>12. CASE GRPCStops
  BY <1>12 DEF GRPCStops, Stopping, StopNext, InOrder
<1>9. CASE StopAggregator
  BY <1>9 DEF StopAggregator
<1>13. CASE AggregatorStops
  BY <1>13 DEF AggregatorStops, Stopping, StopNext, InOrder
<1>10. CASE StopRepository
  BY <1>10 DEF StopRepository
<1>14. CASE RepositoryStops
  BY <1>14 DEF RepositoryStops, Stopping, StopNext, InOrder
<1> QED
  BY <1>1, <1>2, <1>3, <1>4, <1>5, <1>6, <1>7, <1>8, <1>9, <1>10,
     <1>11, <1>12, <1>13, <1>14 DEF StartAll, StopAll

-----------------------------------------------------------------------------
(* The steps of the servers and of the users of the pool.                  *)

ServerSteps == HTTPListens \/ HTTPReturns \/ ServeFails \/ ServeReturns
LoopSteps(i) == TickBegins(i) \/ Tick(i) \/ LoopExits(i)
CallSteps(c) == CallArrives(c) \/ Call(c) \/ ClientLeaves(c)
ProbeSteps(p) == ProbeArrives(p) \/ Readyz(p)

LEMMA ServersTyped ==
    ASSUME TypeOK, ServerSteps
    PROVE  TypeOK'
<1> USE DEF TypeOK, mainVars, poolVars, loopVars, grpcVars, httpVars
<1>1. CASE HTTPListens
  BY <1>1 DEF HTTPListens
<1>4. CASE HTTPReturns
  <2>1. listening' \in BOOLEAN
    BY <1>4, Zenon DEF HTTPReturns
  <2>2. UNCHANGED <<mainVars, poolVars, loopVars, grpcVars, http, probe, late>>
    BY <1>4, Zenon DEF HTTPReturns
  <2> QED BY <2>1, <2>2
<1>2. CASE ServeFails
  BY <1>2 DEF ServeFails
<1>3. CASE ServeReturns
  <2>1. grpc' = grpc \/ grpc' = "broken"
    BY <1>3, Zenon DEF ServeReturns
  <2>2. running' \in BOOLEAN
    BY <1>3, Zenon DEF ServeReturns
  <2>3. UNCHANGED <<mainVars, poolVars, loopVars, call, gone, httpVars>>
    BY <1>3, Zenon DEF ServeReturns
  <2>4. CASE grpc' = grpc
    BY <2>2, <2>3, <2>4
  <2>5. CASE grpc' = "broken"
    BY <2>2, <2>3, <2>5
  <2> QED BY <2>1, <2>4, <2>5, Zenon
<1> QED BY <1>1, <1>2, <1>3, <1>4 DEF ServerSteps

LEMMA LoopsTyped ==
    ASSUME LifecycleAssumption, TypeOK, Bounded, NEW i \in Loops, LoopSteps(i)
    PROVE  TypeOK' /\ Bounded'
<1>1. Bounded'
  <2>1. CASE LoopQueries(i)
    BY <2>1, AcquiresKeeps DEF LoopQueries
  <2>2. CASE LoopQueryEnds(i)
    BY <2>2, ReleasesKeeps DEF LoopQueryEnds
  <2>3. CASE TickBegins(i) \/ TickEnds(i) \/ LoopExits(i)
    BY <2>3 DEF TickBegins, TickEnds, LoopExits, Bounded, poolVars
  <2> QED BY <2>1, <2>2, <2>3 DEF LoopSteps, Tick
<1> USE DEF TypeOK, LoopGoes, mainVars, poolVars, grpcVars, httpVars
<1>3. CASE TickBegins(i) \/ TickEnds(i)
  BY <1>1, <1>3 DEF TickBegins, TickEnds
<1>6. CASE LoopExits(i)
  BY <1>1, <1>6 DEF LoopExits
<1>4. CASE LoopQueries(i)
  <2>1. holders' \subseteq Loops \cup Calls \cup Probes
    BY <1>4 DEF LoopQueries, Acquires
  <2>2. loop' \in [Loops -> {"none", "idle", "tick", "query", "done"}]
    BY <1>4 DEF LoopQueries
  <2>3. UNCHANGED <<mainVars, pool, cancelled, grpcVars, httpVars>>
    BY <1>4 DEF LoopQueries, Acquires
  <2>4. UNCHANGED warm
    BY <1>4, Zenon DEF LoopQueries
  <2> QED BY <1>1, <2>1, <2>2, <2>3, <2>4 DEF grpcVars
<1>5. CASE LoopQueryEnds(i)
  <2>1. holders' \subseteq Loops \cup Calls \cup Probes
    BY <1>5 DEF LoopQueryEnds, Releases
  <2>2. loop' \in [Loops -> {"none", "idle", "tick", "query", "done"}]
    BY <1>5 DEF LoopQueryEnds
  <2>3. UNCHANGED <<mainVars, pool, cancelled, grpcVars, httpVars>>
    BY <1>5 DEF LoopQueryEnds, Releases
  <2>4. warm' \in BOOLEAN
    <3>1. warm' \in {warm, TRUE}
      BY <1>5, Zenon DEF LoopQueryEnds
    <3> QED BY <3>1, Zenon
  <2> QED BY <1>1, <2>1, <2>2, <2>3, <2>4 DEF grpcVars
<1> QED BY <1>1, <1>3, <1>4, <1>5, <1>6 DEF LoopSteps, Tick

LEMMA CallsTyped ==
    ASSUME LifecycleAssumption, TypeOK, Bounded, NEW c \in Calls, CallSteps(c)
    PROVE  TypeOK' /\ Bounded'
<1>1. Bounded'
  <2>1. CASE CallQueries(c)
    BY <2>1, AcquiresKeeps DEF CallQueries
  <2>2. CASE CallQueryEnds(c)
    BY <2>2, ReleasesKeeps DEF CallQueryEnds
  <2>3. CASE CallArrives(c) \/ CallServed(c) \/ CallRefused(c) \/ CallReturns(c) \/ ClientLeaves(c)
    BY <2>3 DEF CallArrives, CallServed, CallRefused, CallReturns, ClientLeaves, Bounded, poolVars
  <2> QED BY <2>1, <2>2, <2>3 DEF CallSteps, Call
<1> USE DEF TypeOK, CallGoes, mainVars, poolVars, loopVars, httpVars
<1>3. CASE CallArrives(c) \/ CallServed(c) \/ CallRefused(c) \/ CallReturns(c)
  BY <1>1, <1>3 DEF CallArrives, CallServed, CallRefused, CallReturns
<1>4. CASE CallQueries(c)
  BY <1>1, <1>4 DEF CallQueries, Acquires
<1>5. CASE CallQueryEnds(c)
  BY <1>1, <1>5 DEF CallQueryEnds, Releases
<1>6. CASE ClientLeaves(c)
  BY <1>1, <1>6 DEF ClientLeaves
<1> QED BY <1>1, <1>3, <1>4, <1>5, <1>6 DEF CallSteps, Call

LEMMA ProbesTyped ==
    ASSUME LifecycleAssumption, TypeOK, Bounded, NEW p \in Probes, ProbeSteps(p)
    PROVE  TypeOK' /\ Bounded'
<1>1. Bounded'
  <2>1. CASE ProbePings(p)
    BY <2>1, AcquiresKeeps DEF ProbePings
  <2>2. CASE PingReturns(p) \/ PingFails(p)
    BY <2>2, ReleasesKeeps DEF PingReturns, PingFails
  <2>3. CASE ProbeArrives(p) \/ ProbeAnswers(p)
    BY <2>3 DEF ProbeArrives, ProbeAnswers, Bounded, poolVars
  <2> QED BY <2>1, <2>2, <2>3 DEF ProbeSteps, Readyz
<1> USE DEF TypeOK, ProbeGoes, mainVars, poolVars, loopVars, grpcVars
<1>3. CASE ProbeArrives(p)
  BY <1>1, <1>3 DEF ProbeArrives
<1>4. CASE ProbePings(p)
  BY <1>1, <1>4 DEF ProbePings, Acquires
<1>5. CASE PingReturns(p) \/ PingFails(p)
  BY <1>1, <1>5 DEF PingReturns, PingFails, Releases
<1>6. CASE ProbeAnswers(p)
  BY <1>1, <1>6 DEF ProbeAnswers
<1> QED BY <1>1, <1>3, <1>4, <1>5, <1>6 DEF ProbeSteps, Readyz

-----------------------------------------------------------------------------
(* The steps of the users keep to the stages: only those that work already *)
(* move, or calls that come in while the server serves.                    *)

LEMMA UsersNeedPool == PoolOutlivesUsers <=> (pool = "open" \/ (NoLoop /\ NoCall))
BY DEF PoolOutlivesUsers, Working, NoLoop, NoCall

LEMMA UsersNeedPoolNext ==
    PoolOutlivesUsers' <=> (pool' = "open" \/ (NoLoop' /\ NoCall'))
BY DEF PoolOutlivesUsers, Working, NoLoop, NoCall

LEMMA ServersInStage ==
    ASSUME TypeOK, Stages, ServerSteps
    PROVE  Stages'
<1>1. UNCHANGED <<mainVars, poolVars, loopVars, call>> /\ (Refusing => Refusing')
  BY DEF ServerSteps, HTTPListens, HTTPReturns, ServeFails, ServeReturns, Refusing, grpcVars
<1> QED
  BY <1>1 DEF Stages, InOrder, PoolStage, LoopStage, CallStage, PoolOutlivesUsers, Working,
     NoLoop, NoCall, mainVars, poolVars, loopVars

LEMMA ProbesInStage ==
    ASSUME TypeOK, Stages, NEW p \in Probes, ProbeSteps(p)
    PROVE  Stages'
<1>1. UNCHANGED <<mainVars, pool, loopVars, grpcVars>> /\ Alive
  BY DEF ProbeSteps, Readyz, ProbeArrives, ProbePings, PingReturns, PingFails, ProbeAnswers,
     ProbeGoes, Acquires, Releases, poolVars
<1>2. main # "stopped"
  BY <1>1 DEF Alive
<1> QED
  BY <1>1, <1>2 DEF Stages, InOrder, PoolStage, LoopStage, CallStage, Refusing,
     PoolOutlivesUsers, Working, NoLoop, NoCall, mainVars, loopVars, grpcVars

LEMMA LoopsInStage ==
    ASSUME TypeOK, Stages, NEW i \in Loops, LoopSteps(i)
    PROVE  Stages'
<1>1. /\ UNCHANGED <<mainVars, pool, grpcVars>> /\ Alive
      /\ loop[i] \in {"idle", "tick", "query"}
  BY DEF LoopSteps, Tick, TickBegins, LoopQueries, LoopQueryEnds, TickEnds, LoopExits,
     LoopGoes, Acquires, Releases, poolVars
<1>2. ~ NoLoop
  BY <1>1 DEF NoLoop
<1>3. pool = "open"
  BY <1>2, UsersNeedPool DEF Stages
<1>4. InOrder' /\ PoolStage'
  BY <1>1, <1>3 DEF Stages, InOrder, PoolStage, mainVars, Alive
<1>5. LoopStage'
  BY <1>1, <1>2 DEF Stages, LoopStage, mainVars
<1>6. CallStage'
  BY <1>1 DEF Stages, CallStage, NoCall, Refusing, mainVars, grpcVars
<1> QED BY <1>1, <1>3, <1>4, <1>5, <1>6, UsersNeedPoolNext DEF Stages

LEMMA CallsInStage ==
    ASSUME TypeOK, Stages, NEW c \in Calls, CallSteps(c)
    PROVE  Stages'
<1>1. /\ UNCHANGED <<mainVars, pool, loopVars, grpc>> /\ Alive
      /\ call[c] \in {"open", "query", "tail"} \/ ~ Refusing
  BY DEF CallSteps, Call, CallArrives, CallQueries, CallQueryEnds, CallServed, CallRefused,
     CallReturns, ClientLeaves, CallGoes, Acquires, Releases, Refusing, poolVars
<1>2. ~ (NoCall /\ Refusing)
  BY <1>1 DEF NoCall
<1>3. main \in {"start", "serve"} \/ (main = "stop" /\ at # 1)
  BY <1>1, <1>2 DEF Stages, CallStage, Alive, TypeOK
<1>4. pool = "open"
  BY <1>3 DEF Stages, PoolStage
<1>5. InOrder' /\ PoolStage'
  BY <1>1, <1>3, <1>4 DEF Stages, InOrder, PoolStage, mainVars
<1>6. LoopStage'
  BY <1>1 DEF Stages, LoopStage, NoLoop, mainVars, loopVars
<1>7. CallStage'
  BY <1>1, <1>2 DEF Stages, CallStage, mainVars
<1> QED BY <1>1, <1>4, <1>5, <1>6, <1>7, UsersNeedPoolNext DEF Stages

-----------------------------------------------------------------------------
(* The steps of the main goroutine.                                        *)

LEMMA AppendsInOrder ==
    ASSUME TypeOK, InOrder, main = "init", at \in 1..4, NEW name \in Names, name = Order[at],
           modules' = Append(modules, name)
    PROVE  Len(modules') = at /\ \A i \in 1..at : modules'[i] = Order[i]
<1>1. modules \in Seq(Names) /\ Len(modules) = at - 1
  BY DEF TypeOK, InOrder
<1>2. Len(modules') = at /\ modules'[at] = name
  BY <1>1
<1>3. \A i \in 1..(at - 1) : modules'[i] = modules[i] /\ modules[i] = Order[i]
  BY <1>1 DEF InOrder
<1> QED BY <1>2, <1>3

LEMMA InitInStage ==
    ASSUME TypeOK, Stages, AppInit
    PROVE  Stages'
<1>1. /\ main = "init" /\ main' \in {"init", "start", "failed"}
      /\ UNCHANGED <<holders, loop, call>> /\ (Refusing => Refusing')
  BY DEF AppInit, InitConfig, InitRepository, InitAggregator, InitGRPC, InitHealthz,
     InitFails, Initialised, Refusing, poolVars, loopVars, grpcVars
<1>2. NoLoop /\ NoCall /\ Refusing
  BY <1>1 DEF Stages, LoopStage, CallStage
<1>3. NoLoop' /\ NoCall' /\ Refusing'
  BY <1>1, <1>2 DEF NoLoop, NoCall
<1>4. LoopStage' /\ CallStage' /\ PoolOutlivesUsers'
  BY <1>3, UsersNeedPoolNext DEF LoopStage, CallStage
<1>5. InOrder' /\ PoolStage'
  <2> USE DEF Stages, InOrder, PoolStage, InitFails, Initialised, TypeOK, poolVars
  <2>1. CASE InitConfig
    <3>1. \/ main' = "init" /\ at' = 1
          \/ main' = "failed"
      BY <2>1 DEF InitConfig
    <3> QED BY <2>1, <3>1 DEF InitConfig
  <2>2. CASE InitRepository
    <3>1. CASE Initialised("repository") /\ pool' = "open"
      BY <2>2, <3>1, AppendsInOrder DEF InitRepository, Order, Names
    <3>2. CASE InitFails
      BY <2>2, <3>2 DEF InitRepository
    <3> QED BY <2>2, <3>1, <3>2 DEF InitRepository
  <2>3. CASE InitAggregator
    <3>1. Initialised("aggregator") \/ InitFails
      BY <2>3 DEF InitAggregator
    <3> QED BY <2>3, <3>1, AppendsInOrder DEF InitAggregator, Order, Names
  <2>4. CASE InitGRPC
    BY <2>4, AppendsInOrder DEF InitGRPC, Order, Names
  <2>5. CASE InitHealthz
    BY <2>5, AppendsInOrder DEF InitHealthz, Order, Names
  <2> QED BY <2>1, <2>2, <2>3, <2>4, <2>5 DEF AppInit
<1> QED BY <1>4, <1>5 DEF Stages

LEMMA StartInStage ==
    ASSUME TypeOK, Stages, StartAll
    PROVE  Stages'
<1>1. main = "start" /\ main' \in {"start", "serve"} /\ UNCHANGED <<modules, poolVars>>
  BY DEF StartAll, StartRepository, StartAggregator, StartGRPC, StartHealthz, ServeBegins,
     Starting, Started, poolVars
<1>2. pool' = "open"
  BY <1>1 DEF Stages, PoolStage, poolVars
<1>3. PoolOutlivesUsers' /\ PoolStage'
  BY <1>1, <1>2, UsersNeedPoolNext DEF PoolStage
<1>4. /\ Len(modules) = 4 /\ at \in 1..5
      /\ \A name \in Names : Starting(name) => name = Order[at] /\ at \in 1..4
  <2>1. Len(modules) = 4 /\ at \in 1..5 /\ DOMAIN modules = 1..4
    BY <1>1 DEF Stages, InOrder, TypeOK
  <2> QED BY <2>1 DEF Stages, InOrder, Starting
<1>5. InOrder' /\ LoopStage' /\ CallStage'
  <2> USE DEF Stages, InOrder, LoopStage, CallStage, NoLoop, NoCall, Refusing, Started, Names,
        Order, poolVars, loopVars, grpcVars
  <2>1. CASE StartRepository
    BY <1>1, <1>4, <2>1 DEF StartRepository
  <2>2. CASE StartAggregator
    BY <1>1, <1>4, <2>2 DEF StartAggregator
  <2>3. CASE StartGRPC
    BY <1>1, <1>4, <2>3 DEF StartGRPC
  <2>4. CASE StartHealthz
    BY <1>1, <1>4, <2>4 DEF StartHealthz
  <2>5. CASE ServeBegins
    BY <1>1, <1>4, <2>5 DEF ServeBegins
  <2> QED BY <2>1, <2>2, <2>3, <2>4, <2>5 DEF StartAll
<1> QED BY <1>3, <1>5 DEF Stages

LEMMA SignalInStage ==
    ASSUME TypeOK, Stages, Signal
    PROVE  Stages'
<1>1. /\ main \in {"init", "start", "serve"} /\ main' \in {"killed", "stop"}
      /\ main' = "stop" => main = "serve" /\ at' = 4
      /\ UNCHANGED <<modules, poolVars, loopVars, grpcVars>>
  BY DEF Signal, Stages, InOrder
<1> QED
  BY <1>1 DEF Stages, InOrder, PoolStage, LoopStage, CallStage, PoolOutlivesUsers, Working,
     NoLoop, NoCall, poolVars, loopVars, grpcVars

LEMMA StopInStage ==
    ASSUME TypeOK, Stages, StopAll
    PROVE  Stages'
<1>1. main = "stop" /\ UNCHANGED <<modules, holders, loop, call>>
  BY DEF StopAll, StopHealthz, HealthzStops, StopGRPC, GRPCStops, StopAggregator,
     AggregatorStops, StopRepository, RepositoryStops, Stopping, StopNext, mainVars, poolVars,
     loopVars, grpcVars
<1>2. /\ Len(modules) = 4 /\ at \in 1..4
      /\ \A name \in Names : Stopping(name) => name = Order[at]
  BY <1>1 DEF Stages, InOrder, Stopping, TypeOK
<1>3. at = 4 \/ pool = "open" \/ at = 1
  BY <1>1 DEF Stages, PoolStage
<1> USE DEF Stages, InOrder, PoolStage, LoopStage, CallStage, NoLoop, NoCall, Refusing,
      StopNext, Names, Order, mainVars, poolVars, loopVars, grpcVars
<1>4. CASE StopHealthz
  BY <1>1, <1>2, <1>4, UsersNeedPool, UsersNeedPoolNext DEF StopHealthz
<1>5. CASE HealthzStops
  BY <1>1, <1>2, <1>5, UsersNeedPool, UsersNeedPoolNext DEF HealthzStops
<1>6. CASE StopGRPC
  BY <1>1, <1>2, <1>6, UsersNeedPool, UsersNeedPoolNext DEF StopGRPC
<1>7. CASE GRPCStops
  BY <1>1, <1>2, <1>7, UsersNeedPool, UsersNeedPoolNext DEF GRPCStops
<1>8. CASE StopAggregator
  BY <1>1, <1>2, <1>8, UsersNeedPool, UsersNeedPoolNext DEF StopAggregator
<1>9. CASE AggregatorStops
  BY <1>1, <1>2, <1>9, UsersNeedPool, UsersNeedPoolNext DEF AggregatorStops
<1>10. CASE StopRepository
  BY <1>1, <1>2, <1>10, UsersNeedPool, UsersNeedPoolNext DEF StopRepository
<1>11. CASE RepositoryStops
  BY <1>1, <1>2, <1>11, UsersNeedPool, UsersNeedPoolNext DEF RepositoryStops
<1> QED BY <1>4, <1>5, <1>6, <1>7, <1>8, <1>9, <1>10, <1>11 DEF StopAll

-----------------------------------------------------------------------------
(* All together.                                                           *)

LEMMA InitOrderly == Init => Orderly
<1> SUFFICES ASSUME Init PROVE Orderly
  OBVIOUS
<1>1. TypeOK
  <2>1. << >> \in Seq(Names) /\ Len(<< >>) = 0
    OBVIOUS
  <2>2. /\ loop \in [Loops -> {"none", "idle", "tick", "query", "done"}]
        /\ call \in [Calls -> {"none", "open", "query", "tail", "done"}]
        /\ probe \in [Probes -> {"none", "asked", "ping", "pinged", "ready", "unready"}]
    BY DEF Init
  <2>3. /\ stopErr \in BOOLEAN /\ cancelled \in BOOLEAN /\ warm \in BOOLEAN
        /\ running \in BOOLEAN /\ listening \in BOOLEAN
    BY Zenon DEF Init
  <2>4. /\ holders \subseteq Loops \cup Calls \cup Probes
        /\ gone \subseteq Calls /\ late \subseteq Probes
    BY DEF Init
  <2>5. modules \in Seq(Names) /\ Len(modules) <= 4
    BY <2>1 DEF Init
  <2> QED BY <2>2, <2>3, <2>4, <2>5 DEF Init, TypeOK
<1>2. Bounded
  BY FS_EmptySet, LifecycleAssumption DEF Init, Bounded, LifecycleAssumption
<1>3. InOrder /\ PoolStage
  BY DEF Init, InOrder, PoolStage
<1>4. NoLoop /\ NoCall /\ Refusing
  BY DEF Init, NoLoop, NoCall, Refusing
<1>5. LoopStage /\ CallStage /\ PoolOutlivesUsers
  BY <1>4, UsersNeedPool DEF LoopStage, CallStage
<1> QED BY <1>1, <1>2, <1>3, <1>5 DEF Orderly, Stages

LEMMA MainKeepsHolders ==
    ASSUME Bounded, AppInit \/ StartAll \/ Signal \/ StopAll \/ ServerSteps
    PROVE  Bounded'
<1>1. CASE AppInit
  BY <1>1 DEF AppInit, InitConfig, InitRepository, InitAggregator, InitGRPC, InitHealthz,
     Bounded, poolVars
<1>2. CASE StartAll
  BY <1>2 DEF StartAll, StartRepository, StartAggregator, StartGRPC, StartHealthz,
     ServeBegins, Bounded, poolVars
<1>3. CASE Signal
  BY <1>3 DEF Signal, Bounded, poolVars
<1>4. CASE StopAll
  BY <1>4 DEF StopAll, StopHealthz, HealthzStops, StopGRPC, GRPCStops, StopAggregator,
     AggregatorStops, StopRepository, RepositoryStops, Bounded, poolVars
<1>5. CASE ServerSteps
  BY <1>5 DEF ServerSteps, HTTPListens, HTTPReturns, ServeFails, ServeReturns, Bounded, poolVars
<1> QED BY <1>1, <1>2, <1>3, <1>4, <1>5

LEMMA StepOrderly ==
    ASSUME Orderly, [Next]_vars
    PROVE  Orderly'
<1>1. TypeOK /\ Bounded /\ Stages /\ InOrder
  BY DEF Orderly, Stages
<1> SUFFICES TypeOK' /\ Bounded' /\ Stages'
  BY DEF Orderly, Stages
<1>2. CASE AppInit
  BY <1>1, <1>2, InitTyped, MainKeepsHolders, InitInStage
<1>3. CASE StartAll
  BY <1>1, <1>3, MainTyped, MainKeepsHolders, StartInStage
<1>4. CASE Signal
  BY <1>1, <1>4, MainTyped, MainKeepsHolders, SignalInStage
<1>5. CASE StopAll
  BY <1>1, <1>5, MainTyped, MainKeepsHolders, StopInStage
<1>6. CASE ServerSteps
  BY <1>1, <1>6, ServersTyped, MainKeepsHolders, ServersInStage
<1>7. ASSUME NEW i \in Loops, LoopSteps(i)
      PROVE  TypeOK' /\ Bounded' /\ Stages'
  BY <1>1, <1>7, LifecycleAssumption, LoopsTyped, LoopsInStage
<1>8. ASSUME NEW c \in Calls, CallSteps(c)
      PROVE  TypeOK' /\ Bounded' /\ Stages'
  BY <1>1, <1>8, LifecycleAssumption, CallsTyped, CallsInStage
<1>9. ASSUME NEW p \in Probes, ProbeSteps(p)
      PROVE  TypeOK' /\ Bounded' /\ Stages'
  BY <1>1, <1>9, LifecycleAssumption, ProbesTyped, ProbesInStage
<1>10. CASE UNCHANGED vars
  BY <1>1, <1>10 DEF TypeOK, Bounded, Stages, InOrder, PoolStage, LoopStage, CallStage, NoLoop,
     NoCall, Refusing, PoolOutlivesUsers, Working, vars, mainVars, poolVars, loopVars,
     grpcVars, httpVars
<1> QED
  BY <1>2, <1>3, <1>4, <1>5, <1>6, <1>7, <1>8, <1>9, <1>10
  DEF Next, ServerSteps, LoopSteps, CallSteps, ProbeSteps

\* The modules come and go in their order, and the pool with them.
THEOREM AlwaysOrderly == Spec => []Orderly
<1>1. Orderly /\ [Next]_vars => Orderly'
  BY StepOrderly
<1> QED BY InitOrderly, <1>1, PTL DEF Spec

\* No loop and no call is ever without its pool, whatever the configuration, the
\* number of assets, calls, probes and connections, and whenever the signal comes
\* (manager.go: StopAll).
THEOREM PoolIsKept == Spec => []PoolOutlivesUsers
<1>1. Orderly => PoolOutlivesUsers
  BY DEF Orderly, Stages
<1> QED BY AlwaysOrderly, <1>1, PTL

\* An orderly exit leaves no module running, whichever Stop reported an error.
THEOREM ExitIsClean == Spec => []EveryModuleStopped
<1>1. Orderly => EveryModuleStopped
  BY DEF Orderly, Stages, PoolStage, LoopStage, CallStage, NoLoop, NoCall, EveryModuleStopped, Working
<1> QED BY AlwaysOrderly, <1>1, PTL

-----------------------------------------------------------------------------
(* A server that has failed.                                               *)

\* Until it is started the server has not failed; since then its flag is down.
Failed ==
    /\ main = "init" \/ (main = "start" /\ at \in 1..3) => late = {} /\ grpc \in {"none", "bound"}
    /\ late # {} \/ grpc = "broken" => ~ running /\ grpc \notin {"none", "bound", "serving", "failing"}
    /\ BrokenIsNotReady

LEMMA FailedInit == Init => Failed
BY DEF Init, Failed, BrokenIsNotReady

LEMMA FailedNext ==
    ASSUME Orderly, Failed, [Next]_vars
    PROVE  Failed'
<1>. USE DEF Failed, BrokenIsNotReady, mainVars, grpcVars, httpVars
<1>1. CASE AppInit
  BY <1>1 DEF AppInit, InitConfig, InitRepository, InitAggregator, InitGRPC, InitHealthz,
     InitFails, Initialised
<1>2. CASE StartAll
  <2>1. Starting("grpc") => at = 3
    BY DEF Orderly, Stages, InOrder, Order, TypeOK, Starting
  <2>2. main = "start" => at \in 1..5
    BY DEF Orderly, Stages, InOrder
  <2>3. CASE StartGRPC
    BY <2>1, <2>3 DEF StartGRPC, Starting, Started
  <2>4. CASE StartRepository \/ StartAggregator \/ StartHealthz \/ ServeBegins
    BY <2>2, <2>4 DEF StartRepository, StartAggregator, StartHealthz, ServeBegins, Starting, Started
  <2>. QED  BY <1>2, <2>3, <2>4 DEF StartAll
<1>3. CASE Signal
  BY <1>3 DEF Signal
<1>4. CASE StopAll
  BY <1>4 DEF StopAll, StopHealthz, HealthzStops, StopGRPC, GRPCStops, StopAggregator,
     AggregatorStops, StopRepository, RepositoryStops, Stopping, StopNext
<1>5. CASE ServerSteps
  BY <1>5 DEF ServerSteps, HTTPListens, HTTPReturns, ServeFails, ServeReturns
<1>6. ASSUME NEW i \in Loops, LoopSteps(i)  PROVE Failed'
  <2>1. UNCHANGED <<main, at, grpc, running, probe, late>>
    BY <1>6, Zenon DEF LoopSteps, Tick, TickBegins, LoopQueries, LoopQueryEnds, TickEnds, LoopExits,
       LoopGoes
  <2>. QED  BY <2>1
<1>7. ASSUME NEW c \in Calls, CallSteps(c)  PROVE Failed'
  BY <1>7 DEF CallSteps, Call, CallArrives, CallQueries, CallQueryEnds, CallServed, CallRefused,
     CallReturns, ClientLeaves, CallGoes
<1>8. ASSUME NEW p \in Probes, ProbeSteps(p)  PROVE Failed'
  <2>1. probe \in [Probes -> {"none", "asked", "ping", "pinged", "ready", "unready"}]
    BY DEF Orderly, TypeOK
  <2>2. UNCHANGED <<main, at, grpc, running>>
    BY <1>8, Zenon DEF ProbeSteps, Readyz, ProbeArrives, ProbePings, PingReturns, PingFails,
       ProbeAnswers, ProbeGoes
  <2>3. CASE ProbeArrives(p)
    <3>1. /\ probe' = [probe EXCEPT ![p] = "asked"]
          /\ late' = IF grpc = "broken" THEN late \cup {p} ELSE late
      BY <2>3 DEF ProbeArrives, ProbeGoes
    <3>. QED  BY <2>1, <2>2, <3>1
  <2>4. CASE Readyz(p)
    <3>1. late' = late
      BY <2>4, Zenon DEF Readyz, ProbePings, PingReturns, PingFails, ProbeAnswers
    <3>2. ASSUME late # {}  PROVE \E to : to # "ready" /\ probe' = [probe EXCEPT ![p] = to]
      <4>1. ~ running
        BY <3>2
      <4>2. CASE ProbeAnswers(p)
        <5>1. probe' = [probe EXCEPT ![p] = "unready"]
          BY <4>1, <4>2, Zenon DEF ProbeAnswers, ProbeGoes
        <5>. QED  BY <5>1
      <4>3. CASE ProbePings(p) \/ PingReturns(p) \/ PingFails(p)
        <5>1. \E to \in {"ping", "pinged", "unready"} : probe' = [probe EXCEPT ![p] = to]
          BY <4>3 DEF ProbePings, PingReturns, PingFails, ProbeGoes
        <5>. QED  BY <5>1
      <4>. QED  BY <2>4, <4>2, <4>3 DEF Readyz
    <3>3. ASSUME NEW q \in late  PROVE probe'[q] # "ready"
      <4>1. PICK to : to # "ready" /\ probe' = [probe EXCEPT ![p] = to]
        BY <3>2
      <4>2. q \in DOMAIN probe /\ probe[q] # "ready"
        BY <2>1 DEF Orderly, TypeOK
      <4>. QED  BY <4>1, <4>2
    <3>4. BrokenIsNotReady'
      BY <3>1, <3>3
    <3>. QED  BY <2>2, <3>1, <3>4
  <2>. QED  BY <1>8, <2>3, <2>4 DEF ProbeSteps
<1>9. CASE UNCHANGED vars
  BY <1>9 DEF vars
<1>. QED
  BY <1>1, <1>2, <1>3, <1>4, <1>5, <1>6, <1>7, <1>8, <1>9
  DEF Next, ServerSteps, LoopSteps, CallSteps, ProbeSteps

\* However many probes there are, and wherever they are when Serve returns, none
\* that comes later is told that the service is ready (grpc/server.go: Serve).
THEOREM FailureIsSeen == Spec => []BrokenIsNotReady
<1>1. Failed => BrokenIsNotReady
  BY DEF Failed
<1>. QED  BY <1>1, FailedInit, FailedNext, AlwaysOrderly, PTL DEF Spec

-----------------------------------------------------------------------------
(* What the loops may assume.                                              *)

\* Each step of App.Init has checked its part of the configuration.
Checked ==
    /\ \/ main = "init" /\ at >= 1
       \/ main \in {"start", "serve", "stop", "stopped"}
       => Validate(config)
    /\ \/ main = "init" /\ at >= 3
       \/ main \in {"start", "serve", "stop", "stopped"}
       => parseAssets(config)
    /\ ~ (\A i \in Loops : loop[i] = "none") => Validate(config) /\ parseAssets(config)

LEMMA CheckedInit == Init => Checked
BY DEF Init, Checked

LEMMA ConfigStays ==
    ASSUME [Next]_vars
    PROVE  config' = config
BY DEF Next, AppInit, InitConfig, InitRepository, InitAggregator, InitGRPC, InitHealthz,
   InitFails, Initialised, StartAll, StartRepository, StartAggregator, StartGRPC, StartHealthz,
   ServeBegins, Starting, Started, Signal, StopAll, StopHealthz, HealthzStops, StopGRPC, GRPCStops, StopAggregator,
   AggregatorStops, StopRepository, RepositoryStops, StopNext, HTTPListens, HTTPReturns,
   ServeFails, ServeReturns, Tick, TickBegins, LoopQueries, LoopQueryEnds, TickEnds, LoopExits,
   LoopGoes, Call, CallArrives, CallQueries, CallQueryEnds, CallServed, CallRefused, CallReturns,
   ClientLeaves, CallGoes, Readyz, ProbeArrives, ProbePings, PingReturns, PingFails,
   ProbeAnswers, ProbeGoes, vars, mainVars

\* The servers and the users of the pool leave the main goroutine alone.
LEMMA OthersLeaveMain ==
    ASSUME [Next]_vars
    PROVE  AppInit \/ StartAll \/ Signal \/ StopAll \/ UNCHANGED mainVars
BY DEF Next, HTTPListens, HTTPReturns, ServeFails, ServeReturns, Tick, TickBegins, LoopQueries,
   LoopQueryEnds, TickEnds, LoopExits, LoopGoes, Call, CallArrives, CallQueries, CallQueryEnds,
   CallServed, CallRefused, CallReturns, ClientLeaves, CallGoes, Readyz, ProbeArrives, ProbePings,
   PingReturns, PingFails, ProbeAnswers, ProbeGoes, vars

LEMMA CheckedNext ==
    ASSUME Orderly, Checked, [Next]_vars
    PROVE  Checked'
<1>1. config' = config
  BY ConfigStays
<1>2. (Validate(config)' <=> Validate(config)) /\ (parseAssets(config)' <=> parseAssets(config))
  BY <1>1
<1>3. at \in 0..5 /\ \A i \in Loops : loop[i] \in {"none", "idle", "tick", "query", "done"}
  BY DEF Orderly, TypeOK
<1>. USE DEF Checked, mainVars, loopVars
<1>4. CASE AppInit
  BY <1>2, <1>3, <1>4 DEF AppInit, InitConfig, InitRepository, InitAggregator, InitGRPC, InitHealthz,
     InitFails, Initialised
<1>5. CASE StartAll
  BY <1>2, <1>5 DEF StartAll, StartRepository, StartAggregator, StartGRPC, StartHealthz,
     ServeBegins, Starting, Started
<1>6. CASE Signal
  BY <1>2, <1>6 DEF Signal
<1>7. CASE StopAll
  BY <1>2, <1>7 DEF StopAll, StopHealthz, HealthzStops, StopGRPC, GRPCStops, StopAggregator,
     AggregatorStops, StopRepository, RepositoryStops, Stopping, StopNext
<1>8. CASE ServerSteps
  BY <1>2, <1>8 DEF ServerSteps, HTTPListens, HTTPReturns, ServeFails, ServeReturns
<1>9. ASSUME NEW i \in Loops, LoopSteps(i)  PROVE Checked'
  <2>1. loop[i] # "none" /\ UNCHANGED mainVars
    BY <1>9 DEF LoopSteps, Tick, TickBegins, LoopQueries, LoopQueryEnds, TickEnds, LoopExits, LoopGoes
  <2>. QED  BY <1>2, <2>1
<1>10. ASSUME NEW c \in Calls, CallSteps(c)  PROVE Checked'
  BY <1>2, <1>10 DEF CallSteps, Call, CallArrives, CallQueries, CallQueryEnds, CallServed, CallRefused,
     CallReturns, ClientLeaves, CallGoes
<1>11. ASSUME NEW p \in Probes, ProbeSteps(p)  PROVE Checked'
  BY <1>2, <1>11 DEF ProbeSteps, Readyz, ProbeArrives, ProbePings, PingReturns, PingFails,
     ProbeAnswers, ProbeGoes
<1>12. CASE UNCHANGED vars
  BY <1>2, <1>12 DEF vars
<1>. QED
  BY <1>4, <1>5, <1>6, <1>7, <1>8, <1>9, <1>10, <1>11, <1>12
  DEF Next, ServerSteps, LoopSteps, CallSteps, ProbeSteps

\* The names and the classes of the sources fit.
LEMMA KindsFit ==
    ASSUME NEW name \in DOMAIN sourceKindByString
    PROVE  /\ sourceKindByString[name] \in {1, 2, 3} => name \in Crypto
           /\ sourceKindByString[name] \in 4..11 => name \in RWA
BY DEF sourceKindByString, Crypto, RWA

\* What NewAsset accepts has sources of its own class.
LEMMA SourcesOfItsClass ==
    ASSUME NEW asset, NewAsset(asset), NEW kind \in DOMAIN asset.symbols
    PROVE  kind \in IF asset.class = "crypto" THEN Crypto ELSE RWA
<1>1. /\ SourceKindFromString(kind) # SourceUnknown
      /\ AssetClass(SourceKindFromString(kind)) = asset.class
      /\ asset.class \in {"crypto", "rwa"}
  BY DEF NewAsset
<1>2. /\ kind \in DOMAIN sourceKindByString
      /\ AssetClass(sourceKindByString[kind]) = asset.class
  BY <1>1 DEF SourceKindFromString
<1>3. CASE asset.class = "crypto"
  <2>1. sourceKindByString[kind] \in {1, 2, 3}
    BY <1>2, <1>3 DEF AssetClass, unknownLabel
  <2>. QED  BY <1>2, <1>3, <2>1, KindsFit
<1>4. CASE asset.class = "rwa"
  <2>1. sourceKindByString[kind] \in 4..11
    BY <1>2, <1>4 DEF AssetClass, unknownLabel
  <2>. QED  BY <1>2, <1>4, <2>1, KindsFit
<1>. QED  BY <1>1, <1>3, <1>4

\* No loop runs under a configuration that the aggregator may not assume,
\* whatever configuration the process was given (Scheme.Validate, NewAsset).
THEOREM OnlyConfiguredLoops == Spec => []LoopsAreConfigured
<1>1. ASSUME Orderly, Checked  PROVE LoopsAreConfigured
  <2>. SUFFICES ASSUME Validate(config), parseAssets(config)
                PROVE  /\ config.minSources > 0
                       /\ config.maxDeviation \in 1..100
                       /\ \A asset \in ToSet(config.assets) :
                             /\ asset.refreshIntervalSec > 0
                             /\ DOMAIN asset.symbols # {}
                             /\ DOMAIN asset.symbols \subseteq IF asset.class = "crypto" THEN Crypto ELSE RWA
    BY <1>1 DEF Checked, LoopsAreConfigured
  <2>1. config.minSources \in Int /\ config.maxDeviation \in Int
    BY <1>1, LifecycleAssumption DEF LifecycleAssumption, Orderly, TypeOK
  <2>2. config.minSources > 0 /\ config.maxDeviation \in 1..100
    <3>1. config.minSources >= 1 /\ config.maxDeviation > 0 /\ config.maxDeviation <= 100
      BY Zenon DEF Validate
    <3>. QED  BY <2>1, <3>1
  <2>3. ASSUME NEW asset \in ToSet(config.assets)
        PROVE  /\ asset.refreshIntervalSec > 0
               /\ DOMAIN asset.symbols # {}
               /\ DOMAIN asset.symbols \subseteq IF asset.class = "crypto" THEN Crypto ELSE RWA
    <3>1. NewAsset(asset)
      BY DEF parseAssets
    <3>. QED  BY <3>1, SourcesOfItsClass DEF NewAsset
  <2>. QED  BY <2>2, <2>3
<1>. QED  BY <1>1, CheckedInit, CheckedNext, AlwaysOrderly, PTL DEF Spec

-----------------------------------------------------------------------------
(* The defaults.                                                           *)

\* What an asset of the defaults looks like.
Usable(asset) ==
    /\ asset.id # ""
    /\ asset.refreshIntervalSec > 0
    /\ DOMAIN asset.symbols # {}
    /\ \A kind \in DOMAIN asset.symbols : asset.symbols[kind] = asset.id
    /\ \/ asset.class = "crypto" /\ DOMAIN asset.symbols \subseteq Crypto
       \/ asset.class = "rwa" /\ DOMAIN asset.symbols \subseteq RWA

\* The names of the sources of a class.
LEMMA NamedKinds ==
    /\ \A kind \in Crypto : SourceKindFromString(kind) \in {1, 2, 3}
    /\ \A kind \in RWA : SourceKindFromString(kind) \in 4..11
    /\ Metal \cup {"yahoo", "fred", "eia", "gold_api"} \subseteq RWA
    /\ Metal # {} /\ Crypto # {}
BY DEF SourceKindFromString, sourceKindByString, Crypto, RWA, Metal

LEMMA AssetUsable ==
    ASSUME NEW id, id # "", NEW kinds, kinds # {}, NEW interval, interval > 0, NEW class,
           \/ class = "crypto" /\ kinds \subseteq Crypto
           \/ class = "rwa" /\ kinds \subseteq RWA
    PROVE  Usable(Asset(id, class, kinds, interval))
<1>. DEFINE asset == Asset(id, class, kinds, interval)
            symbols == [kind \in kinds |-> id]
<1>1. DOMAIN symbols = kinds /\ \A kind \in kinds : symbols[kind] = id
  OBVIOUS
<1>2. /\ asset.id = id /\ asset.class = class /\ asset.refreshIntervalSec = interval
      /\ asset.symbols = symbols
  BY DEF Asset
<1>. HIDE DEF asset, symbols
<1>3. asset.id # "" /\ asset.refreshIntervalSec > 0
  BY <1>2
<1>4. /\ DOMAIN asset.symbols = kinds
      /\ \A kind \in DOMAIN asset.symbols : asset.symbols[kind] = asset.id
  BY <1>1, <1>2
<1>5. Usable(asset)
  BY <1>2, <1>3, <1>4, Zenon DEF Usable
<1>. QED  BY <1>5 DEF asset

LEMMA Intervals == \E fast, slow : fast = 180 /\ fast > 0 /\ slow = 43200 /\ slow > 0
OBVIOUS

LEMMA CryptoUsable ==
    ASSUME NEW id, id # "", NEW interval, interval > 0
    PROVE  Usable(Asset(id, "crypto", Crypto, interval))
<1>. DEFINE class == "crypto"
<1>1. Crypto # {} /\ Crypto \subseteq Crypto /\ class = "crypto"
  BY NamedKinds, Zenon
<1>. HIDE DEF class
<1>2. Usable(Asset(id, class, Crypto, interval))
  BY <1>1, AssetUsable, Zenon
<1>. QED  BY <1>2, Zenon DEF class

LEMMA RWAUsable ==
    ASSUME NEW id, id # "", NEW kinds, kinds # {}, kinds \subseteq RWA, NEW interval, interval > 0
    PROVE  Usable(Asset(id, "rwa", kinds, interval))
<1>. DEFINE class == "rwa"
<1>1. class = "rwa"
  OBVIOUS
<1>. HIDE DEF class
<1>2. Usable(Asset(id, class, kinds, interval))
  BY <1>1, AssetUsable, Zenon
<1>. QED  BY <1>2, Zenon DEF class

LEMMA ConcatElements ==
    ASSUME NEW S, NEW s \in Seq(S), NEW t \in Seq(S), NEW x \in ToSet(s \o t)
    PROVE  (\E i \in 1..Len(s) : x = s[i]) \/ (\E i \in 1..Len(t) : x = t[i])
<1>1. /\ s \o t \in Seq(S) /\ Len(s \o t) = Len(s) + Len(t)
      /\ \A i \in 1..(Len(s) + Len(t)) :
            (s \o t)[i] = IF i <= Len(s) THEN s[i] ELSE t[i - Len(s)]
  BY ConcatProperties
<1>2. Len(s) \in Nat /\ Len(t) \in Nat /\ DOMAIN (s \o t) = 1..(Len(s) + Len(t))
  BY <1>1, LenProperties
<1>3. PICK i \in 1..(Len(s) + Len(t)) : x = (s \o t)[i]
  BY <1>2 DEF ToSet
<1>4. CASE i <= Len(s)
  BY <1>1, <1>2, <1>3, <1>4
<1>5. CASE ~ (i <= Len(s))
  <2>1. i - Len(s) \in 1..Len(t)
    BY <1>2, <1>5
  <2>. QED  BY <1>1, <1>3, <1>5, <2>1
<1>. QED  BY <1>4, <1>5

LEMMA DefaultsUsable ==
    ASSUME NEW asset \in ToSet(defaultAssets)
    PROVE  Usable(asset)
<1>1. PICK fast, slow : fast = 180 /\ fast > 0 /\ slow = 43200 /\ slow > 0
  BY Intervals
<1>. DEFINE ids == <<"weth", "wbtc", "link", "uni", "aave">>
            xau == Asset("xau", "rwa", Metal, slow)
            xag == Asset("xag", "rwa", Metal, slow)
            spx == Asset("spx", "rwa", {"yahoo", "fred"}, slow)
            wti == Asset("wti", "rwa", {"eia", "fred"}, slow)
            hg == Asset("hg", "rwa", {"gold_api", "yahoo"}, slow)
            Token(i) == Asset(ids[i], "crypto", Crypto, fast)
            tokens == [i \in 1..5 |-> Token(i)]
            others == <<xau, xag, spx, wti, hg>>
            S == {tokens[i] : i \in 1..5} \cup {xau, xag, spx, wti, hg}
<1>2. defaultAssets = tokens \o others
  BY <1>1 DEF defaultAssets
<1>3. ASSUME NEW i \in 1..5  PROVE Usable(Token(i))
  <2>1. /\ ids[1] = "weth" /\ ids[2] = "wbtc" /\ ids[3] = "link" /\ ids[4] = "uni"
        /\ ids[5] = "aave"
    OBVIOUS
  <2>2. i = 1 \/ i = 2 \/ i = 3 \/ i = 4 \/ i = 5
    OBVIOUS
  <2>. HIDE DEF ids
  <2>3. ids[i] # ""
    BY <2>1, <2>2
  <2>4. fast > 0
    BY <1>1, SMT
  <2>. QED  BY <2>3, <2>4, CryptoUsable, Zenon
<1>4. ASSUME NEW id \in {"xau", "xag", "spx", "wti", "hg"},
             NEW kinds \in {Metal, {"yahoo", "fred"}, {"eia", "fred"}, {"gold_api", "yahoo"}}
      PROVE  Usable(Asset(id, "rwa", kinds, slow))
  <2>1. id # ""
    OBVIOUS
  <2>2. kinds # {} /\ kinds \subseteq RWA
    BY NamedKinds
  <2>3. slow > 0
    BY <1>1, SMT
  <2>. QED  BY <2>1, <2>2, <2>3, RWAUsable, Zenon
<1>5. Usable(xau) /\ Usable(xag) /\ Usable(spx) /\ Usable(wti) /\ Usable(hg)
  <2>. DEFINE Ids == {"xau", "xag", "spx", "wti", "hg"}
              Sets == {Metal, {"yahoo", "fred"}, {"eia", "fred"}, {"gold_api", "yahoo"}}
  <2>1. /\ "xau" \in Ids /\ "xag" \in Ids /\ "spx" \in Ids /\ "wti" \in Ids /\ "hg" \in Ids
        /\ Metal \in Sets /\ {"yahoo", "fred"} \in Sets /\ {"eia", "fred"} \in Sets
        /\ {"gold_api", "yahoo"} \in Sets
    BY Zenon
  <2>. QED  BY <1>4, <2>1, Zenon
<1>. HIDE DEF Token, xau, xag, spx, wti, hg
<1>6. tokens \in Seq(S) /\ Len(tokens) = 5 /\ \A i \in 1..5 : tokens[i] = Token(i)
  <2>1. tokens \in [1..5 -> S] /\ 5 \in Nat /\ DOMAIN tokens = 1..5
        /\ \A i \in 1..5 : tokens[i] = Token(i)
    OBVIOUS
  <2>. HIDE DEF tokens, S
  <2>2. tokens \in Seq(S)
    BY <2>1, SeqDef
  <2>3. Len(tokens) \in Nat /\ DOMAIN tokens = 1..Len(tokens)
    BY <2>2, LenProperties
  <2>. QED  BY <2>1, <2>2, <2>3
<1>7. others \in Seq(S) /\ Len(others) = 5 /\ \A i \in 1..5 : others[i] \in {xau, xag, spx, wti, hg}
  OBVIOUS
<1>. HIDE DEF tokens, others, S
<1>8. (\E i \in 1..5 : asset = tokens[i]) \/ (\E i \in 1..5 : asset = others[i])
  <2>1. asset \in ToSet(tokens \o others)
    BY <1>2
  <2>2. (\E i \in 1..Len(tokens) : asset = tokens[i]) \/ (\E i \in 1..Len(others) : asset = others[i])
    BY <1>6, <1>7, <2>1, ConcatElements
  <2>. QED  BY <1>6, <1>7, <2>2
<1>. QED  BY <1>3, <1>5, <1>6, <1>7, <1>8

LEMMA DefaultAssetIsValid ==
    ASSUME NEW asset \in ToSet(defaultAssets)
    PROVE  /\ NewAsset(asset)
           /\ asset.id # "" /\ asset.class \in {"crypto", "rwa"}
           /\ DOMAIN asset.symbols # {} /\ asset.refreshIntervalSec > 0
<1>1. /\ asset.id # "" /\ asset.refreshIntervalSec > 0
      /\ DOMAIN asset.symbols # {}
      /\ \A kind \in DOMAIN asset.symbols : asset.symbols[kind] = asset.id
      /\ \/ asset.class = "crypto" /\ DOMAIN asset.symbols \subseteq Crypto
         \/ asset.class = "rwa" /\ DOMAIN asset.symbols \subseteq RWA
  BY DefaultsUsable DEF Usable
<1>2. \A kind \in DOMAIN asset.symbols :
         /\ SourceKindFromString(kind) # SourceUnknown
         /\ AssetClass(SourceKindFromString(kind)) = asset.class
  <2>1. \A k \in {1, 2, 3} : k # SourceUnknown /\ AssetClass(k) = "crypto"
    BY DEF SourceUnknown, AssetClass
  <2>2. \A k \in 4..11 : k # SourceUnknown /\ AssetClass(k) = "rwa"
    BY DEF SourceUnknown, AssetClass
  <2>. QED  BY <1>1, <2>1, <2>2, NamedKinds
<1>3. ValidID(asset.id)
  BY <1>1, DefaultsAssumption DEF DefaultsAssumption, ValidID
<1>. QED  BY <1>1, <1>2, <1>3 DEF NewAsset

\* What is shipped passes every check of start-up.
LEMMA ShippedIsValid ==
    ASSUME NEW scheme, Shipped(scheme)
    PROVE  Validate(scheme) /\ NewRegistry(scheme) /\ parseAssets(scheme)
<1>. DEFINE All == Crypto \cup RWA
            shipped == setDefaults.sources
            Keep(kind) == kind \in Keyed /\ shipped[kind].enabled
            given == [kind \in All |-> [shipped[kind] EXCEPT !.key = Keep(kind)]]
<1>1. /\ Supplied.database = TRUE /\ Supplied.port = 50051 /\ Supplied.minSources = 1
      /\ Supplied.maxDeviation = 10 /\ Supplied.freshnessPolicy = "permissive"
      /\ Supplied.sources = given
  BY DEF Supplied, setDefaults
<1>2. /\ scheme.database = Supplied.database /\ scheme.port = Supplied.port
      /\ scheme.minSources = Supplied.minSources /\ scheme.maxDeviation = Supplied.maxDeviation
      /\ scheme.freshnessPolicy = Supplied.freshnessPolicy /\ scheme.sources = Supplied.sources
  <2>1. PICK assets : scheme = [Supplied EXCEPT !.assets = assets]
    BY DEF Shipped
  <2>2. "assets" # "database" /\ "assets" # "port"
    OBVIOUS
  <2>. QED  BY <2>1 DEF Supplied, setDefaults
<1>3. \A kind \in All :
         /\ shipped[kind] \in [enabled : BOOLEAN, key : BOOLEAN, url : BOOLEAN, timeout : BOOLEAN]
         /\ shipped[kind].enabled <=> kind \notin {"twelve_data", "stooq"}
         /\ shipped[kind].url /\ shipped[kind].timeout
  <2>. DEFINE source(kind) == [enabled |-> kind \notin {"twelve_data", "stooq"}, key |-> FALSE,
                               url |-> TRUE, timeout |-> TRUE]
  <2>1. shipped = [kind \in All |-> source(kind)]
    BY DEF setDefaults
  <2>. HIDE DEF shipped, All
  <2>. QED  BY <2>1
<1>4. \A kind \in All :
         /\ given[kind].enabled <=> kind \notin {"twelve_data", "stooq"}
         /\ given[kind].url /\ given[kind].timeout
         /\ given[kind].enabled /\ kind \in Keyed => given[kind].key
  <2>. HIDE DEF shipped, All
  <2>. SUFFICES ASSUME NEW kind \in All
                PROVE  /\ given[kind].enabled <=> kind \notin {"twelve_data", "stooq"}
                       /\ given[kind].url /\ given[kind].timeout
                       /\ given[kind].enabled /\ kind \in Keyed => given[kind].key
    OBVIOUS
  <2>1. PICK source : source = shipped[kind]
    OBVIOUS
  <2>2. given[kind] = [source EXCEPT !.key = Keep(kind)]
    BY <2>1
  <2>3. source \in [enabled : BOOLEAN, key : BOOLEAN, url : BOOLEAN, timeout : BOOLEAN]
    BY <1>3, <2>1
  <2>4. /\ given[kind].enabled = source.enabled /\ given[kind].url = source.url
        /\ given[kind].timeout = source.timeout /\ given[kind].key = Keep(kind)
    <3>. HIDE DEF Keep, given
    <3>. QED  BY <2>2, <2>3
  <2>. HIDE DEF given
  <2>. QED  BY <1>3, <2>1, <2>4
<1>5. Keyed \subseteq All /\ "binance" \in All
  BY DEF Keyed, Crypto, RWA
<1>6. validateSourceKeys(scheme)
  <2>. HIDE DEF given
  <2>. QED  BY <1>1, <1>2, <1>4, <1>5 DEF validateSourceKeys
<1>7. \A asset \in ToSet(scheme.assets) :
         /\ NewAsset(asset)
         /\ asset.id # "" /\ asset.class \in {"crypto", "rwa"}
         /\ DOMAIN asset.symbols # {} /\ asset.refreshIntervalSec > 0
  BY DefaultAssetIsValid DEF Shipped
<1>8. Validate(scheme)
  <2>1. /\ scheme.database /\ scheme.port # 0 /\ scheme.minSources >= 1
        /\ scheme.maxDeviation > 0 /\ scheme.maxDeviation <= 100
        /\ scheme.freshnessPolicy \in {"permissive", "strict"}
        /\ scheme.assets # << >>
    BY <1>1, <1>2 DEF Shipped
  <2>. QED  BY <1>6, <1>7, <2>1, Zenon DEF Validate
<1>9. NewRegistry(scheme)
  <2>1. "binance" \in Enabled(scheme)
    <3>. HIDE DEF given
    <3>. QED  BY <1>1, <1>2, <1>4, <1>5 DEF Enabled
  <2>2. \A kind \in Enabled(scheme) : Constructs(kind, scheme.sources[kind])
    <3>. HIDE DEF given
    <3>. QED  BY <1>1, <1>2, <1>4 DEF Enabled, Constructs
  <2>. QED  BY <2>1, <2>2 DEF NewRegistry
<1>. QED  BY <1>7, <1>8, <1>9 DEF parseAssets

LEMMA DefaultsNext ==
    ASSUME DefaultsSuffice, [Next]_vars
    PROVE  DefaultsSuffice'
<1>. SUFFICES ASSUME main' = "failed", Shipped(config)'  PROVE at' \in {1, 3}
  BY DEF DefaultsSuffice
<1>1. config' = config
  BY ConfigStays
<1>2. Shipped(config) /\ Validate(config) /\ NewRegistry(config) /\ parseAssets(config)
  BY <1>1, ShippedIsValid DEF Shipped
<1>3. CASE main = "failed" /\ at' = at
  BY <1>2, <1>3 DEF DefaultsSuffice
<1>4. CASE AppInit
  BY <1>2, <1>4 DEF AppInit, InitConfig, InitRepository, InitAggregator, InitGRPC, InitHealthz,
     InitFails, Initialised
<1>5. CASE StartAll \/ Signal \/ StopAll
  BY <1>5 DEF StartAll, StartRepository, StartAggregator, StartGRPC, StartHealthz,
     ServeBegins, Starting, Started, Signal, StopAll, StopHealthz, HealthzStops, StopGRPC, GRPCStops,
     StopAggregator, AggregatorStops, StopRepository, RepositoryStops, Stopping, StopNext, mainVars
<1>6. CASE UNCHANGED mainVars
  BY <1>3, <1>6 DEF mainVars
<1>. QED
  BY <1>4, <1>5, <1>6, OthersLeaveMain

\* Whichever of the shipped assets are kept, the defaults with what the operator
\* must add pass Validate, the registry and parseAssets (config/init.go:
\* setDefaults).
THEOREM DefaultsAreEnough == Spec => []DefaultsSuffice
<1>1. Init => DefaultsSuffice
  BY DEF Init, DefaultsSuffice
<1>2. DefaultsSuffice /\ [Next]_vars => DefaultsSuffice'
  BY DefaultsNext
<1>. QED  BY <1>1, <1>2, PTL DEF Spec

=============================================================================
