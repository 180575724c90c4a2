----------------------------- MODULE PriceStream -----------------------------
(***************************************************************************)
(* The gRPC handlers between the table, the bus and the clients: GetPrice  *)
(* answers from the table; Subscribe sends what the table holds, then      *)
(* subscribes to the bus and forwards what is published.  The aggregation  *)
(* loops appear as what Aggregator is proved to be for them: they commit a *)
(* row, then publish it if its commit was acknowledged.                    *)
(***************************************************************************)
EXTENDS Integers, Sequences, FiniteSets, SequencesExt

CONSTANTS
    Assets,    \* the tracked assets, one loop each
    Streams,   \* calls of Subscribe
    BadId,     \* an id that does not validate
    Requests,  \* the asset_ids a client may ask for
    Buffer, Nobody,
    MaxRows    \* bound: rows per asset

ASSUME RequestsAssumption ==
    /\ BadId \notin Assets /\ Requests \subseteq Seq(Assets \cup {BadId})
    /\ Buffer \in Int /\ MaxRows \in Nat /\ Nobody \notin Streams

VARIABLES
    writer, readers, sub, subs, chan, closed, left, sending, joined, seen, dropped,
    db,         \* db[a]: the number of rows of a; a row is known by its number
    acked,      \* history: acked[a] are the rows PersistRound acknowledged
    loop,       \* loop[a]: "idle", "publish" or "publishing"
    step,       \* step[c]: where handler c is
    wanted,     \* wanted[c]: the assets c subscribed to
    todo,       \* todo[c]: those whose snapshot is still to be read
    hand,       \* hand[c]: the price c is about to send
    gone,       \* gone[c]: the context of stream c is done
    received    \* received[c]: the prices that were sent to the client

B == INSTANCE Bus WITH Publishers <- Assets, Subscribers <- Streams, MaxStamp <- MaxRows

busVars == <<writer, readers, sub, subs, chan, closed, left, sending, joined, seen, dropped>>
loopVars == <<db, acked, loop>>
handlerVars == <<step, wanted, todo, hand, gone, received>>
vars == <<busVars, loopVars, handlerVars>>

NoPrice == [from |-> BadId, stamp |-> 0]

TypeOK ==
    /\ B!TypeOK
    /\ db \in [Assets -> Nat]
    /\ acked \in [Assets -> SUBSET Nat] /\ \A a \in Assets : acked[a] \subseteq 1..db[a]
    /\ loop \in [Assets -> {"idle", "publish", "publishing"}]
    /\ step \in [Streams -> {"new", "refused", "snapshot", "first", "subscribe",
                             "tail", "send", "cancel", "leave", "ended"}]
    /\ wanted \in [Streams -> SUBSET Assets] /\ todo \in [Streams -> SUBSET Assets]
    /\ hand \in [Streams -> B!Message \cup {NoPrice}]
    /\ gone \in [Streams -> BOOLEAN]
    /\ received \in [Streams -> Seq(B!Message)]

Init ==
    /\ B!Init
    /\ db = [a \in Assets |-> 0] /\ acked = [a \in Assets |-> {}]
    /\ loop = [a \in Assets |-> "idle"]
    /\ step = [c \in Streams |-> "new"]
    /\ wanted = [c \in Streams |-> {}] /\ todo = wanted
    /\ hand = [c \in Streams |-> NoPrice]
    /\ gone = [c \in Streams |-> FALSE]
    /\ received = [c \in Streams |-> << >>]

-----------------------------------------------------------------------------
(* The aggregation loops.                                                  *)

\* PersistRound commits; without its answer the round ends there.
Persists(a) ==
    /\ loop[a] = "idle" /\ db[a] < MaxRows
    /\ db' = [db EXCEPT ![a] = @ + 1]
    /\ \/ /\ acked' = [acked EXCEPT ![a] = @ \cup {db[a] + 1}]
          /\ loop' = [loop EXCEPT ![a] = "publish"]
       \/ UNCHANGED <<acked, loop>>
    /\ UNCHANGED <<busVars, handlerVars>>

\* Mutant: the round is published before it is persisted.
PublishesFirst(a) ==
    /\ loop[a] = "idle" /\ db[a] < MaxRows
    /\ B!PublishCalled(a, db[a] + 1)
    /\ loop' = [loop EXCEPT ![a] = "publishing"]
    /\ UNCHANGED <<handlerVars, db, acked>>

\* Mutant: the bus is given the last price instead of the new one.
PublishesLast(a) ==
    /\ loop[a] = "publish"
    /\ B!PublishCalled(a, db[a] - 1)
    /\ loop' = [loop EXCEPT ![a] = "publishing"]
    /\ UNCHANGED <<handlerVars, db, acked>>

Publishes(a) ==
    /\ loop[a] = "publish"
    /\ B!PublishCalled(a, db[a])
    /\ loop' = [loop EXCEPT ![a] = "publishing"]
    /\ UNCHANGED <<handlerVars, db, acked>>

Offers(a) ==
    /\ \E c \in Streams : B!Offer(a, c)
    /\ UNCHANGED <<loopVars, handlerVars>>

Published(a) ==
    /\ B!PublishReturns(a)
    /\ loop' = [loop EXCEPT ![a] = "idle"]
    /\ UNCHANGED <<handlerVars, db, acked>>

-----------------------------------------------------------------------------
(* The handlers.                                                           *)

\* GetLatest, as the latest row's number.
GetLatest(a) == db[a]

GetPrice(id) ==
    IF id = BadId THEN [code |-> "InvalidArgument"]
    ELSE IF GetLatest(id) = 0 THEN [code |-> "NotFound"]
    ELSE [code |-> "OK", row |-> [from |-> id, stamp |-> GetLatest(id)]]

At(c, here, there) ==
    /\ step[c] = here
    /\ step' = [step EXCEPT ![c] = there]

\* An empty request, or one with an id that does not validate.
Invalid(request) == request = << >> \/ \E i \in DOMAIN request : request[i] = BadId

Refuses(c) ==
    /\ At(c, "new", "refused")
    /\ \E request \in Requests : Invalid(request)
    /\ UNCHANGED <<busVars, loopVars, wanted, todo, hand, gone, received>>

Opens(c) ==
    /\ At(c, "new", "snapshot")
    /\ \E request \in Requests :
          /\ ~ Invalid(request)
          /\ wanted' = [wanted EXCEPT ![c] = ToSet(request)]
    /\ todo' = [todo EXCEPT ![c] = wanted'[c]]
    /\ UNCHANGED <<busVars, loopVars, hand, gone, received>>

\* The snapshot of an asset, in any order: none yet or an error, ...
SnapshotSkips(c, a) ==
    /\ At(c, "snapshot", "snapshot")
    /\ a \in todo[c]
    /\ todo' = [todo EXCEPT ![c] = @ \ {a}]
    /\ UNCHANGED <<busVars, loopVars, wanted, hand, gone, received>>

\* ... or a row, which is read and then sent.
SnapshotReads(c, a) ==
    /\ At(c, "snapshot", "first")
    /\ a \in todo[c] /\ GetLatest(a) > 0 /\ ~ gone[c]
    /\ hand' = [hand EXCEPT ![c] = [from |-> a, stamp |-> GetLatest(a)]]
    /\ todo' = [todo EXCEPT ![c] = @ \ {a}]
    /\ UNCHANGED <<busVars, loopVars, wanted, gone, received>>

\* srv.Send returns nil.
Sends(c) ==
    /\ At(c, "first", "snapshot") \/ At(c, "send", "tail")
    /\ received' = [received EXCEPT ![c] = Append(@, hand[c])]
    /\ hand' = [hand EXCEPT ![c] = NoPrice]
    /\ UNCHANGED <<busVars, loopVars, wanted, todo, gone>>

\* Mutant: the stream returns without its deferred cancel.
ReturnsAtOnce(c) ==
    /\ gone[c]
    /\ At(c, "first", "ended") \/ At(c, "send", "ended")
    /\ UNCHANGED <<busVars, loopVars, wanted, todo, hand, gone, received>>

\* srv.Send fails, because the stream is gone: before the subscription the
\* handler just returns, later through its deferred cancel.
SendFails(c) ==
    /\ gone[c]
    /\ At(c, "first", "ended") \/ At(c, "send", "cancel")
    /\ UNCHANGED <<busVars, loopVars, wanted, todo, hand, gone, received>>

\* bus.Subscribe
SubscribeBegins(c) ==
    /\ At(c, "snapshot", "subscribe")
    /\ todo[c] = {}
    /\ B!SubscribeCalled(c)
    /\ UNCHANGED <<loopVars, wanted, todo, hand, gone, received>>

SubscribeReturns(c) ==
    /\ At(c, "subscribe", "tail")
    /\ B!Register(c)
    /\ UNCHANGED <<loopVars, wanted, todo, hand, gone, received>>

\* select takes ctx.Done.
TailEnds(c) ==
    /\ gone[c]
    /\ At(c, "tail", "cancel")
    /\ UNCHANGED <<busVars, loopVars, wanted, todo, hand, gone, received>>

\* Mutant: only one asset of the request is looked at.
MatchesOne(c) ==
    /\ B!Receive(c)
    /\ IF Head(chan[c]).from = CHOOSE a \in wanted[c] : TRUE
       THEN /\ At(c, "tail", "send")
            /\ hand' = [hand EXCEPT ![c] = Head(chan[c])]
       ELSE At(c, "tail", "tail") /\ UNCHANGED hand
    /\ UNCHANGED <<loopVars, wanted, todo, gone, received>>

\* select takes a price from the channel; others' prices are passed over.
TailReceives(c) ==
    /\ B!Receive(c)
    /\ IF Head(chan[c]).from \in wanted[c]
       THEN /\ At(c, "tail", "send")
            /\ hand' = [hand EXCEPT ![c] = Head(chan[c])]
       ELSE At(c, "tail", "tail") /\ UNCHANGED hand
    /\ UNCHANGED <<loopVars, wanted, todo, gone, received>>

\* The deferred cancel.
CancelBegins(c) ==
    /\ At(c, "cancel", "leave")
    /\ B!CancelCalled(c)
    /\ UNCHANGED <<loopVars, wanted, todo, hand, gone, received>>

CancelReturns(c) ==
    /\ At(c, "leave", "ended")
    /\ B!Unregister(c)
    /\ UNCHANGED <<loopVars, wanted, todo, hand, gone, received>>

\* The client cancels, or its connection breaks.
ClientLeaves(c) ==
    /\ step[c] \notin {"new", "refused", "ended"}
    /\ ~ gone[c]
    /\ gone' = [gone EXCEPT ![c] = TRUE]
    /\ UNCHANGED <<busVars, loopVars, step, wanted, todo, hand, received>>

-----------------------------------------------------------------------------

Loop(a) == Persists(a) \/ Publishes(a) \/ Offers(a) \/ Published(a)

Snapshot(c) == \E a \in Assets : SnapshotSkips(c, a) \/ SnapshotReads(c, a)

Subscribe(c) ==
    \/ Refuses(c) \/ Opens(c)
    \/ Snapshot(c)
    \/ Sends(c) \/ SendFails(c)
    \/ SubscribeBegins(c) \/ SubscribeReturns(c)
    \/ TailEnds(c) \/ TailReceives(c)
    \/ CancelBegins(c) \/ CancelReturns(c)

Next ==
    \/ \E a \in Assets : Loop(a)
    \/ \E c \in Streams : Subscribe(c) \/ ClientLeaves(c)

Spec == Init /\ [][Next]_vars

-----------------------------------------------------------------------------
(* Safety.                                                                 *)

\* A client never sees the price of an asset go back in time, whatever falls
\* between its snapshot and its subscription; at most the snapshot row comes
\* twice, the second time from the bus (Subscribe).
NeverGoesBack ==
    \A c \in Streams :
        \A i, j \in DOMAIN received[c] : i < j /\ received[c][i].from = received[c][j].from =>
            /\ received[c][i].stamp <= received[c][j].stamp
            /\ received[c][i].stamp = received[c][j].stamp =>
                  \A k \in 1..(i - 1) : received[c][k].from # received[c][i].from

\* A client that got a price on a stream and then calls GetPrice gets that
\* row or a newer one: rows are persisted before they are published.
GetPriceNotBehind ==
    \A c \in Streams : \A i \in DOMAIN received[c] :
        LET reply == GetPrice(received[c][i].from)
        IN  reply.code = "OK" /\ received[c][i].stamp <= reply.row.stamp

Held(c) == {received[c][i] : i \in DOMAIN received[c]} \cup {hand[c]}
             \cup {chan[c][i] : i \in DOMAIN chan[c]} \cup dropped[c]

\* From its subscription on, a stream loses no acknowledged round of a wanted
\* asset: each was sent, is in the handler's hands or its channel, was denied
\* for lack of room, or is still being published.
TailComplete ==
    \A c \in Streams : step[c] \in {"tail", "send"} =>
        \A a \in wanted[c] : \A t \in acked[a] :
            \/ t <= joined[c][a]
            \/ [from |-> a, stamp |-> t] \in Held(c)
            \/ t = db[a] /\ loop[a] # "idle"

\* Handlers and loops use the bus as Bus supposes: stamps increase, and only
\* a subscription that Subscribe returned is drained or cancelled.
UsesBus == B!Spec

\* README.md:193: "Initial per-asset snapshot, then live tail on every
\* successful tick."  A stream that lost nothing for lack of room, and has
\* sent all it has, has sent every acknowledged row after its snapshot.
SnapshotThenEveryTick ==
    \A c \in Streams : step[c] = "tail" /\ chan[c] = << >> /\ dropped[c] = {} =>
        \A i \in DOMAIN received[c] :
            LET a == received[c][i].from
            IN  loop[a] = "idle" =>
                  \A t \in acked[a] : received[c][i].stamp < t =>
                      [from |-> a, stamp |-> t] \in ToSet(received[c])

-----------------------------------------------------------------------------
(* Liveness.                                                               *)

\* The loops finish what they publish; handlers run, save that a Send may wait
\* for its client, and GetLatest for the database, until the client is gone;
\* select and the lock are fair.
Fairness ==
    /\ \A a \in Assets : SF_vars(Publishes(a)) /\ WF_vars(Offers(a) \/ Published(a))
    /\ \A c \in Streams :
          /\ WF_vars(\/ gone[c] /\ (Snapshot(c) \/ Sends(c) \/ SendFails(c))
                     \/ SubscribeReturns(c) \/ TailReceives(c) \/ CancelReturns(c))
          /\ SF_vars(SubscribeBegins(c) \/ TailEnds(c) \/ CancelBegins(c))

FairSpec == Spec /\ Fairness

\* A stream whose client is gone ends, and the bus forgets it for good.
LeaversForgotten ==
    \A c \in Streams : gone[c] ~> [](step[c] = "ended" /\ c \notin subs)

=============================================================================
