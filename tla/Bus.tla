--------------------------------- MODULE Bus ---------------------------------
(***************************************************************************)
(* The in-memory bus between the aggregation loops and the price streams:  *)
(* a map of buffered channels under a sync.RWMutex.  A publisher holds the *)
(* read lock while it offers its price to the channels one by one, in any  *)
(* order; Subscribe and cancel take the write lock.                        *)
(***************************************************************************)
EXTENDS Integers, Sequences, FiniteSets

CONSTANTS
    Publishers,   \* those who call Publish
    Subscribers,  \* subscriptions: one call of Subscribe and its cancel each
    Buffer,       \* the argument of NewBus
    MaxStamp,     \* bound: the last stamp a publisher uses
    Nobody        \* not a subscriber

ASSUME BusAssumption ==
    Buffer \in Int /\ MaxStamp \in Nat /\ Nobody \notin Subscribers

VARIABLES
    writer,     \* who holds or awaits the write lock
    readers,    \* the publishers that hold the read lock
    sub,        \* sub[c]: where subscription c is
    subs,       \* the registered subscriptions
    chan,       \* chan[c]: what is buffered in the channel of c
    closed,     \* the channels that are closed
    left,       \* left[p]: the channels p has still to offer its price to
    sending,    \* sending[p]: the stamp of the price p is, or was, publishing
    joined,     \* history: joined[c][p] is sending[p] when c was registered
    seen,       \* history: seen[c] is what was received from the channel of c
    dropped     \* history: dropped[c] is what did not fit into it

lockVars == <<writer, readers>>
tailVars == <<seen, dropped, joined>>
vars == <<lockVars, sub, subs, chan, closed, left, sending, tailVars>>

\* A price, by who publishes it and when: stamps of a publisher increase.
Message == [from : Publishers, stamp : Nat]

\* NewBus
buffer == IF Buffer < 1 THEN 16 ELSE Buffer

TypeOK ==
    /\ writer \in Subscribers \cup {Nobody}
    /\ readers \in SUBSET Publishers
    /\ sub \in [Subscribers -> {"none", "subscribing", "live", "cancelling", "cancelled"}]
    /\ subs \in SUBSET Subscribers /\ closed \in SUBSET Subscribers
    /\ chan \in [Subscribers -> Seq(Message)]
    /\ \A c \in Subscribers : Len(chan[c]) <= buffer
    /\ left \in [Publishers -> SUBSET Subscribers]
    /\ sending \in [Publishers -> Nat]
    /\ joined \in [Subscribers -> [Publishers -> Nat]]
    /\ seen \in [Subscribers -> Seq(Message)]
    /\ dropped \in [Subscribers -> SUBSET Message]

Init ==
    /\ writer = Nobody /\ readers = {}
    /\ sub = [c \in Subscribers |-> "none"]
    /\ subs = {} /\ closed = {}
    /\ chan = [c \in Subscribers |-> << >>]
    /\ left = [p \in Publishers |-> {}]
    /\ sending = [p \in Publishers |-> 0]
    /\ joined = [c \in Subscribers |-> sending]
    /\ seen = [c \in Subscribers |-> << >>]
    /\ dropped = [c \in Subscribers |-> {}]

-----------------------------------------------------------------------------
(* Subscribe and cancel.                                                   *)

\* mu.Lock, first half: from here on no further reader gets in.
LockCalled(c, from, to) ==
    /\ sub[c] = from
    /\ writer = Nobody
    /\ writer' = c
    /\ sub' = [sub EXCEPT ![c] = to]
    /\ UNCHANGED <<readers, subs, chan, closed, left, sending, tailVars>>

SubscribeCalled(c) == LockCalled(c, "none", "subscribing")
CancelCalled(c) == LockCalled(c, "live", "cancelling")

\* mu.Lock, second half: the readers that were in have left.
Locked(c) == writer = c /\ readers = {}

Register(c) ==
    /\ sub[c] = "subscribing"
    /\ Locked(c)
    /\ subs' = subs \cup {c}
    /\ joined' = [joined EXCEPT ![c] = sending]
    /\ sub' = [sub EXCEPT ![c] = "live"]
    /\ writer' = Nobody
    /\ UNCHANGED <<readers, chan, closed, left, sending, seen, dropped>>

\* Mutant: cancel closes the channel without waiting for the lock.
CloseUnlocked(c) ==
    /\ sub[c] = "cancelling"
    /\ subs' = subs \ {c} /\ closed' = closed \cup {c}
    /\ sub' = [sub EXCEPT ![c] = "cancelled"]
    /\ writer' = Nobody
    /\ UNCHANGED <<readers, chan, left, sending, tailVars>>

\* The channel is closed once it is out of every publisher's reach.
Unregister(c) ==
    /\ sub[c] = "cancelling"
    /\ Locked(c)
    /\ subs' = subs \ {c} /\ closed' = closed \cup {c}
    /\ sub' = [sub EXCEPT ![c] = "cancelled"]
    /\ writer' = Nobody
    /\ UNCHANGED <<readers, chan, left, sending, tailVars>>

\* The subscriber takes a price from its channel.
Receive(c) ==
    /\ sub[c] = "live"
    /\ chan[c] # << >>
    /\ seen' = [seen EXCEPT ![c] = Append(@, Head(chan[c]))]
    /\ chan' = [chan EXCEPT ![c] = Tail(@)]
    /\ UNCHANGED <<lockVars, sub, subs, closed, left, sending, joined, dropped>>

-----------------------------------------------------------------------------
(* Publish.                                                                *)

\* mu.RLock, which waits for a writer that came first.
PublishCalled(p, stamp) ==
    /\ p \notin readers
    /\ writer = Nobody
    /\ readers' = readers \cup {p}
    /\ sending' = [sending EXCEPT ![p] = stamp]
    /\ left' = [left EXCEPT ![p] = subs]
    /\ UNCHANGED <<writer, sub, subs, chan, closed, tailVars>>

Price(p) == [from |-> p, stamp |-> sending[p]]

\* Mutant: no default in the select.
BlockingSend(p, c) ==
    /\ c \in left[p]
    /\ Len(chan[c]) < buffer
    /\ chan' = [chan EXCEPT ![c] = Append(@, Price(p))]
    /\ left' = [left EXCEPT ![p] = @ \ {c}]
    /\ UNCHANGED <<lockVars, sub, subs, closed, sending, tailVars>>

\* Mutant: the channel has no bound.
Unbounded(p, c) ==
    /\ c \in left[p]
    /\ chan' = [chan EXCEPT ![c] = Append(@, Price(p))]
    /\ left' = [left EXCEPT ![p] = @ \ {c}]
    /\ UNCHANGED <<lockVars, sub, subs, closed, sending, tailVars>>

\* Mutant: a full channel ends the loop over the channels.
GivesUp(p, c) ==
    /\ c \in left[p]
    /\ \/ /\ Len(chan[c]) < buffer
          /\ chan' = [chan EXCEPT ![c] = Append(@, Price(p))]
          /\ left' = [left EXCEPT ![p] = @ \ {c}]
          /\ UNCHANGED dropped
       \/ /\ Len(chan[c]) >= buffer
          /\ dropped' = [dropped EXCEPT ![c] = @ \cup {Price(p)}]
          /\ left' = [left EXCEPT ![p] = {}]
          /\ UNCHANGED chan
    /\ UNCHANGED <<lockVars, sub, subs, closed, sending, seen, joined>>

\* Mutant: a channel stays on the list after a send that succeeded.
Redelivers(p, c) ==
    /\ c \in left[p]
    /\ \/ /\ Len(chan[c]) < buffer
          /\ chan' = [chan EXCEPT ![c] = Append(@, Price(p))]
          /\ UNCHANGED <<left, dropped>>
       \/ /\ Len(chan[c]) >= buffer
          /\ dropped' = [dropped EXCEPT ![c] = @ \cup {Price(p)}]
          /\ left' = [left EXCEPT ![p] = @ \ {c}]
          /\ UNCHANGED chan
    /\ UNCHANGED <<lockVars, sub, subs, closed, sending, seen, joined>>

\* The select of Publish for one channel.
Offer(p, c) ==
    /\ c \in left[p]
    /\ left' = [left EXCEPT ![p] = @ \ {c}]
    /\ \/ /\ Len(chan[c]) < buffer
          /\ chan' = [chan EXCEPT ![c] = Append(@, Price(p))]
          /\ UNCHANGED dropped
       \/ /\ Len(chan[c]) >= buffer
          /\ dropped' = [dropped EXCEPT ![c] = @ \cup {Price(p)}]
          /\ UNCHANGED chan
    /\ UNCHANGED <<lockVars, sub, subs, closed, sending, seen, joined>>

\* mu.RUnlock
PublishReturns(p) ==
    /\ p \in readers
    /\ left[p] = {}
    /\ readers' = readers \ {p}
    /\ UNCHANGED <<writer, sub, subs, chan, closed, left, sending, tailVars>>

Publish(p) ==
    \/ \E c \in Subscribers : Offer(p, c)
    \/ PublishReturns(p)

Next ==
    \/ \E c \in Subscribers :
          \/ SubscribeCalled(c) \/ Register(c)
          \/ CancelCalled(c) \/ Unregister(c)
          \/ Receive(c)
    \/ \E p \in Publishers :
          \/ \E stamp \in (sending[p] + 1)..MaxStamp : PublishCalled(p, stamp)
          \/ Publish(p)

Spec == Init /\ [][Next]_vars

-----------------------------------------------------------------------------
(* Safety.                                                                 *)

\* No publisher sends on a closed channel, which would panic and take the
\* process down: cancel closes under the write lock (bus.go: cancel, Publish).
NeverSendsOnClosed == \A p \in Publishers : left[p] \cap closed = {}

\* What the channel of c delivered and holds.
Stream(c) == seen[c] \o chan[c]

\* A live subscription has received, holds or was denied for lack of room
\* every price whose Publish began after Subscribe returned, but for the ones
\* being offered right now.
Accounted ==
    \A c \in Subscribers : sub[c] \in {"live", "cancelling"} =>
        \A p \in Publishers : sending[p] > joined[c][p] =>
            \/ c \in left[p]
            \/ Price(p) \in dropped[c]
            \/ \E i \in DOMAIN Stream(c) : Stream(c)[i] = Price(p)

\* A subscriber gets the prices of one publisher in the order they were
\* published, none twice, and none from before it subscribed.
InOrder ==
    \A c \in Subscribers :
        LET s == Stream(c)
        IN  /\ \A i, j \in DOMAIN s : i < j /\ s[i].from = s[j].from => s[i].stamp < s[j].stamp
            /\ \A i \in DOMAIN s : /\ joined[c][s[i].from] < s[i].stamp
                                   /\ s[i].stamp <= sending[s[i].from]

-----------------------------------------------------------------------------
(* Liveness.                                                               *)

\* Publishers and callers of Subscribe and cancel run.  Nothing is assumed of
\* subscribers: they need never receive.
Fairness ==
    /\ \A p \in Publishers : WF_vars(Publish(p))
    /\ \A c \in Subscribers : WF_vars(Register(c) \/ Unregister(c))

FairSpec == Spec /\ Fairness

\* A subscriber that does not drain its channel holds up neither a publisher
\* nor one that waits for the lock.
NobodyWaitsForSubscribers ==
    /\ \A p \in Publishers : p \in readers ~> p \notin readers
    /\ \A c \in Subscribers : writer = c ~> writer # c

=============================================================================
