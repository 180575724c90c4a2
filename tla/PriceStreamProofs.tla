-------------------------- MODULE PriceStreamProofs --------------------------
(***************************************************************************)
(* The streams are safe for any assets, clients, requests and rows.  What  *)
(* a client was sent, what its handler is about to send and what waits in  *)
(* its channel never go back; the bus's own invariant comes from BusProofs. *)
(***************************************************************************)
EXTENDS PriceStream, SequenceTheorems, TLAPS

P == INSTANCE BusProofs WITH Publishers <- Assets, Subscribers <- Streams, MaxStamp <- MaxRows

Message == [from : Assets, stamp : Nat]

\* What was sent, and what is about to be.
Shown(c) == IF hand[c] = NoPrice THEN received[c] ELSE Append(received[c], hand[c])

First(s, i) == \A k \in 1..(i - 1) : s[k].from # s[i].from

\* m may follow the i-th of s.
Before(s, i, m) ==
    s[i].from = m.from =>
        /\ s[i].stamp <= m.stamp
        /\ s[i].stamp = m.stamp => First(s, i)

Sorted(s) == \A i, j \in DOMAIN s : i < j => Before(s, i, s[j])

\* A loop and its publication.
Round(a) ==
    /\ sending[a] <= db[a] /\ db[a] <= MaxRows
    /\ loop[a] = "publish" => sending[a] < db[a]
    /\ loop[a] = "publishing" => sending[a] = db[a]
    /\ loop[a] = "publishing" <=> a \in readers
    /\ \A t \in acked[a] : t <= sending[a] \/ (t = db[a] /\ loop[a] = "publish")

\* Where a handler is.
Placed(c) ==
    /\ step[c] \in {"new", "refused", "snapshot", "first"} => sub[c] = "none"
    /\ step[c] = "subscribe" => sub[c] = "subscribing"
    /\ step[c] \in {"tail", "send", "cancel"} => sub[c] = "live"
    /\ step[c] = "leave" => sub[c] = "cancelling"
    /\ step[c] \in {"new", "refused", "snapshot", "subscribe", "tail"} => hand[c] = NoPrice
    /\ step[c] \in {"first", "send"} => hand[c] \in Message
    /\ step[c] = "new" => received[c] = << >>

\* What it shows is in the table, and was read there first or came by the bus.
Known(c) ==
    /\ \A i \in DOMAIN Shown(c) :
          /\ Shown(c)[i].stamp \in 1..db[Shown(c)[i].from]
          /\ \/ First(Shown(c), i)
             \/ \E k \in DOMAIN seen[c] : seen[c][k] = Shown(c)[i]
    /\ step[c] \in {"snapshot", "first"} => \A i \in DOMAIN Shown(c) : Shown(c)[i].from \notin todo[c]

\* What it shows is in order, what waits for it may follow, and so may what is
\* still to be offered.
Ahead(c) ==
    /\ Sorted(Shown(c))
    /\ \A i \in DOMAIN Shown(c), j \in DOMAIN chan[c] : Before(Shown(c), i, chan[c][j])
    /\ \A a \in Assets : c \in left[a] =>
          \A i \in DOMAIN Shown(c) : Shown(c)[i].from = a => Shown(c)[i].stamp <= sending[a]

\* What an open subscription is still owed.
Owed(c) ==
    step[c] \in {"tail", "send"} =>
        \A a \in wanted[c] : \A t \in acked[a] :
            \/ t <= joined[c][a]
            \/ [from |-> a, stamp |-> t] \in Held(c)
            \/ t = db[a] /\ (loop[a] = "publish" \/ (loop[a] = "publishing" /\ c \in left[a]))

Stream(c) == Placed(c) /\ Known(c) /\ Ahead(c) /\ Owed(c)

Inv ==
    /\ TypeOK /\ P!Inv
    /\ \A a \in Assets : Round(a)
    /\ \A c \in Streams : Stream(c)

-----------------------------------------------------------------------------
(* The bus.                                                                *)

LEMMA BusConstants == P!BusAssumption
BY RequestsAssumption DEF RequestsAssumption, P!BusAssumption

LEMMA Messages == B!Message = Message /\ P!Message = Message
BY DEF Message, B!Message, P!Message

LEMMA SameTypes == B!TypeOK <=> P!TypeOK
BY DEF B!TypeOK, P!TypeOK, B!Message, P!Message, B!buffer, P!buffer

LEMMA SameInit == B!Init <=> P!Init
BY DEF B!Init, P!Init

LEMMA SameNext == [B!Next]_(B!vars) => [P!Next]_(P!vars)
<1>. USE DEF B!lockVars, B!tailVars, P!lockVars, P!tailVars
<1>1. ASSUME NEW c \in Streams,
             B!SubscribeCalled(c) \/ B!Register(c) \/ B!CancelCalled(c) \/ B!Unregister(c)
      PROVE  P!SubscribeCalled(c) \/ P!Register(c) \/ P!CancelCalled(c) \/ P!Unregister(c)
  BY <1>1 DEF B!SubscribeCalled, B!Register, B!CancelCalled, B!Unregister, B!LockCalled, B!Locked,
              P!SubscribeCalled, P!Register, P!CancelCalled, P!Unregister, P!LockCalled, P!Locked
<1>2. ASSUME NEW c \in Streams, B!Receive(c)  PROVE P!Receive(c)
  BY <1>2 DEF B!Receive, P!Receive
<1>3. ASSUME NEW a \in Assets, NEW stamp, B!PublishCalled(a, stamp)
      PROVE  P!PublishCalled(a, stamp)
  BY <1>3 DEF B!PublishCalled, P!PublishCalled
<1>4. ASSUME NEW a \in Assets, B!Publish(a)  PROVE P!Publish(a)
  BY <1>4 DEF B!Publish, P!Publish, B!Offer, P!Offer, B!Price, P!Price, B!buffer, P!buffer,
              B!PublishReturns, P!PublishReturns
<1>5. UNCHANGED B!vars => UNCHANGED P!vars
  BY DEF B!vars, P!vars
<1>. QED  BY <1>1, <1>2, <1>3, <1>4, <1>5 DEF B!Next, P!Next

\* A step of the bus keeps the bus's invariant.
LEMMA BusKeeps ==
    ASSUME TypeOK, P!Inv, [B!Next]_(B!vars)
    PROVE  B!TypeOK' /\ P!Inv'
<1>1. P!TypeOK
  BY SameTypes DEF TypeOK
<1>2. P!TypeOK'
  BY <1>1, BusConstants, SameNext, P!TypeNext
<1>3. B!TypeOK' <=> P!TypeOK'
  BY DEF B!TypeOK, P!TypeOK, B!Message, P!Message, B!buffer, P!buffer
<1>. QED  BY <1>1, <1>2, <1>3, BusConstants, SameNext, P!InvNext

\* What the bus tells a handler about its channel.
LEMMA Channel ==
    ASSUME TypeOK, P!Inv, NEW c \in Streams
    PROVE  /\ seen[c] \in Seq(Message) /\ chan[c] \in Seq(Message)
           /\ \A j \in DOMAIN chan[c] :
                 /\ chan[c][j] \in Message /\ chan[c][j].from \in Assets
                 /\ chan[c][j].stamp \in 1..sending[chan[c][j].from]
           /\ \A j, k \in DOMAIN chan[c] :
                 j < k /\ chan[c][j].from = chan[c][k].from => chan[c][j].stamp < chan[c][k].stamp
           /\ \A a \in Assets : c \in left[a] =>
                 /\ a \in readers /\ sub[c] \in {"live", "cancelling"}
                 /\ \A k \in DOMAIN seen[c] : seen[c][k].from = a => seen[c][k].stamp < sending[a]
           /\ sub[c] \in {"live", "cancelling"} => c \in subs
           /\ sub[c] \in {"none", "subscribing"} => chan[c] = << >>
<1>. DEFINE s == seen[c]
            t == chan[c]
<1>1. s \in Seq(Message) /\ t \in Seq(Message)
  BY Messages DEF TypeOK, B!TypeOK
<1>2. P!Ordered(c) /\ P!Registered(c) /\ \A a \in Assets : P!Reaching(a)
  BY DEF P!Inv
<1>3. joined[c] \in [Assets -> Nat] /\ sending \in [Assets -> Nat]
  BY DEF TypeOK, B!TypeOK
<1>. HIDE DEF s, t
<1>4. /\ Len(s) \in Nat /\ Len(t) \in Nat
      /\ DOMAIN s = 1..Len(s) /\ DOMAIN t = 1..Len(t)
      /\ s \o t \in Seq(Message) /\ Len(s \o t) = Len(s) + Len(t)
      /\ DOMAIN (s \o t) = 1..(Len(s) + Len(t))
      /\ \A k \in 1..Len(s) : (s \o t)[k] = s[k]
      /\ \A j \in 1..Len(t) : (s \o t)[Len(s) + j] = t[j]
  BY <1>1, ConcatProperties, LenProperties
<1>5. \A k \in 1..Len(s) : k \in DOMAIN (s \o t)
  BY <1>4
<1>6. \A j \in 1..Len(t) : Len(s) + j \in DOMAIN (s \o t)
  BY <1>4
<1>7. P!Stream(c) = s \o t
  BY DEF P!Stream, s, t
<1>8. \A j \in 1..Len(t) : t[j] \in Message /\ t[j].from \in Assets /\ t[j].stamp \in Nat
  <2>1. \A j \in 1..Len(t) : t[j] \in Message
    BY <1>1, <1>4, ElementOfSeq
  <2>. QED  BY <2>1 DEF Message
<1>9. \A j \in 1..Len(t) : t[j].stamp \in 1..sending[t[j].from]
  <2>. SUFFICES ASSUME NEW j \in 1..Len(t)  PROVE t[j].stamp \in 1..sending[t[j].from]
    OBVIOUS
  <2>1. joined[c][t[j].from] < t[j].stamp /\ t[j].stamp <= sending[t[j].from]
    BY <1>2, <1>4, <1>6, <1>7 DEF P!Ordered
  <2>. QED  BY <2>1, <1>3, <1>8
<1>10. \A j, k \in 1..Len(t) : j < k /\ t[j].from = t[k].from => t[j].stamp < t[k].stamp
  <2>. SUFFICES ASSUME NEW j \in 1..Len(t), NEW k \in 1..Len(t), j < k, t[j].from = t[k].from
                PROVE  t[j].stamp < t[k].stamp
    OBVIOUS
  <2>1. \A i, l \in DOMAIN (s \o t) : i < l /\ (s \o t)[i].from = (s \o t)[l].from
                                        => (s \o t)[i].stamp < (s \o t)[l].stamp
    BY <1>2, <1>7 DEF P!Ordered
  <2>2. /\ Len(s) + j < Len(s) + k
        /\ Len(s) + j \in DOMAIN (s \o t) /\ Len(s) + k \in DOMAIN (s \o t)
        /\ (s \o t)[Len(s) + j] = t[j] /\ (s \o t)[Len(s) + k] = t[k]
    BY <1>4, <1>6
  <2>. QED  BY <2>1, <2>2
<1>11. ASSUME NEW a \in Assets, c \in left[a]
       PROVE  /\ a \in readers /\ sub[c] \in {"live", "cancelling"}
              /\ \A k \in 1..Len(s) : s[k].from = a => s[k].stamp < sending[a]
  <2>1. /\ a \notin readers => left[a] = {}
        /\ \A i \in DOMAIN (s \o t) : (s \o t)[i].from = a => (s \o t)[i].stamp < sending[a]
    BY <1>2, <1>7, <1>11 DEF P!Reaching
  <2>2. \A k \in 1..Len(s) : k \in DOMAIN (s \o t) /\ (s \o t)[k] = s[k]
    BY <1>4, <1>5
  <2>3. sub[c] \in {"live", "cancelling"}
    BY <1>2, <1>11 DEF P!Reaching, P!Registered
  <2>. QED  BY <1>11, <2>1, <2>2, <2>3
<1>12. sub[c] \in {"none", "subscribing"} => t = << >>
  BY <1>2 DEF P!Registered, t
<1>13. sub[c] \in {"live", "cancelling"} => c \in subs
  BY <1>2 DEF P!Registered
<1>. QED  BY <1>1, <1>4, <1>8, <1>9, <1>10, <1>11, <1>12, <1>13 DEF s, t

-----------------------------------------------------------------------------
(* Sequences of messages.                                                  *)

LEMMA Longer ==
    ASSUME NEW s \in Seq(Message), NEW m \in Message
    PROVE  /\ Append(s, m) \in Seq(Message)
           /\ Len(s) \in Nat /\ DOMAIN s = 1..Len(s) /\ DOMAIN Append(s, m) = 1..(Len(s) + 1)
           /\ \A i \in 1..Len(s) : Append(s, m)[i] = s[i]
           /\ Append(s, m)[Len(s) + 1] = m
BY AppendProperties, LenProperties

LEMMA Shorter ==
    ASSUME NEW s \in Seq(Message), s # << >>
    PROVE  /\ Tail(s) \in Seq(Message)
           /\ Head(s) = s[1] /\ 1 \in DOMAIN s /\ Head(s) \in Message
           /\ \A j \in DOMAIN Tail(s) : j + 1 \in DOMAIN s /\ Tail(s)[j] = s[j + 1] /\ 1 < j + 1
<1>1. /\ Tail(s) \in Seq(Message) /\ Head(s) = s[1] /\ Head(s) \in Message
      /\ Len(Tail(s)) = Len(s) - 1 /\ Len(s) \in Nat \ {0}
      /\ \A j \in 1..Len(Tail(s)) : Tail(s)[j] = s[j + 1]
  BY HeadTailProperties
<1>2. DOMAIN s = 1..Len(s) /\ DOMAIN Tail(s) = 1..Len(Tail(s))
  BY <1>1, LenProperties
<1>. QED  BY <1>1, <1>2

\* Being the first, and coming before, does not depend on what is appended.
LEMMA FirstKept ==
    ASSUME NEW s \in Seq(Message), NEW m \in Message, NEW i \in DOMAIN s
    PROVE  First(Append(s, m), i) <=> First(s, i)
<1>1. /\ i \in 1..Len(s) /\ Len(s) \in Nat
      /\ \A k \in 1..Len(s) : Append(s, m)[k] = s[k]
  BY Longer
<1>2. \A k \in 1..(i - 1) : k \in 1..Len(s)
  BY <1>1
<1>. QED  BY <1>1, <1>2 DEF First

LEMMA SortedLonger ==
    ASSUME NEW s \in Seq(Message), NEW m \in Message, Sorted(s),
           \A i \in DOMAIN s : Before(s, i, m)
    PROVE  Sorted(Append(s, m))
<1>. DEFINE t == Append(s, m)
            n == Len(s)
<1>1. /\ n \in Nat /\ DOMAIN s = 1..n /\ DOMAIN t = 1..(n + 1)
      /\ \A i \in 1..n : t[i] = s[i]
      /\ t[n + 1] = m
      /\ \A i \in 1..n : First(t, i) <=> First(s, i)
  BY Longer, FirstKept
<1>. SUFFICES ASSUME NEW i \in 1..(n + 1), NEW j \in 1..(n + 1), i < j
              PROVE  Before(t, i, t[j])
  BY <1>1 DEF Sorted
<1>. HIDE DEF t, n
<1>2. i \in 1..n /\ (j \in 1..n \/ j = n + 1)
  BY <1>1
<1>3. Before(t, i, t[j]) <=> Before(s, i, t[j])
  BY <1>1, <1>2 DEF Before
<1>4. Before(s, i, t[j])
  BY <1>1, <1>2 DEF Sorted
<1>. QED  BY <1>3, <1>4

-----------------------------------------------------------------------------
(* The loops.                                                              *)

LEMMA Typing ==
    ASSUME TypeOK
    PROVE  /\ \A a \in Assets : db[a] \in Nat /\ acked[a] \subseteq 1..db[a] /\ sending[a] \in Nat
           /\ \A c \in Streams : /\ received[c] \in Seq(Message)
                                 /\ hand[c] \in Message \cup {NoPrice}
                                 /\ wanted[c] \subseteq Assets
                                 /\ joined[c] \in [Assets -> Nat]
           /\ NoPrice \notin Message
BY Messages, RequestsAssumption
   DEF TypeOK, B!TypeOK, RequestsAssumption, NoPrice, Message

LEMMA ShownTyped ==
    ASSUME TypeOK, NEW c \in Streams
    PROVE  /\ Shown(c) \in Seq(Message)
           /\ \A i \in DOMAIN Shown(c) : /\ Shown(c)[i] \in Message
                                         /\ Shown(c)[i].from \in Assets
                                         /\ Shown(c)[i].stamp \in Nat
<1>1. Shown(c) \in Seq(Message)
  BY Typing, Longer DEF Shown
<1>2. \A i \in DOMAIN Shown(c) : Shown(c)[i] \in Message
  BY <1>1, ElementOfSeq, LenProperties
<1>. QED  BY <1>1, <1>2 DEF Message

\* The handler of c does nothing.
Rests(c) ==
    /\ step'[c] = step[c] /\ wanted'[c] = wanted[c] /\ todo'[c] = todo[c] /\ hand'[c] = hand[c]
    /\ received'[c] = received[c]
    /\ sub'[c] = sub[c] /\ seen'[c] = seen[c] /\ joined'[c] = joined[c]

LEMMA RestKeeps ==
    ASSUME Inv, NEW c \in Streams, Rests(c),
           \A a \in Assets : db'[a] \in Nat /\ db[a] <= db'[a]
    PROVE  Shown(c)' = Shown(c) /\ Placed(c)' /\ Known(c)'
<1>1. Shown(c)' = Shown(c)
  BY DEF Rests, Shown
<1>2. Placed(c)'
  BY DEF Inv, Stream, Placed, Rests
<1>3. ASSUME NEW i \in DOMAIN Shown(c)
      PROVE  Shown(c)[i].stamp \in 1..db'[Shown(c)[i].from]
  <2>1. Shown(c)[i].from \in Assets /\ Shown(c)[i].stamp \in 1..db[Shown(c)[i].from]
    BY ShownTyped DEF Inv, Stream, Known
  <2>. QED  BY <2>1, Typing DEF Inv
<1>4. Known(c)'
  BY <1>1, <1>3 DEF Inv, Stream, Known, Rests
<1>. QED  BY <1>1, <1>2, <1>4

\* Nothing is offered, and nothing waits, that was not.
LEMMA AheadKept ==
    ASSUME Inv, NEW c \in Streams, Shown(c)' = Shown(c), chan'[c] = chan[c],
           \A a \in Assets : /\ left'[a] \cap {c} \subseteq left[a]
                             /\ sending'[a] = sending[a]
    PROVE  Ahead(c)'
BY DEF Inv, Stream, Ahead

LEMMA PersistsKeeps ==
    ASSUME Inv, NEW a \in Assets, Persists(a)
    PROVE  Inv'
<1>1. /\ loop[a] = "idle" /\ db[a] < MaxRows /\ db' = [db EXCEPT ![a] = @ + 1]
      /\ UNCHANGED <<busVars, handlerVars>>
      /\ \/ /\ acked' = [acked EXCEPT ![a] = @ \cup {db[a] + 1}]
            /\ loop' = [loop EXCEPT ![a] = "publish"]
         \/ UNCHANGED <<acked, loop>>
  BY DEF Persists
<1>2. /\ UNCHANGED <<writer, readers, sub, subs, chan, closed, left, sending, joined, seen, dropped>>
      /\ UNCHANGED <<step, wanted, todo, hand, gone, received>>
  BY <1>1 DEF busVars, handlerVars
<1>3. B!TypeOK' /\ P!Inv'
  BY <1>2, BusKeeps DEF Inv, B!vars, B!lockVars, B!tailVars
<1>4. /\ db'[a] = db[a] + 1 /\ \A b \in Assets \ {a} : db'[b] = db[b]
      /\ \A b \in Assets : db'[b] \in Nat /\ db[b] <= db'[b]
  BY <1>1, Typing DEF Inv, TypeOK
<1>5. /\ \A b \in Assets \ {a} : acked'[b] = acked[b] /\ loop'[b] = loop[b]
      /\ \/ acked'[a] = acked[a] \cup {db[a] + 1} /\ loop'[a] = "publish"
         \/ acked'[a] = acked[a] /\ loop'[a] = "idle"
  BY <1>1 DEF Inv, TypeOK
<1>6. TypeOK'
  <2>1. db' \in [Assets -> Nat] /\ loop' \in [Assets -> {"idle", "publish", "publishing"}]
    BY <1>1 DEF Inv, TypeOK
  <2>2. acked' \in [Assets -> SUBSET Nat]
    BY <1>1, Typing DEF Inv, TypeOK
  <2>3. \A b \in Assets : acked'[b] \subseteq 1..db'[b]
    BY <1>4, <1>5, Typing DEF Inv
  <2>. QED  BY <1>2, <1>3, <2>1, <2>2, <2>3 DEF Inv, TypeOK
<1>7. ASSUME NEW b \in Assets  PROVE Round(b)'
  <2>1. CASE b = a
    <3>1. /\ sending[a] <= db[a] /\ a \notin readers
          /\ \A t \in acked[a] : t <= sending[a]
      BY <1>1 DEF Inv, Round
    <3>2. db'[a] <= MaxRows /\ sending[a] < db'[a] /\ sending[a] <= db'[a]
      BY <1>1, <1>4, <3>1, Typing, RequestsAssumption DEF Inv, RequestsAssumption
    <3>3. \A t \in acked'[a] : t <= sending[a] \/ (t = db'[a] /\ loop'[a] = "publish")
      BY <1>4, <1>5, <3>1
    <3>4. loop'[a] \in {"idle", "publish"}
      BY <1>5
    <3>. QED  BY <1>2, <2>1, <3>1, <3>2, <3>3, <3>4 DEF Round
  <2>2. CASE b # a
    BY <1>2, <1>4, <1>5, <2>2 DEF Inv, Round
  <2>. QED  BY <2>1, <2>2
<1>8. ASSUME NEW c \in Streams  PROVE Stream(c)'
  <2>1. Shown(c)' = Shown(c) /\ Placed(c)' /\ Known(c)'
    BY <1>2, <1>4, RestKeeps DEF Rests
  <2>2. Ahead(c)'
    BY <1>2, <2>1, AheadKept
  <2>3. Held(c)' = Held(c)
    BY <1>2 DEF Held
  <2>4. Owed(c)'
    <3>. SUFFICES ASSUME step[c] \in {"tail", "send"}, NEW b \in wanted[c], NEW t \in acked'[b]
                  PROVE  \/ t <= joined[c][b]
                         \/ [from |-> b, stamp |-> t] \in Held(c)
                         \/ t = db'[b] /\ (loop'[b] = "publish" \/ (loop'[b] = "publishing" /\ c \in left[b]))
      BY <1>2, <2>3 DEF Owed
    <3>1. b \in Assets
      BY Typing DEF Inv
    <3>2. CASE t \in acked[b]
      BY <1>1, <1>4, <1>5, <3>1, <3>2 DEF Inv, Stream, Owed
    <3>3. CASE t \notin acked[b]
      BY <1>4, <1>5, <3>1, <3>3
    <3>. QED  BY <3>2, <3>3
  <2>. QED  BY <2>1, <2>2, <2>4 DEF Stream
<1>. QED  BY <1>3, <1>6, <1>7, <1>8 DEF Inv

\* What is published is not older than what anybody was shown.
LEMMA PublishesKeeps ==
    ASSUME Inv, NEW a \in Assets, Publishes(a)
    PROVE  Inv'
<1>1. /\ loop[a] = "publish" /\ loop' = [loop EXCEPT ![a] = "publishing"]
      /\ B!PublishCalled(a, db[a])
      /\ UNCHANGED <<handlerVars, db, acked>>
  BY DEF Publishes
<1>2. /\ readers' = readers \cup {a} /\ writer = Nobody
      /\ sending' = [sending EXCEPT ![a] = db[a]]
      /\ left' = [left EXCEPT ![a] = subs]
      /\ UNCHANGED <<writer, sub, subs, chan, closed, joined, seen, dropped>>
      /\ UNCHANGED <<step, wanted, todo, hand, gone, received>>
  BY <1>1 DEF B!PublishCalled, B!tailVars, handlerVars
<1>3. db[a] \in (sending[a] + 1)..MaxRows
  BY <1>1, Typing, RequestsAssumption DEF Inv, Round, RequestsAssumption
<1>4. B!TypeOK' /\ P!Inv'
  BY <1>1, <1>3, BusKeeps DEF Inv, B!Next
<1>5. /\ sending'[a] = db[a] /\ left'[a] = subs /\ loop'[a] = "publishing"
      /\ \A b \in Assets \ {a} : sending'[b] = sending[b] /\ left'[b] = left[b] /\ loop'[b] = loop[b]
  BY <1>1, <1>2 DEF Inv, TypeOK, B!TypeOK
<1>6. TypeOK'
  BY <1>1, <1>2, <1>4 DEF Inv, TypeOK
<1>7. ASSUME NEW b \in Assets  PROVE Round(b)'
  BY <1>1, <1>2, <1>3, <1>5, Typing DEF Inv, Round
<1>8. ASSUME NEW c \in Streams  PROVE Stream(c)'
  <2>1. Shown(c)' = Shown(c) /\ Placed(c)' /\ Known(c)'
    BY <1>1, <1>2, Typing, RestKeeps DEF Rests, Inv
  <2>2. Ahead(c)'
    <3>. SUFFICES ASSUME NEW b \in Assets, c \in left'[b], NEW i \in DOMAIN Shown(c),
                         Shown(c)[i].from = b
                  PROVE  Shown(c)[i].stamp <= sending'[b]
      BY <1>2, <2>1 DEF Inv, Stream, Ahead
    <3>1. CASE b = a
      BY <1>5, <3>1, Typing DEF Inv, Stream, Known
    <3>2. CASE b # a
      BY <1>5, <3>2 DEF Inv, Stream, Ahead
    <3>. QED  BY <3>1, <3>2
  <2>3. Held(c)' = Held(c)
    BY <1>2 DEF Held
  <2>4. Owed(c)'
    <3>. SUFFICES ASSUME step[c] \in {"tail", "send"}, NEW b \in wanted[c], NEW t \in acked[b]
                  PROVE  \/ t <= joined[c][b]
                         \/ [from |-> b, stamp |-> t] \in Held(c)
                         \/ t = db[b] /\ (loop'[b] = "publish" \/ (loop'[b] = "publishing" /\ c \in left'[b]))
      BY <1>1, <1>2, <2>3 DEF Owed
    <3>1. b \in Assets /\ c \in subs
      BY Typing, Channel DEF Inv, Stream, Placed
    <3>. QED  BY <1>1, <1>5, <3>1 DEF Inv, Stream, Owed
  <2>. QED  BY <2>1, <2>2, <2>4 DEF Stream
<1>. QED  BY <1>4, <1>6, <1>7, <1>8 DEF Inv


\* What is offered goes behind all that was shown and all that waits.
LEMMA OffersKeeps ==
    ASSUME Inv, NEW a \in Assets, Offers(a)
    PROVE  Inv'
<1>. PICK d \in Streams : B!Offer(a, d)
  BY DEF Offers
<1>. DEFINE m == [from |-> a, stamp |-> sending[a]]
<1>1. /\ d \in left[a] /\ left' = [left EXCEPT ![a] = @ \ {d}]
      /\ UNCHANGED <<writer, readers, sub, subs, closed, sending, seen, joined>>
      /\ \/ chan' = [chan EXCEPT ![d] = Append(@, m)] /\ dropped' = dropped
         \/ dropped' = [dropped EXCEPT ![d] = @ \cup {m}] /\ chan' = chan
      /\ UNCHANGED <<db, acked, loop>>
      /\ UNCHANGED <<step, wanted, todo, hand, gone, received>>
  BY DEF Offers, B!Offer, B!Price, B!lockVars, loopVars, handlerVars
<1>2. B!TypeOK' /\ P!Inv'
  BY BusKeeps DEF Inv, B!Next, B!Publish
<1>3. TypeOK'
  BY <1>1, <1>2 DEF Inv, TypeOK
<1>4. ASSUME NEW b \in Assets  PROVE Round(b)'
  BY <1>1 DEF Inv, Round
<1>5. /\ m \in Message /\ m.from = a /\ m.stamp = sending[a]
      /\ a \in readers /\ loop[a] = "publishing" /\ sending[a] = db[a]
      /\ \A k \in DOMAIN seen[d] : seen[d][k].from = a => seen[d][k].stamp < sending[a]
  BY <1>1, Typing, Channel DEF Inv, Round, Message
<1>6. /\ \A b \in Assets : left'[b] \subseteq left[b]
      /\ \A b \in Assets, c \in Streams : c \in left[b] /\ (b # a \/ c # d) => c \in left'[b]
      /\ \A c \in Streams \ {d} : chan'[c] = chan[c] /\ dropped'[c] = dropped[c]
      /\ \/ chan'[d] = Append(chan[d], m) /\ dropped'[d] = dropped[d]
         \/ chan'[d] = chan[d] /\ dropped'[d] = dropped[d] \cup {m}
  BY <1>1 DEF Inv, TypeOK, B!TypeOK
<1>. HIDE DEF m
<1>7. /\ chan[d] \in Seq(Message) /\ Len(chan[d]) \in Nat /\ DOMAIN chan[d] = 1..Len(chan[d])
      /\ DOMAIN Append(chan[d], m) = 1..(Len(chan[d]) + 1)
      /\ \A i \in 1..Len(chan[d]) : Append(chan[d], m)[i] = chan[d][i]
      /\ Append(chan[d], m)[Len(chan[d]) + 1] = m
  BY <1>5, Channel, Longer DEF Inv
<1>8. ASSUME NEW c \in Streams  PROVE Stream(c)'
  <2>1. Shown(c)' = Shown(c) /\ Placed(c)' /\ Known(c)'
    <3>1. Rests(c)
      BY <1>1 DEF Rests
    <3>2. \A b \in Assets : db'[b] \in Nat /\ db[b] <= db'[b]
      BY <1>1, Typing DEF Inv
    <3>. QED  BY <3>1, <3>2, RestKeeps
  <2>2. ASSUME c = d, NEW i \in DOMAIN Shown(c)  PROVE Before(Shown(c), i, m)
    <3>1. Shown(c)[i].from = a => Shown(c)[i].stamp <= sending[a]
      BY <1>1, <2>2 DEF Inv, Stream, Ahead
    <3>2. \/ First(Shown(c), i)
          \/ \E k \in DOMAIN seen[c] : seen[c][k] = Shown(c)[i]
      BY DEF Inv, Stream, Known
    <3>3. /\ sending[a] \in Nat
          /\ \A k \in DOMAIN seen[c] : seen[c][k].from = a => seen[c][k].stamp # sending[a]
      BY <1>5, <2>2, Typing DEF Inv
    <3>. QED  BY <1>5, <3>1, <3>2, <3>3 DEF Before
  <2>3. Ahead(c)'
    <3>1. CASE chan'[c] = chan[c]
      BY <1>1, <1>6, <2>1, <3>1, AheadKept
    <3>2. CASE chan'[c] # chan[c]
      <4>1. c = d /\ chan'[c] = Append(chan[c], m)
        BY <1>6, <3>2
      <4>2. ASSUME NEW i \in DOMAIN Shown(c), NEW j \in DOMAIN chan'[c]
            PROVE  Before(Shown(c), i, chan'[c][j])
        <5>1. j \in DOMAIN chan[c] \/ j = Len(chan[c]) + 1
          BY <1>7, <4>1
        <5>2. CASE j \in DOMAIN chan[c]
          BY <1>7, <4>1, <5>2 DEF Inv, Stream, Ahead
        <5>3. CASE j = Len(chan[c]) + 1
          BY <1>7, <2>2, <4>1, <5>3
        <5>. QED  BY <5>1, <5>2, <5>3
      <4>. QED  BY <1>1, <1>6, <2>1, <4>2 DEF Inv, Stream, Ahead
    <3>. QED  BY <3>1, <3>2
  <2>4. Held(c) \subseteq Held(c)' /\ (c = d => m \in Held(c)')
    <3>1. /\ {chan[c][i] : i \in DOMAIN chan[c]} \subseteq {chan'[c][i] : i \in DOMAIN chan'[c]}
          /\ dropped[c] \subseteq dropped'[c]
      <4>1. CASE chan'[c] = chan[c]
        BY <1>6, <4>1
      <4>2. CASE chan'[c] # chan[c]
        <5>1. c = d /\ chan'[c] = Append(chan[c], m) /\ dropped'[c] = dropped[c]
          BY <1>6, <4>2
        <5>. QED  BY <1>7, <5>1
      <4>. QED  BY <4>1, <4>2
    <3>2. c = d => \/ m \in dropped'[c]
                   \/ m \in {chan'[c][i] : i \in DOMAIN chan'[c]}
      <4>1. Len(chan[d]) + 1 \in 1..(Len(chan[d]) + 1)
        BY <1>7
      <4>. QED  BY <1>6, <1>7, <4>1
    <3>. QED  BY <1>1, <3>1, <3>2 DEF Held
  <2>5. Owed(c)'
    <3>. SUFFICES ASSUME step[c] \in {"tail", "send"}, NEW b \in wanted[c], NEW t \in acked[b]
                  PROVE  \/ t <= joined[c][b]
                         \/ [from |-> b, stamp |-> t] \in Held(c)'
                         \/ t = db[b] /\ (loop[b] = "publish" \/ (loop[b] = "publishing" /\ c \in left'[b]))
      BY <1>1 DEF Owed
    <3>1. b \in Assets
      BY Typing DEF Inv
    <3>2. \/ t <= joined[c][b]
          \/ [from |-> b, stamp |-> t] \in Held(c)
          \/ t = db[b] /\ (loop[b] = "publish" \/ (loop[b] = "publishing" /\ c \in left[b]))
      BY DEF Inv, Stream, Owed
    <3>3. CASE b = a /\ c = d /\ t = db[b]
      BY <1>5, <2>4, <3>3 DEF m
    <3>. QED  BY <1>6, <2>4, <3>1, <3>2, <3>3
  <2>. QED  BY <2>1, <2>3, <2>5 DEF Stream
<1>. QED  BY <1>2, <1>3, <1>4, <1>8 DEF Inv

LEMMA PublishedKeeps ==
    ASSUME Inv, NEW a \in Assets, Published(a)
    PROVE  Inv'
<1>1. /\ a \in readers /\ left[a] = {} /\ readers' = readers \ {a}
      /\ UNCHANGED <<writer, sub, subs, chan, closed, left, sending, joined, seen, dropped>>
      /\ loop' = [loop EXCEPT ![a] = "idle"]
      /\ UNCHANGED <<db, acked>>
      /\ UNCHANGED <<step, wanted, todo, hand, gone, received>>
  BY DEF Published, B!PublishReturns, B!tailVars, handlerVars
<1>2. B!TypeOK' /\ P!Inv'
  BY BusKeeps DEF Inv, Published, B!Next, B!Publish
<1>3. /\ loop'[a] = "idle" /\ loop[a] = "publishing"
      /\ \A b \in Assets \ {a} : loop'[b] = loop[b]
  BY <1>1 DEF Inv, TypeOK, Round
<1>4. TypeOK'
  BY <1>1, <1>2 DEF Inv, TypeOK
<1>5. ASSUME NEW b \in Assets  PROVE Round(b)'
  BY <1>1, <1>3 DEF Inv, Round
<1>6. ASSUME NEW c \in Streams  PROVE Stream(c)'
  <2>1. Shown(c)' = Shown(c) /\ Placed(c)' /\ Known(c)'
    BY <1>1, Typing, RestKeeps DEF Rests, Inv
  <2>2. Ahead(c)'
    BY <1>1, <2>1, AheadKept
  <2>3. Held(c)' = Held(c)
    BY <1>1 DEF Held
  <2>4. Owed(c)'
    <3>. SUFFICES ASSUME step[c] \in {"tail", "send"}, NEW b \in wanted[c], NEW t \in acked[b]
                  PROVE  \/ t <= joined[c][b]
                         \/ [from |-> b, stamp |-> t] \in Held(c)
                         \/ t = db[b] /\ (loop'[b] = "publish" \/ (loop'[b] = "publishing" /\ c \in left[b]))
      BY <1>1, <2>3 DEF Owed
    <3>1. b \in Assets
      BY Typing DEF Inv
    <3>. QED  BY <1>1, <1>3, <3>1 DEF Inv, Stream, Owed
  <2>. QED  BY <2>1, <2>2, <2>4 DEF Stream
<1>. QED  BY <1>2, <1>4, <1>5, <1>6 DEF Inv


-----------------------------------------------------------------------------
(* The handlers.                                                           *)

HandlersTyped ==
    /\ step \in [Streams -> {"new", "refused", "snapshot", "first", "subscribe",
                             "tail", "send", "cancel", "leave", "ended"}]
    /\ wanted \in [Streams -> SUBSET Assets] /\ todo \in [Streams -> SUBSET Assets]
    /\ hand \in [Streams -> Message \cup {NoPrice}]
    /\ gone \in [Streams -> BOOLEAN]
    /\ received \in [Streams -> Seq(Message)]

LEMMA Handlers == TypeOK => HandlersTyped
BY Messages DEF TypeOK, HandlersTyped

\* A step of the handler of c that keeps Stream(c).
LEMMA HandlerKeeps ==
    ASSUME Inv, NEW c \in Streams, Stream(c)', HandlersTyped', [B!Next]_(B!vars),
           UNCHANGED <<readers, left, sending, dropped, db, acked, loop>>,
           \A d \in Streams \ {c} : Rests(d) /\ chan'[d] = chan[d]
    PROVE  Inv'
<1>1. B!TypeOK' /\ P!Inv'
  BY BusKeeps DEF Inv
<1>2. TypeOK'
  BY <1>1, Messages DEF Inv, TypeOK, HandlersTyped, B!Message
<1>3. \A a \in Assets : Round(a)'
  BY DEF Inv, Round
<1>4. ASSUME NEW d \in Streams, d # c  PROVE Stream(d)'
  <2>1. Shown(d)' = Shown(d) /\ Placed(d)' /\ Known(d)'
    BY <1>4, Typing, RestKeeps DEF Inv
  <2>2. Ahead(d)'
    BY <1>4, <2>1, AheadKept
  <2>3. Owed(d)'
    <3>1. Held(d)' = Held(d)
      BY <1>4 DEF Held, Rests
    <3>. QED  BY <1>4, <3>1 DEF Inv, Stream, Owed, Rests
  <2>. QED  BY <2>1, <2>2, <2>3 DEF Stream
<1>. QED  BY <1>1, <1>2, <1>3, <1>4 DEF Inv

\* A step of the handler of c that shows its client nothing new.
LEMMA ShowsNothing ==
    ASSUME Inv, NEW c \in Streams, Shown(c)' = Shown(c), seen'[c] = seen[c], chan'[c] = chan[c],
           UNCHANGED <<left, sending, db, acked, loop>>,
           Placed(c)', Owed(c)',
           step'[c] \in {"snapshot", "first"} =>
               step[c] \in {"snapshot", "first"} /\ todo'[c] \subseteq todo[c]
    PROVE  Stream(c)'
<1>1. Known(c)'
  BY DEF Inv, Stream, Known
<1>2. Ahead(c)'
  BY AheadKept
<1>. QED  BY <1>1, <1>2 DEF Stream

LEMMA BusStutters ==
    ASSUME UNCHANGED busVars
    PROVE  /\ [B!Next]_(B!vars)
           /\ UNCHANGED <<writer, readers, sub, subs, chan, closed, left, sending, joined, seen, dropped>>
BY DEF busVars, B!vars, B!lockVars, B!tailVars

LEMMA RefusesKeeps ==
    ASSUME Inv, NEW c \in Streams, Refuses(c)
    PROVE  Inv'
<1>1. /\ step[c] = "new" /\ step' = [step EXCEPT ![c] = "refused"]
      /\ UNCHANGED <<busVars, loopVars, wanted, todo, hand, gone, received>>
  BY DEF Refuses, At
<1>2. HandlersTyped' /\ step'[c] = "refused" /\ \A d \in Streams \ {c} : step'[d] = step[d]
  BY <1>1, Handlers DEF Inv, HandlersTyped
<1>3. Stream(c)'
  <2>1. Shown(c)' = Shown(c) /\ Placed(c)' /\ Owed(c)'
    BY <1>1, <1>2, BusStutters DEF Inv, Stream, Shown, Placed, Owed
  <2>. QED  BY <1>1, <1>2, <2>1, BusStutters, ShowsNothing DEF loopVars
<1>. QED  BY <1>1, <1>2, <1>3, BusStutters, HandlerKeeps DEF Rests, loopVars

LEMMA OpensKeeps ==
    ASSUME Inv, NEW c \in Streams, Opens(c)
    PROVE  Inv'
<1>1. /\ step[c] = "new" /\ step' = [step EXCEPT ![c] = "snapshot"]
      /\ UNCHANGED <<busVars, loopVars, hand, gone, received>>
      /\ todo' = [todo EXCEPT ![c] = wanted'[c]]
  BY DEF Opens, At
<1>2. PICK request \in Requests :
         ~ Invalid(request) /\ wanted' = [wanted EXCEPT ![c] = ToSet(request)]
  BY DEF Opens
<1>3. ToSet(request) \subseteq Assets
  <2>1. request \in Seq(Assets \cup {BadId})
    BY RequestsAssumption DEF RequestsAssumption
  <2>2. \A i \in DOMAIN request : request[i] \in Assets \cup {BadId}
    BY <2>1, ElementOfSeq, LenProperties
  <2>. QED  BY <1>2, <2>2 DEF Invalid, ToSet
<1>4. /\ HandlersTyped' /\ step'[c] = "snapshot"
      /\ \A d \in Streams \ {c} : /\ step'[d] = step[d] /\ wanted'[d] = wanted[d]
                                  /\ todo'[d] = todo[d]
  BY <1>1, <1>2, <1>3, Handlers DEF Inv, HandlersTyped
<1>5. Stream(c)'
  <2>1. Shown(c)' = << >> /\ Shown(c) = << >> /\ Placed(c)' /\ Owed(c)'
    BY <1>1, <1>4, BusStutters DEF Inv, Stream, Shown, Placed, Owed
  <2>2. DOMAIN << >> = {}
    OBVIOUS
  <2>3. Known(c)'
    BY <2>1, <2>2 DEF Known
  <2>4. Ahead(c)'
    BY <2>1, <2>2 DEF Ahead, Sorted
  <2>. QED  BY <2>1, <2>3, <2>4 DEF Stream
<1>. QED  BY <1>1, <1>4, <1>5, BusStutters, HandlerKeeps DEF Rests, loopVars

LEMMA SnapshotSkipsKeeps ==
    ASSUME Inv, NEW c \in Streams, NEW a \in Assets, SnapshotSkips(c, a)
    PROVE  Inv'
<1>1. /\ step[c] = "snapshot" /\ step' = [step EXCEPT ![c] = "snapshot"]
      /\ todo' = [todo EXCEPT ![c] = @ \ {a}]
      /\ UNCHANGED <<busVars, loopVars, wanted, hand, gone, received>>
  BY DEF SnapshotSkips, At
<1>2. /\ HandlersTyped' /\ step'[c] = "snapshot" /\ todo'[c] = todo[c] \ {a}
      /\ \A d \in Streams \ {c} : step'[d] = step[d] /\ todo'[d] = todo[d]
  BY <1>1, Handlers DEF Inv, HandlersTyped
<1>3. Stream(c)'
  <2>1. Shown(c)' = Shown(c) /\ Placed(c)' /\ Owed(c)'
    BY <1>1, <1>2, BusStutters DEF Inv, Stream, Shown, Placed, Owed
  <2>. QED  BY <1>1, <1>2, <2>1, BusStutters, ShowsNothing DEF loopVars
<1>. QED  BY <1>1, <1>2, <1>3, BusStutters, HandlerKeeps DEF Rests, loopVars

\* A row that is read is the first of its asset: none was sent, nothing waits.
LEMMA SnapshotReadsKeeps ==
    ASSUME Inv, NEW c \in Streams, NEW a \in Assets, SnapshotReads(c, a)
    PROVE  Inv'
<1>. DEFINE m == [from |-> a, stamp |-> db[a]]
            n == Len(Shown(c))
<1>1. /\ step[c] = "snapshot" /\ step' = [step EXCEPT ![c] = "first"]
      /\ a \in todo[c] /\ db[a] > 0
      /\ hand' = [hand EXCEPT ![c] = m] /\ todo' = [todo EXCEPT ![c] = @ \ {a}]
      /\ UNCHANGED <<busVars, loopVars, wanted, gone, received>>
  BY DEF SnapshotReads, At, GetLatest
<1>2. m \in Message /\ m.from = a /\ m.stamp = db[a] /\ db[a] \in Nat
  BY Typing DEF Inv, Message
<1>. HIDE DEF m
<1>3. /\ HandlersTyped' /\ step'[c] = "first" /\ hand'[c] = m /\ todo'[c] = todo[c] \ {a}
      /\ \A d \in Streams \ {c} : step'[d] = step[d] /\ todo'[d] = todo[d] /\ hand'[d] = hand[d]
  BY <1>1, <1>2, Handlers DEF Inv, HandlersTyped
<1>4. hand[c] = NoPrice /\ sub[c] = "none" /\ \A i \in DOMAIN Shown(c) : Shown(c)[i].from \notin todo[c]
  BY <1>1 DEF Inv, Stream, Placed, Known
<1>5. Shown(c)' = Append(Shown(c), m)
  BY <1>1, <1>2, <1>3, <1>4, Typing DEF Inv, Shown
<1>6. /\ n \in Nat /\ DOMAIN Shown(c) = 1..n /\ DOMAIN Append(Shown(c), m) = 1..(n + 1)
      /\ \A i \in 1..n : Append(Shown(c), m)[i] = Shown(c)[i]
      /\ Append(Shown(c), m)[n + 1] = m
      /\ \A i \in 1..n : First(Shown(c), i) => First(Append(Shown(c), m), i)
      /\ \A i \in 1..n : Shown(c)[i].from # a
  BY <1>1, <1>2, <1>4, ShownTyped, Longer, FirstKept DEF Inv
<1>. HIDE DEF n
<1>7. chan[c] = << >> /\ \A b \in Assets : c \notin left[b]
  BY <1>4, Channel DEF Inv
<1>8. Stream(c)'
  <2>1. Placed(c)' /\ Owed(c)'
    BY <1>1, <1>2, <1>3, <1>4, BusStutters DEF Placed, Owed
  <2>2. Known(c)'
    <3>1. First(Append(Shown(c), m), n + 1)
      BY <1>2, <1>6 DEF First
    <3>2. ASSUME NEW i \in 1..(n + 1)
          PROVE  LET s == Append(Shown(c), m)
                 IN  /\ s[i].stamp \in 1..db[s[i].from]
                     /\ First(s, i) \/ \E k \in DOMAIN seen[c] : seen[c][k] = s[i]
                     /\ s[i].from \notin todo'[c]
      <4>1. i \in 1..n \/ i = n + 1
        BY <1>6
      <4>2. CASE i \in 1..n
        BY <1>3, <1>4, <1>6, <4>2 DEF Inv, Stream, Known
      <4>3. CASE i = n + 1
        BY <1>1, <1>2, <1>3, <1>6, <3>1, <4>3
      <4>. QED  BY <4>1, <4>2, <4>3
    <3>3. db' = db /\ seen' = seen
      BY <1>1, BusStutters DEF loopVars
    <3>. QED  BY <1>5, <1>6, <3>2, <3>3 DEF Known
  <2>3. Ahead(c)'
    <3>1. Sorted(Append(Shown(c), m))
      BY <1>2, <1>6, ShownTyped, SortedLonger DEF Inv, Stream, Ahead, Before
    <3>2. DOMAIN chan'[c] = {} /\ left' = left
      BY <1>1, <1>7, BusStutters
    <3>. QED  BY <1>5, <1>7, <3>1, <3>2 DEF Ahead
  <2>. QED  BY <2>1, <2>2, <2>3 DEF Stream
<1>. QED  BY <1>1, <1>3, <1>8, BusStutters, HandlerKeeps DEF Rests, loopVars


\* The price in hand moves on to the client.
LEMMA SendsKeeps ==
    ASSUME Inv, NEW c \in Streams, Sends(c)
    PROVE  Inv'
<1>1. /\ \/ step[c] = "first" /\ step' = [step EXCEPT ![c] = "snapshot"]
         \/ step[c] = "send" /\ step' = [step EXCEPT ![c] = "tail"]
      /\ received' = [received EXCEPT ![c] = Append(@, hand[c])]
      /\ hand' = [hand EXCEPT ![c] = NoPrice]
      /\ UNCHANGED <<busVars, loopVars, wanted, todo, gone>>
  BY DEF Sends, At
<1>2. hand[c] \in Message /\ hand[c] # NoPrice /\ received[c] \in Seq(Message)
  BY <1>1, Typing DEF Inv, Stream, Placed
<1>3. /\ HandlersTyped' /\ hand'[c] = NoPrice /\ received'[c] = Append(received[c], hand[c])
      /\ \/ step[c] = "first" /\ step'[c] = "snapshot"
         \/ step[c] = "send" /\ step'[c] = "tail"
      /\ \A d \in Streams \ {c} : /\ step'[d] = step[d] /\ hand'[d] = hand[d]
                                  /\ received'[d] = received[d]
  BY <1>1, <1>2, Handlers, Longer DEF Inv, HandlersTyped
<1>4. Stream(c)'
  <2>1. Shown(c)' = Shown(c)
    BY <1>2, <1>3 DEF Shown
  <2>2. Placed(c)'
    BY <1>1, <1>3, BusStutters DEF Inv, Stream, Placed
  <2>3. Held(c) \subseteq Held(c)' \cup {NoPrice}
    <3>1. {received[c][i] : i \in DOMAIN received[c]} \cup {hand[c]}
             \subseteq {received'[c][i] : i \in DOMAIN received'[c]}
      <4>1. /\ Len(received[c]) \in Nat /\ DOMAIN received[c] = 1..Len(received[c])
            /\ DOMAIN received'[c] = 1..(Len(received[c]) + 1)
            /\ \A i \in 1..Len(received[c]) : received'[c][i] = received[c][i]
            /\ received'[c][Len(received[c]) + 1] = hand[c]
        BY <1>2, <1>3, Longer
      <4>2. Len(received[c]) + 1 \in DOMAIN received'[c]
        BY <4>1
      <4>. QED  BY <4>1, <4>2
    <3>. QED  BY <1>1, <3>1, BusStutters DEF Held
  <2>4. Owed(c)'
    <3>. SUFFICES ASSUME step[c] = "send", NEW b \in wanted[c], NEW t \in acked[b]
                  PROVE  \/ t <= joined[c][b]
                         \/ [from |-> b, stamp |-> t] \in Held(c)'
                         \/ t = db[b] /\ (loop[b] = "publish" \/ (loop[b] = "publishing" /\ c \in left[b]))
      BY <1>1, <1>3, BusStutters DEF Owed, loopVars
    <3>1. b \in Assets /\ b # BadId
      BY Typing, RequestsAssumption DEF Inv, RequestsAssumption
    <3>2. [from |-> b, stamp |-> t] # NoPrice
      BY <3>1 DEF NoPrice
    <3>. QED  BY <2>3, <3>2 DEF Inv, Stream, Owed
  <2>. QED  BY <1>1, <1>3, <2>1, <2>2, <2>4, BusStutters, ShowsNothing DEF loopVars
<1>. QED  BY <1>1, <1>3, <1>4, BusStutters, HandlerKeeps DEF Rests, loopVars

LEMMA SendFailsKeeps ==
    ASSUME Inv, NEW c \in Streams, SendFails(c)
    PROVE  Inv'
<1>1. /\ \/ step[c] = "first" /\ step' = [step EXCEPT ![c] = "ended"]
         \/ step[c] = "send" /\ step' = [step EXCEPT ![c] = "cancel"]
      /\ UNCHANGED <<busVars, loopVars, wanted, todo, hand, gone, received>>
  BY DEF SendFails, At
<1>2. /\ HandlersTyped' /\ \A d \in Streams \ {c} : step'[d] = step[d]
      /\ \/ step[c] = "first" /\ step'[c] = "ended"
         \/ step[c] = "send" /\ step'[c] = "cancel"
  BY <1>1, Handlers DEF Inv, HandlersTyped
<1>3. Stream(c)'
  <2>1. Shown(c)' = Shown(c) /\ Placed(c)' /\ Owed(c)'
    BY <1>1, <1>2, BusStutters DEF Inv, Stream, Shown, Placed, Owed
  <2>. QED  BY <1>1, <1>2, <2>1, BusStutters, ShowsNothing DEF loopVars
<1>. QED  BY <1>1, <1>2, <1>3, BusStutters, HandlerKeeps DEF Rests, loopVars

LEMMA SubscribeBeginsKeeps ==
    ASSUME Inv, NEW c \in Streams, SubscribeBegins(c)
    PROVE  Inv'
<1>1. /\ step[c] = "snapshot" /\ step' = [step EXCEPT ![c] = "subscribe"]
      /\ UNCHANGED <<loopVars, wanted, todo, hand, gone, received>>
      /\ B!SubscribeCalled(c)
  BY DEF SubscribeBegins, At
<1>2. /\ sub' = [sub EXCEPT ![c] = "subscribing"]
      /\ UNCHANGED <<readers, subs, chan, closed, left, sending, joined, seen, dropped>>
  BY <1>1 DEF B!SubscribeCalled, B!LockCalled, B!tailVars
<1>3. /\ HandlersTyped' /\ step'[c] = "subscribe" /\ sub'[c] = "subscribing"
      /\ \A d \in Streams \ {c} : step'[d] = step[d] /\ sub'[d] = sub[d]
  BY <1>1, <1>2, Handlers DEF Inv, TypeOK, B!TypeOK, HandlersTyped
<1>4. Stream(c)'
  <2>1. Shown(c)' = Shown(c) /\ Placed(c)' /\ Owed(c)'
    BY <1>1, <1>3 DEF Inv, Stream, Shown, Placed, Owed
  <2>. QED  BY <1>1, <1>2, <1>3, <2>1, ShowsNothing DEF loopVars
<1>5. [B!Next]_(B!vars)
  BY <1>1 DEF B!Next
<1>. QED  BY <1>1, <1>2, <1>3, <1>4, <1>5, HandlerKeeps DEF Rests, loopVars

\* Nobody is publishing: what is acknowledged was published before, or will be.
LEMMA SubscribeReturnsKeeps ==
    ASSUME Inv, NEW c \in Streams, SubscribeReturns(c)
    PROVE  Inv'
<1>1. /\ step[c] = "subscribe" /\ step' = [step EXCEPT ![c] = "tail"]
      /\ UNCHANGED <<loopVars, wanted, todo, hand, gone, received>>
      /\ B!Register(c)
  BY DEF SubscribeReturns, At
<1>2. /\ sub' = [sub EXCEPT ![c] = "live"] /\ joined' = [joined EXCEPT ![c] = sending]
      /\ UNCHANGED <<readers, chan, closed, left, sending, seen, dropped>>
  BY <1>1 DEF B!Register
<1>3. /\ HandlersTyped' /\ step'[c] = "tail" /\ sub'[c] = "live" /\ joined'[c] = sending
      /\ \A d \in Streams \ {c} : /\ step'[d] = step[d] /\ sub'[d] = sub[d]
                                  /\ joined'[d] = joined[d]
  BY <1>1, <1>2, Handlers DEF Inv, TypeOK, B!TypeOK, HandlersTyped
<1>4. Stream(c)'
  <2>1. Shown(c)' = Shown(c) /\ Placed(c)'
    BY <1>1, <1>3 DEF Inv, Stream, Shown, Placed
  <2>2. Owed(c)'
    <3>. SUFFICES ASSUME NEW b \in wanted[c], NEW t \in acked[b]
                  PROVE  t <= sending[b] \/ (t = db[b] /\ loop[b] = "publish")
      BY <1>1, <1>3 DEF Owed, loopVars
    <3>. QED  BY Typing DEF Inv, Round
  <2>. QED  BY <1>1, <1>2, <1>3, <2>1, <2>2, ShowsNothing DEF loopVars
<1>5. [B!Next]_(B!vars)
  BY <1>1 DEF B!Next
<1>. QED  BY <1>1, <1>2, <1>3, <1>4, <1>5, HandlerKeeps DEF Rests, loopVars

LEMMA TailEndsKeeps ==
    ASSUME Inv, NEW c \in Streams, TailEnds(c)
    PROVE  Inv'
<1>1. /\ step[c] = "tail" /\ step' = [step EXCEPT ![c] = "cancel"]
      /\ UNCHANGED <<busVars, loopVars, wanted, todo, hand, gone, received>>
  BY DEF TailEnds, At
<1>2. /\ HandlersTyped' /\ step'[c] = "cancel" /\ \A d \in Streams \ {c} : step'[d] = step[d]
  BY <1>1, Handlers DEF Inv, HandlersTyped
<1>3. Stream(c)'
  <2>1. Shown(c)' = Shown(c) /\ Placed(c)' /\ Owed(c)'
    BY <1>1, <1>2, BusStutters DEF Inv, Stream, Shown, Placed, Owed
  <2>. QED  BY <1>1, <1>2, <2>1, BusStutters, ShowsNothing DEF loopVars
<1>. QED  BY <1>1, <1>2, <1>3, BusStutters, HandlerKeeps DEF Rests, loopVars

LEMMA CancelsKeep ==
    ASSUME Inv, NEW c \in Streams, CancelBegins(c) \/ CancelReturns(c)
    PROVE  Inv'
<1>1. /\ \/ step[c] = "cancel" /\ step' = [step EXCEPT ![c] = "leave"] /\ B!CancelCalled(c)
         \/ step[c] = "leave" /\ step' = [step EXCEPT ![c] = "ended"] /\ B!Unregister(c)
      /\ UNCHANGED <<loopVars, wanted, todo, hand, gone, received>>
  BY DEF CancelBegins, CancelReturns, At
<1>2. /\ sub' = [sub EXCEPT ![c] = "cancelling"] \/ sub' = [sub EXCEPT ![c] = "cancelled"]
      /\ step[c] = "cancel" => sub' = [sub EXCEPT ![c] = "cancelling"]
      /\ UNCHANGED <<readers, chan, left, sending, joined, seen, dropped>>
  BY <1>1 DEF B!CancelCalled, B!LockCalled, B!Unregister, B!tailVars
<1>3. /\ HandlersTyped'
      /\ (step'[c] = "leave" /\ sub'[c] = "cancelling") \/ step'[c] = "ended"
      /\ \A d \in Streams \ {c} : step'[d] = step[d] /\ sub'[d] = sub[d]
  <2>1. sub \in [Streams -> {"none", "subscribing", "live", "cancelling", "cancelled"}] /\ HandlersTyped
    BY Handlers DEF Inv, TypeOK, B!TypeOK
  <2>2. CASE step[c] = "cancel"
    BY <1>1, <1>2, <2>1, <2>2 DEF HandlersTyped
  <2>3. CASE step[c] = "leave"
    BY <1>1, <1>2, <2>1, <2>3 DEF HandlersTyped
  <2>. QED  BY <1>1, <2>2, <2>3
<1>4. Stream(c)'
  <2>1. Shown(c)' = Shown(c) /\ Placed(c)' /\ Owed(c)'
    BY <1>1, <1>3 DEF Inv, Stream, Shown, Placed, Owed
  <2>. QED  BY <1>1, <1>2, <1>3, <2>1, ShowsNothing DEF loopVars
<1>5. [B!Next]_(B!vars)
  BY <1>1 DEF B!Next
<1>. QED  BY <1>1, <1>2, <1>3, <1>4, <1>5, HandlerKeeps DEF Rests, loopVars

LEMMA ClientLeavesKeeps ==
    ASSUME Inv, NEW c \in Streams, ClientLeaves(c)
    PROVE  Inv'
<1>1. /\ gone' = [gone EXCEPT ![c] = TRUE]
      /\ UNCHANGED <<busVars, loopVars, step, wanted, todo, hand, received>>
  BY DEF ClientLeaves
<1>2. HandlersTyped'
  BY <1>1, Handlers DEF Inv, HandlersTyped
<1>3. Stream(c)'
  <2>1. Shown(c)' = Shown(c) /\ Placed(c)' /\ Held(c)' = Held(c)
    BY <1>1, BusStutters DEF Inv, Stream, Shown, Placed, Held
  <2>2. Owed(c)'
    BY <1>1, <2>1, BusStutters DEF Inv, Stream, Owed, loopVars
  <2>. QED  BY <1>1, <2>1, <2>2, BusStutters, ShowsNothing DEF loopVars
<1>. QED  BY <1>1, <1>2, <1>3, BusStutters, HandlerKeeps DEF Rests, loopVars


\* A price that was waiting is taken in hand, or passed over.
LEMMA TailReceivesKeeps ==
    ASSUME Inv, NEW c \in Streams, TailReceives(c)
    PROVE  Inv'
<1>. DEFINE m == Head(chan[c])
            n == Len(Shown(c))
<1>1. /\ chan[c] # << >> /\ sub[c] = "live" /\ step[c] = "tail"
      /\ seen' = [seen EXCEPT ![c] = Append(@, m)] /\ chan' = [chan EXCEPT ![c] = Tail(@)]
      /\ UNCHANGED <<writer, readers, sub, subs, closed, left, sending, joined, dropped>>
      /\ \/ /\ m.from \in wanted[c] /\ step' = [step EXCEPT ![c] = "send"]
            /\ hand' = [hand EXCEPT ![c] = m]
         \/ /\ m.from \notin wanted[c] /\ step' = [step EXCEPT ![c] = "tail"]
            /\ hand' = hand
      /\ UNCHANGED <<loopVars, wanted, todo, gone, received>>
  BY DEF TailReceives, At, B!Receive, B!lockVars
<1>2. /\ chan[c] \in Seq(Message) /\ seen[c] \in Seq(Message) /\ hand[c] = NoPrice
      /\ m \in Message /\ m.from \in Assets /\ m.stamp \in 1..sending[m.from]
      /\ 1 \in DOMAIN chan[c] /\ m = chan[c][1]
      /\ \A j \in DOMAIN Tail(chan[c]) :
            j + 1 \in DOMAIN chan[c] /\ Tail(chan[c])[j] = chan[c][j + 1] /\ 1 < j + 1
      /\ \A j, k \in DOMAIN chan[c] :
            j < k /\ chan[c][j].from = chan[c][k].from => chan[c][j].stamp < chan[c][k].stamp
  BY <1>1, Channel, Shorter DEF Inv, Stream, Placed
<1>3. m # NoPrice
  BY <1>2, Typing DEF Inv
<1>. HIDE DEF m
<1>4. /\ HandlersTyped' /\ chan'[c] = Tail(chan[c]) /\ seen'[c] = Append(seen[c], m)
      /\ \/ m.from \in wanted[c] /\ step'[c] = "send" /\ hand'[c] = m
         \/ m.from \notin wanted[c] /\ step'[c] = "tail" /\ hand'[c] = hand[c]
      /\ \A d \in Streams \ {c} : /\ step'[d] = step[d] /\ hand'[d] = hand[d]
                                  /\ chan'[d] = chan[d] /\ seen'[d] = seen[d]
  BY <1>1, <1>2, Handlers DEF Inv, TypeOK, B!TypeOK, HandlersTyped
<1>5. /\ UNCHANGED <<db, acked, loop, left, sending, joined, dropped, received>>
      /\ wanted'[c] = wanted[c] /\ sub'[c] = sub[c]
  BY <1>1 DEF loopVars
<1>6. Shown(c)' = (IF hand'[c] = m THEN Append(Shown(c), m) ELSE Shown(c))
  BY <1>2, <1>3, <1>4, <1>5 DEF Shown
<1>7. /\ n \in Nat /\ DOMAIN Shown(c) = 1..n /\ DOMAIN Append(Shown(c), m) = 1..(n + 1)
      /\ \A i \in 1..n : Append(Shown(c), m)[i] = Shown(c)[i]
      /\ Append(Shown(c), m)[n + 1] = m
      /\ \A i \in 1..n : First(Append(Shown(c), m), i) <=> First(Shown(c), i)
  BY <1>2, ShownTyped, Longer, FirstKept DEF Inv
<1>. HIDE DEF n
<1>8. /\ \A k \in DOMAIN seen[c] : k \in DOMAIN seen'[c] /\ seen'[c][k] = seen[c][k]
      /\ \E k \in DOMAIN seen'[c] : seen'[c][k] = m
  <2>1. /\ Len(seen[c]) \in Nat /\ DOMAIN seen[c] = 1..Len(seen[c])
        /\ DOMAIN Append(seen[c], m) = 1..(Len(seen[c]) + 1)
        /\ \A i \in 1..Len(seen[c]) : Append(seen[c], m)[i] = seen[c][i]
        /\ Append(seen[c], m)[Len(seen[c]) + 1] = m
    BY <1>2, Longer
  <2>. QED  BY <1>4, <2>1
<1>9. ASSUME NEW i \in 1..n
      PROVE  /\ Shown(c)[i].stamp \in 1..db[Shown(c)[i].from]
             /\ First(Shown(c), i) \/ \E k \in DOMAIN seen'[c] : seen'[c][k] = Shown(c)[i]
             /\ Before(Shown(c), i, m)
             /\ \A j \in DOMAIN Tail(chan[c]) : Before(Shown(c), i, Tail(chan[c])[j])
  BY <1>2, <1>7, <1>8 DEF Inv, Stream, Known, Ahead
<1>10. m.stamp \in 1..db[m.from]
  <2>1. sending[m.from] <= db[m.from]
    BY <1>2 DEF Inv, Round
  <2>. QED  BY <1>2, <2>1, Typing DEF Inv
<1>11. Known(c)'
  <2>1. CASE hand'[c] = m
    <3>1. ASSUME NEW i \in 1..(n + 1)
          PROVE  LET s == Append(Shown(c), m)
                 IN  /\ s[i].stamp \in 1..db[s[i].from]
                     /\ First(s, i) \/ \E k \in DOMAIN seen'[c] : seen'[c][k] = s[i]
      <4>1. i \in 1..n \/ i = n + 1
        BY <1>7
      <4>. QED  BY <1>7, <1>8, <1>9, <1>10, <4>1
    <3>. QED  BY <1>4, <1>5, <1>6, <1>7, <2>1, <3>1 DEF Known
  <2>2. CASE hand'[c] # m
    BY <1>4, <1>5, <1>6, <1>7, <1>9, <2>2 DEF Known
  <2>. QED  BY <2>1, <2>2
<1>12. Ahead(c)'
  <2>1. CASE hand'[c] = m
    <3>1. Sorted(Append(Shown(c), m))
      BY <1>2, <1>7, <1>9, ShownTyped, SortedLonger DEF Inv, Stream, Ahead
    <3>2. ASSUME NEW i \in 1..(n + 1), NEW j \in DOMAIN Tail(chan[c])
          PROVE  Before(Append(Shown(c), m), i, Tail(chan[c])[j])
      <4>1. i \in 1..n \/ i = n + 1
        BY <1>7
      <4>2. CASE i \in 1..n
        BY <1>7, <1>9, <4>2 DEF Before
      <4>3. CASE i = n + 1
        <5>1. m.from = Tail(chan[c])[j].from => m.stamp < Tail(chan[c])[j].stamp
          BY <1>2
        <5>2. m.stamp \in Nat /\ Tail(chan[c])[j].stamp \in Nat
          BY <1>2, Channel, Typing DEF Inv
        <5>. QED  BY <1>7, <4>3, <5>1, <5>2 DEF Before
      <4>. QED  BY <4>1, <4>2, <4>3
    <3>3. ASSUME NEW a \in Assets, c \in left[a], NEW i \in 1..(n + 1),
                 Append(Shown(c), m)[i].from = a
          PROVE  Append(Shown(c), m)[i].stamp <= sending[a]
      <4>1. i \in 1..n \/ i = n + 1
        BY <1>7
      <4>. QED  BY <1>2, <1>7, <3>3, <4>1, Typing DEF Inv, Stream, Ahead
    <3>. QED  BY <1>4, <1>5, <1>6, <1>7, <2>1, <3>1, <3>2, <3>3 DEF Ahead
  <2>2. CASE hand'[c] # m
    BY <1>4, <1>5, <1>6, <1>7, <1>9, <2>2 DEF Inv, Stream, Ahead
  <2>. QED  BY <2>1, <2>2
<1>13. ASSUME NEW x \in Held(c), x # NoPrice  PROVE x \in Held(c)' \/ x = m
  <2>1. CASE x \in {chan[c][i] : i \in DOMAIN chan[c]}
    <3>1. PICK i \in DOMAIN chan[c] : x = chan[c][i]
      BY <2>1
    <3>2. CASE i = 1
      BY <1>2, <3>1, <3>2
    <3>3. CASE i # 1
      <4>1. i - 1 \in DOMAIN Tail(chan[c]) /\ (i - 1) + 1 = i
        <5>1. /\ Len(chan[c]) \in Nat \ {0} /\ DOMAIN chan[c] = 1..Len(chan[c])
              /\ DOMAIN Tail(chan[c]) = 1..(Len(chan[c]) - 1)
          BY <1>1, <1>2, HeadTailProperties, LenProperties
        <5>. QED  BY <3>3, <5>1
      <4>2. Tail(chan[c])[i - 1] = chan[c][i]
        BY <1>2, <4>1
      <4>3. chan'[c] = Tail(chan[c])
        BY <1>4
      <4>4. x \in {chan'[c][k] : k \in DOMAIN chan'[c]}
        BY <3>1, <4>1, <4>2, <4>3
      <4>. QED  BY <4>4 DEF Held
    <3>. QED  BY <3>2, <3>3
  <2>2. CASE x \notin {chan[c][i] : i \in DOMAIN chan[c]}
    BY <1>2, <1>5, <1>13, <2>2 DEF Held
  <2>. QED  BY <2>1, <2>2
<1>14. Owed(c)'
  <2>. SUFFICES ASSUME NEW b \in wanted[c], NEW t \in acked[b]
                PROVE  \/ t <= joined[c][b]
                       \/ [from |-> b, stamp |-> t] \in Held(c)'
                       \/ t = db[b] /\ (loop[b] = "publish" \/ (loop[b] = "publishing" /\ c \in left[b]))
    BY <1>5 DEF Owed
  <2>1. b \in Assets /\ b # BadId
    BY Typing, RequestsAssumption DEF Inv, RequestsAssumption
  <2>2. [from |-> b, stamp |-> t] # NoPrice
    BY <2>1 DEF NoPrice
  <2>3. [from |-> b, stamp |-> t] = m => [from |-> b, stamp |-> t] \in Held(c)'
    BY <1>4 DEF Held
  <2>. QED  BY <1>1, <1>13, <2>2, <2>3 DEF Inv, Stream, Owed
<1>15. Placed(c)'
  BY <1>1, <1>2, <1>4, <1>5 DEF Placed
<1>16. [B!Next]_(B!vars)
  BY DEF TailReceives, B!Next
<1>. QED  BY <1>1, <1>4, <1>5, <1>11, <1>12, <1>14, <1>15, <1>16, HandlerKeeps DEF Rests, Stream

-----------------------------------------------------------------------------

LEMMA InvInit == Init => Inv
<1>. SUFFICES ASSUME Init  PROVE Inv
  OBVIOUS
<1>1. B!TypeOK /\ P!Inv
  BY BusConstants, SameInit, SameTypes, P!TypeInit, P!InvInit DEF Init
<1>2. << >> \in Seq(Message) /\ DOMAIN << >> = {}
  OBVIOUS
<1>3. HandlersTyped
  BY <1>2 DEF Init, HandlersTyped
<1>4. TypeOK
  BY <1>1, <1>3, Messages DEF Init, TypeOK, HandlersTyped
<1>5. ASSUME NEW a \in Assets  PROVE Round(a)
  BY RequestsAssumption DEF Init, B!Init, Round, RequestsAssumption
<1>6. ASSUME NEW c \in Streams  PROVE Stream(c)
  <2>1. Shown(c) = << >> /\ chan[c] = << >> /\ \A a \in Assets : left[a] = {}
    BY DEF Init, B!Init, Shown
  <2>2. Placed(c) /\ Owed(c)
    BY DEF Init, B!Init, Placed, Owed
  <2>. QED  BY <1>2, <2>1, <2>2 DEF Stream, Known, Ahead, Sorted
<1>. QED  BY <1>1, <1>4, <1>5, <1>6 DEF Inv

LEMMA InvNext == Inv /\ [Next]_vars => Inv'
<1>. SUFFICES ASSUME Inv, [Next]_vars  PROVE Inv'
  OBVIOUS
<1>1. ASSUME NEW a \in Assets, Loop(a)  PROVE Inv'
  BY <1>1, PersistsKeeps, PublishesKeeps, OffersKeeps, PublishedKeeps DEF Loop
<1>2. ASSUME NEW c \in Streams, Subscribe(c)  PROVE Inv'
  BY <1>2, RefusesKeeps, OpensKeeps, SnapshotSkipsKeeps, SnapshotReadsKeeps, SendsKeeps,
     SendFailsKeeps, SubscribeBeginsKeeps, SubscribeReturnsKeeps, TailEndsKeeps,
     TailReceivesKeeps, CancelsKeep
     DEF Subscribe, Snapshot
<1>3. ASSUME NEW c \in Streams, ClientLeaves(c)  PROVE Inv'
  BY <1>3, ClientLeavesKeeps
<1>4. CASE UNCHANGED vars
  <2>1. UNCHANGED <<readers, left, sending, dropped, db, acked, loop>> /\ UNCHANGED busVars
        /\ UNCHANGED <<step, wanted, todo, hand, gone, received>>
        /\ \A c \in Streams : Rests(c) /\ chan'[c] = chan[c]
    BY <1>4 DEF vars, busVars, loopVars, handlerVars, Rests
  <2>2. B!TypeOK' /\ P!Inv'
    BY <2>1, BusStutters, BusKeeps DEF Inv
  <2>3. TypeOK' /\ \A a \in Assets : Round(a)'
    BY <2>1, <2>2 DEF Inv, TypeOK, Round
  <2>4. ASSUME NEW c \in Streams  PROVE Stream(c)'
    <3>1. Shown(c)' = Shown(c) /\ Placed(c)' /\ Held(c)' = Held(c)
      BY <2>1, BusStutters DEF Inv, Stream, Shown, Placed, Held, Rests
    <3>2. Owed(c)'
      <4>1. /\ step'[c] = step[c] /\ wanted'[c] = wanted[c] /\ joined'[c] = joined[c]
            /\ acked' = acked /\ db' = db /\ loop' = loop /\ left' = left
        BY <1>4, <2>1 DEF vars, handlerVars, Rests
      <4>2. Owed(c)
        BY DEF Inv, Stream
      <4>. QED  BY <3>1, <4>1, <4>2 DEF Owed
    <3>. QED  BY <2>1, <3>1, <3>2, ShowsNothing DEF Rests
  <2>. QED  BY <2>2, <2>3, <2>4 DEF Inv
<1>. QED  BY <1>1, <1>2, <1>3, <1>4 DEF Next

LEMMA Invariance == Spec => []Inv
BY InvInit, InvNext, PTL DEF Spec

\* No client sees the price of an asset go back, for any requests, buffer and
\* number of streams: its snapshot and its tail fit together.
THEOREM StreamsGoForward == Spec => []NeverGoesBack
<1>1. ASSUME Inv  PROVE NeverGoesBack
  <2>. SUFFICES ASSUME NEW c \in Streams, NEW i \in DOMAIN received[c], NEW j \in DOMAIN received[c],
                       i < j, received[c][i].from = received[c][j].from
                PROVE  /\ received[c][i].stamp <= received[c][j].stamp
                       /\ received[c][i].stamp = received[c][j].stamp => First(received[c], i)
    BY DEF NeverGoesBack, First
  <2>1. /\ i \in DOMAIN Shown(c) /\ Shown(c)[i] = received[c][i]
        /\ j \in DOMAIN Shown(c) /\ Shown(c)[j] = received[c][j]
        /\ First(Shown(c), i) => First(received[c], i)
    <3>1. CASE hand[c] = NoPrice
      BY <3>1 DEF Shown
    <3>2. CASE hand[c] # NoPrice
      <4>1. received[c] \in Seq(Message) /\ hand[c] \in Message
        BY <1>1, <3>2, Typing DEF Inv
      <4>. QED  BY <3>2, <4>1, Longer, FirstKept DEF Shown
    <3>. QED  BY <3>1, <3>2
  <2>2. Before(Shown(c), i, Shown(c)[j])
    BY <1>1, <2>1 DEF Inv, Stream, Ahead, Sorted
  <2>. QED  BY <2>1, <2>2 DEF Before
<1>. QED  BY <1>1, Invariance, PTL

\* What was pushed to a client can be read: rows come before publications.
THEOREM PushedCanBeRead == Spec => []GetPriceNotBehind
<1>1. ASSUME Inv  PROVE GetPriceNotBehind
  <2>. SUFFICES ASSUME NEW c \in Streams, NEW i \in DOMAIN received[c]
                PROVE  LET reply == GetPrice(received[c][i].from)
                       IN  reply.code = "OK" /\ received[c][i].stamp <= reply.row.stamp
    BY DEF GetPriceNotBehind
  <2>1. i \in DOMAIN Shown(c) /\ Shown(c)[i] = received[c][i]
    <3>1. CASE hand[c] = NoPrice
      BY <3>1 DEF Shown
    <3>2. CASE hand[c] # NoPrice
      <4>1. received[c] \in Seq(Message) /\ hand[c] \in Message
        BY <1>1, <3>2, Typing DEF Inv
      <4>. QED  BY <3>2, <4>1, Longer DEF Shown
    <3>. QED  BY <3>1, <3>2
  <2>2. /\ received[c][i].from \in Assets /\ received[c][i].from # BadId
        /\ received[c][i].stamp \in 1..db[received[c][i].from]
        /\ db[received[c][i].from] \in Nat
    BY <1>1, <2>1, ShownTyped, Typing, RequestsAssumption DEF Inv, Stream, Known, RequestsAssumption
  <2>. QED  BY <2>2 DEF GetPrice, GetLatest
<1>. QED  BY <1>1, Invariance, PTL

\* From its subscription on a stream loses a wanted round for lack of room only.
THEOREM TailIsWhole == Spec => []TailComplete
<1>1. Inv => TailComplete
  BY DEF Inv, Stream, Owed, TailComplete
<1>. QED  BY <1>1, Invariance, PTL

\* The loops and the handlers keep to the protocol that Bus supposes.
THEOREM BusIsUsedWell == Spec => UsesBus
<1>1. Init => B!Init
  BY DEF Init
<1>2. Inv /\ [Next]_vars => [B!Next]_(B!vars)
  <2>. SUFFICES ASSUME Inv, [Next]_vars  PROVE [B!Next]_(B!vars)
    OBVIOUS
  <2>1. ASSUME NEW a \in Assets, Loop(a)  PROVE [B!Next]_(B!vars)
    <3>1. CASE Persists(a)
      BY <3>1, BusStutters DEF Persists
    <3>2. CASE Publishes(a)
      <4>1. db[a] \in (sending[a] + 1)..MaxRows
        BY <3>2, Typing, RequestsAssumption DEF Publishes, Inv, Round, RequestsAssumption
      <4>. QED  BY <3>2, <4>1 DEF Publishes, B!Next
    <3>3. CASE Offers(a) \/ Published(a)
      BY <3>3 DEF Offers, Published, B!Next, B!Publish
    <3>. QED  BY <2>1, <3>1, <3>2, <3>3 DEF Loop
  <2>2. ASSUME NEW c \in Streams, Subscribe(c) \/ ClientLeaves(c)  PROVE [B!Next]_(B!vars)
    BY <2>2, BusStutters
       DEF Subscribe, Snapshot, ClientLeaves, Refuses, Opens, SnapshotSkips, SnapshotReads, Sends,
           SendFails, SubscribeBegins, SubscribeReturns, TailEnds, TailReceives, CancelBegins,
           CancelReturns, B!Next
  <2>3. UNCHANGED vars => UNCHANGED busVars
    BY DEF vars
  <2>. QED  BY <2>1, <2>2, <2>3, BusStutters DEF Next
<1>. QED  BY <1>1, <1>2, Invariance, PTL DEF Spec, UsesBus, B!Spec

=============================================================================
