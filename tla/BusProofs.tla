------------------------------ MODULE BusProofs ------------------------------
(***************************************************************************)
(* The bus is safe for any number of publishers and subscriptions: its     *)
(* invariant, action by action.                                            *)
(***************************************************************************)
EXTENDS Bus, SequenceTheorems, TLAPS

\* Where a subscription is, what is registered, who holds the lock.
Registered(c) ==
    /\ c \in subs <=> sub[c] \in {"live", "cancelling"}
    /\ c \in closed <=> sub[c] = "cancelled"
    /\ writer = c <=> sub[c] \in {"subscribing", "cancelling"}
    /\ sub[c] \in {"none", "subscribing"} => seen[c] = << >> /\ chan[c] = << >>
    /\ \A p \in Publishers : joined[c][p] <= sending[p]

\* Only a reader has channels left, registered ones, and its price is newer
\* than what they got of it.
Reaching(p) ==
    /\ left[p] \subseteq subs
    /\ p \notin readers => left[p] = {}
    /\ \A c \in left[p] :
          /\ joined[c][p] < sending[p]
          /\ \A i \in DOMAIN Stream(c) :
                Stream(c)[i].from = p => Stream(c)[i].stamp < sending[p]

Ordered(c) ==
    /\ \A i, j \in DOMAIN Stream(c) :
          i < j /\ Stream(c)[i].from = Stream(c)[j].from
             => Stream(c)[i].stamp < Stream(c)[j].stamp
    /\ \A i \in DOMAIN Stream(c) :
          /\ joined[c][Stream(c)[i].from] < Stream(c)[i].stamp
          /\ Stream(c)[i].stamp <= sending[Stream(c)[i].from]

Complete(c) ==
    sub[c] \in {"live", "cancelling"} =>
        \A p \in Publishers : sending[p] > joined[c][p] =>
            \/ c \in left[p]
            \/ Price(p) \in dropped[c]
            \/ \E i \in DOMAIN Stream(c) : Stream(c)[i] = Price(p)

Inv ==
    /\ \A c \in Subscribers : Registered(c) /\ Ordered(c) /\ Complete(c)
    /\ \A p \in Publishers : Reaching(p)

-----------------------------------------------------------------------------

LEMMA BufferNat == buffer \in Nat \ {0}
BY BusAssumption DEF buffer

LEMMA TypeInit == Init => TypeOK
<1>. SUFFICES ASSUME Init  PROVE TypeOK
  OBVIOUS
<1>1. << >> \in Seq(Message) /\ Len(<< >>) = 0
  OBVIOUS
<1>2. sending \in [Publishers -> Nat]
  BY DEF Init
<1>. QED  BY <1>1, <1>2, BufferNat DEF Init, TypeOK

LEMMA TypeNext == TypeOK /\ [Next]_vars => TypeOK'
<1>. SUFFICES ASSUME TypeOK, [Next]_vars  PROVE TypeOK'
  OBVIOUS
<1>. USE DEF TypeOK
<1>1. ASSUME NEW c \in Subscribers, SubscribeCalled(c) \/ CancelCalled(c)
      PROVE  TypeOK'
  BY <1>1 DEF SubscribeCalled, CancelCalled, LockCalled, tailVars
<1>2. ASSUME NEW c \in Subscribers, Register(c)  PROVE TypeOK'
  BY <1>2 DEF Register
<1>3. ASSUME NEW c \in Subscribers, Unregister(c)  PROVE TypeOK'
  BY <1>3 DEF Unregister, tailVars
<1>4. ASSUME NEW c \in Subscribers, Receive(c)  PROVE TypeOK'
  <2>1. /\ Head(chan[c]) \in Message /\ Tail(chan[c]) \in Seq(Message)
        /\ Len(Tail(chan[c])) = Len(chan[c]) - 1
    BY <1>4, HeadTailProperties DEF Receive
  <2>2. Append(seen[c], Head(chan[c])) \in Seq(Message)
    BY <2>1, AppendProperties
  <2>. QED  BY <1>4, <2>1, <2>2, BufferNat DEF Receive, lockVars
<1>5. ASSUME NEW p \in Publishers, NEW stamp \in (sending[p] + 1)..MaxStamp,
             PublishCalled(p, stamp)
      PROVE  TypeOK'
  <2>1. stamp \in Nat
    BY BusAssumption
  <2>. QED  BY <1>5, <2>1 DEF PublishCalled, tailVars
<1>6. ASSUME NEW p \in Publishers, NEW c \in Subscribers, Offer(p, c)  PROVE TypeOK'
  <2>1. Price(p) \in Message
    BY DEF Price, Message
  <2>2. /\ Append(chan[c], Price(p)) \in Seq(Message)
        /\ Len(Append(chan[c], Price(p))) = Len(chan[c]) + 1
    BY <2>1, AppendProperties
  <2>. HIDE DEF Price
  <2>3. CASE Len(chan[c]) < buffer /\ chan' = [chan EXCEPT ![c] = Append(@, Price(p))]
             /\ UNCHANGED dropped
    BY <1>6, <2>2, <2>3, BufferNat DEF Offer, lockVars
  <2>4. CASE dropped' = [dropped EXCEPT ![c] = @ \cup {Price(p)}] /\ UNCHANGED chan
    BY <1>6, <2>1, <2>4, BufferNat DEF Offer, lockVars
  <2>. QED  BY <1>6, <2>3, <2>4 DEF Offer
<1>7. ASSUME NEW p \in Publishers, PublishReturns(p)  PROVE TypeOK'
  BY <1>7 DEF PublishReturns, tailVars
<1>8. CASE UNCHANGED vars
  BY <1>8 DEF vars, lockVars, tailVars
<1>. QED  BY <1>1, <1>2, <1>3, <1>4, <1>5, <1>6, <1>7, <1>8 DEF Next, Publish

\* Every variable of the bus keeps its type, and no channel holds more than
\* NewBus gave it room for.
THEOREM TypeCorrect == Spec => []TypeOK
BY TypeInit, TypeNext, PTL DEF Spec

-----------------------------------------------------------------------------
(* What a channel delivered and holds.                                     *)

LEMMA Streams ==
    ASSUME TypeOK, NEW c \in Subscribers
    PROVE  /\ Stream(c) \in Seq(Message)
           /\ Len(Stream(c)) \in Nat /\ DOMAIN Stream(c) = 1..Len(Stream(c))
           /\ \A i \in DOMAIN Stream(c) : /\ Stream(c)[i] \in Message
                                          /\ Stream(c)[i].from \in Publishers
                                          /\ Stream(c)[i].stamp \in Nat
<1>1. Stream(c) \in Seq(Message)
  BY ConcatProperties DEF TypeOK, Stream
<1>2. Len(Stream(c)) \in Nat /\ DOMAIN Stream(c) = 1..Len(Stream(c))
  BY <1>1, LenProperties
<1>3. \A i \in DOMAIN Stream(c) : Stream(c)[i] \in Message
  BY <1>1, <1>2, ElementOfSeq
<1>. QED  BY <1>1, <1>2, <1>3 DEF Message

LEMMA MovedAlong ==
    ASSUME NEW S, NEW s \in Seq(S), NEW t \in Seq(S), t # << >>
    PROVE  Append(s, Head(t)) \o Tail(t) = s \o t
<1>1. /\ Head(t) = t[1] /\ Head(t) \in S /\ Tail(t) \in Seq(S)
      /\ Len(t) \in Nat \ {0} /\ << Head(t) >> \in Seq(S)
  BY HeadTailProperties, EmptySeq
<1>2. << Head(t) >> \o Tail(t) = t
  <2>1. SubSeq(t, 1, Len(t)) = << t[1] >> \o SubSeq(t, 2, Len(t))
    <3>1. 1 \in 1..Len(t) /\ Len(t) \in 1..Len(t) /\ 1 + 1 = 2
      BY <1>1
    <3>. QED  BY <3>1, SubSeqRecursiveFirst
  <2>. QED  BY <1>1, <2>1, SubSeqFull, TailIsSubSeq
<1>3. Append(s, Head(t)) = s \o << Head(t) >>
  BY <1>1, AppendIsConcat
<1>4. (s \o << Head(t) >>) \o Tail(t) = s \o (<< Head(t) >> \o Tail(t))
  BY <1>1, ConcatAssociative
<1>. QED  BY <1>2, <1>3, <1>4

LEMMA AddedBehind ==
    ASSUME NEW S, NEW s \in Seq(S), NEW t \in Seq(S), NEW x \in S
    PROVE  s \o Append(t, x) = Append(s \o t, x)
<1>1. << x >> \in Seq(S) /\ s \o t \in Seq(S)
  BY ConcatProperties
<1>2. Append(t, x) = t \o << x >> /\ Append(s \o t, x) = (s \o t) \o << x >>
  BY <1>1, AppendIsConcat
<1>3. (s \o t) \o << x >> = s \o (t \o << x >>)
  BY <1>1, ConcatAssociative
<1>. QED  BY <1>2, <1>3

\* A step that leaves channels and history alone leaves the streams alone.
LEMMA StreamsKept ==
    ASSUME UNCHANGED <<seen, chan>>, NEW c \in Subscribers
    PROVE  Stream(c)' = Stream(c)
BY DEF Stream

LEMMA StreamReceived ==
    ASSUME TypeOK, NEW c \in Subscribers, Receive(c), NEW d \in Subscribers
    PROVE  Stream(d)' = Stream(d)
<1>1. CASE d = c
  <2>1. seen'[c] = Append(seen[c], Head(chan[c])) /\ chan'[c] = Tail(chan[c])
    BY DEF Receive, TypeOK
  <2>2. Append(seen[c], Head(chan[c])) \o Tail(chan[c]) = seen[c] \o chan[c]
    BY MovedAlong DEF TypeOK, Receive
  <2>. QED  BY <1>1, <2>1, <2>2 DEF Stream
<1>2. CASE d # c
  BY <1>2 DEF Stream, Receive, TypeOK
<1>. QED  BY <1>1, <1>2

LEMMA StreamOffered ==
    ASSUME TypeOK, NEW c \in Subscribers, NEW m \in Message, NEW d \in Subscribers,
           seen' = seen, chan' = [chan EXCEPT ![c] = Append(@, m)]
    PROVE  Stream(d)' = IF d = c THEN Append(Stream(c), m) ELSE Stream(d)
<1>1. seen[c] \o Append(chan[c], m) = Append(seen[c] \o chan[c], m)
  BY AddedBehind DEF TypeOK
<1>. QED  BY <1>1 DEF Stream, TypeOK

-----------------------------------------------------------------------------
(* The invariant.                                                          *)

\* Streams, stamps and the channels still to be served are as before.
Calm(c) ==
    /\ Stream(c)' = Stream(c)
    /\ UNCHANGED <<sending, left, dropped>>
    /\ joined'[c] = joined[c]

LEMMA CalmKeeps ==
    ASSUME NEW c \in Subscribers, Calm(c), Ordered(c), Complete(c),
           sub'[c] \in {"live", "cancelling"} => sub[c] \in {"live", "cancelling"}
    PROVE  Ordered(c)' /\ Complete(c)'
<1>1. \A p \in Publishers : Price(p)' = Price(p)
  BY DEF Calm, Price
<1>2. Ordered(c)'
  BY DEF Calm, Ordered
<1>3. Complete(c)'
  <2>. SUFFICES ASSUME sub[c] \in {"live", "cancelling"}, NEW p \in Publishers,
                       sending[p] > joined[c][p]
                PROVE  \/ c \in left[p]
                       \/ Price(p) \in dropped[c]
                       \/ \E i \in DOMAIN Stream(c) : Stream(c)[i] = Price(p)
    BY <1>1 DEF Calm, Complete
  <2>. QED  BY DEF Complete
<1>. QED  BY <1>2, <1>3

\* When no publisher is inside, none has a channel left to serve.
LEMMA NobodyInside ==
    ASSUME Inv, readers = {}, NEW p \in Publishers
    PROVE  left[p] = {}
BY DEF Inv, Reaching

LEMMA InvInit == Init => Inv
<1>. SUFFICES ASSUME Init  PROVE Inv
  OBVIOUS
<1>1. \A c \in Subscribers : Stream(c) = << >>
  <2>. SUFFICES ASSUME NEW c \in Subscribers  PROVE << >> \o << >> = << >>
    BY DEF Init, Stream
  <2>1. << >> \in Seq(Nat)
    OBVIOUS
  <2>. QED  BY <2>1, ConcatEmptySeq
<1>2. \A c \in Subscribers : Registered(c)
  BY BusAssumption DEF Init, Registered
<1>3. DOMAIN << >> = {}
  OBVIOUS
<1>4. \A c \in Subscribers : Ordered(c) /\ Complete(c)
  BY <1>1, <1>3 DEF Init, Ordered, Complete
<1>5. \A p \in Publishers : Reaching(p)
  BY DEF Init, Reaching
<1>. QED  BY <1>2, <1>4, <1>5 DEF Inv

LEMMA LockCalledKeeps ==
    ASSUME TypeOK, Inv, NEW c \in Subscribers, SubscribeCalled(c) \/ CancelCalled(c)
    PROVE  Inv'
<1>1. /\ writer = Nobody /\ writer' = c
      /\ UNCHANGED <<readers, subs, chan, closed, left, sending, seen, dropped, joined>>
      /\ \/ sub[c] = "none" /\ sub' = [sub EXCEPT ![c] = "subscribing"]
         \/ sub[c] = "live" /\ sub' = [sub EXCEPT ![c] = "cancelling"]
  BY DEF SubscribeCalled, CancelCalled, LockCalled, tailVars
<1>2. \A d \in Subscribers : Stream(d)' = Stream(d)
  BY <1>1, StreamsKept
<1>3. ASSUME NEW d \in Subscribers  PROVE Registered(d)' /\ Ordered(d)' /\ Complete(d)'
  <2>1. Registered(d)'
    <3>1. writer # d
      BY <1>1, BusAssumption
    <3>2. CASE d = c
      BY <1>1, <3>2 DEF Inv, Registered, TypeOK
    <3>3. CASE d # c
      BY <1>1, <3>1, <3>3 DEF Inv, Registered, TypeOK
    <3>. QED  BY <3>2, <3>3
  <2>2. Calm(d) /\ (sub'[d] \in {"live", "cancelling"} => sub[d] \in {"live", "cancelling"})
    BY <1>1, <1>2 DEF Calm, TypeOK
  <2>. QED  BY <2>1, <2>2, CalmKeeps DEF Inv
<1>4. \A p \in Publishers : Reaching(p)'
  BY <1>1, <1>2 DEF Inv, Reaching, TypeOK
<1>. QED  BY <1>3, <1>4 DEF Inv

LEMMA RegisterKeeps ==
    ASSUME TypeOK, TypeOK', Inv, NEW c \in Subscribers, Register(c)
    PROVE  Inv'
<1>1. /\ sub[c] = "subscribing" /\ writer = c /\ writer' = Nobody
      /\ readers = {} /\ readers' = {}
      /\ subs' = subs \cup {c} /\ sub' = [sub EXCEPT ![c] = "live"]
      /\ joined' = [joined EXCEPT ![c] = sending]
      /\ UNCHANGED <<chan, closed, left, sending, seen, dropped>>
  BY DEF Register, Locked
<1>2. \A d \in Subscribers : Stream(d)' = Stream(d)
  BY <1>1, StreamsKept
<1>3. ASSUME NEW d \in Subscribers  PROVE Registered(d)'
  <2>1. writer' # d
    BY <1>1, BusAssumption
  <2>2. CASE d = c
    <3>1. \A p \in Publishers : joined'[c][p] <= sending'[p]
      BY <1>1 DEF TypeOK
    <3>. QED  BY <1>1, <2>1, <2>2, <3>1 DEF Inv, Registered, TypeOK
  <2>3. CASE d # c
    BY <1>1, <2>1, <2>3 DEF Inv, Registered, TypeOK
  <2>. QED  BY <2>2, <2>3
<1>4. Ordered(c)' /\ Complete(c)'
  <2>1. Stream(c)' = << >>
    <3>1. seen[c] = << >> /\ chan[c] = << >>
      BY <1>1 DEF Inv, Registered
    <3>2. << >> \o << >> = << >>
      <4>1. << >> \in Seq(Nat)
        OBVIOUS
      <4>. QED  BY <4>1, ConcatEmptySeq
    <3>. QED  BY <1>2, <3>1, <3>2 DEF Stream
  <2>2. DOMAIN << >> = {}
    OBVIOUS
  <2>3. Ordered(c)'
    BY <2>1, <2>2 DEF Ordered
  <2>4. \A p \in Publishers : ~ (sending'[p] > joined'[c][p])
    BY <1>1 DEF TypeOK
  <2>. QED  BY <2>3, <2>4 DEF Complete
<1>5. ASSUME NEW d \in Subscribers, d # c  PROVE Ordered(d)' /\ Complete(d)'
  <2>1. Calm(d) /\ sub'[d] = sub[d]
    BY <1>1, <1>2, <1>5 DEF Calm, TypeOK
  <2>. QED  BY <2>1, CalmKeeps DEF Inv
<1>6. \A p \in Publishers : Reaching(p)'
  BY <1>1, NobodyInside DEF Reaching
<1>. QED  BY <1>3, <1>4, <1>5, <1>6 DEF Inv

LEMMA UnregisterKeeps ==
    ASSUME TypeOK, TypeOK', Inv, NEW c \in Subscribers, Unregister(c)
    PROVE  Inv'
<1>1. /\ sub[c] = "cancelling" /\ writer = c /\ writer' = Nobody
      /\ readers = {} /\ readers' = {}
      /\ subs' = subs \ {c} /\ closed' = closed \cup {c}
      /\ sub' = [sub EXCEPT ![c] = "cancelled"]
      /\ UNCHANGED <<chan, left, sending, seen, dropped, joined>>
  BY DEF Unregister, Locked, tailVars
<1>2. \A d \in Subscribers : Stream(d)' = Stream(d)
  BY <1>1, StreamsKept
<1>3. ASSUME NEW d \in Subscribers  PROVE Registered(d)' /\ Ordered(d)' /\ Complete(d)'
  <2>1. writer' # d
    BY <1>1, BusAssumption
  <2>2. Registered(d)'
    BY <1>1, <2>1 DEF Inv, Registered, TypeOK
  <2>3. Calm(d) /\ (sub'[d] \in {"live", "cancelling"} => sub[d] \in {"live", "cancelling"})
    BY <1>1, <1>2 DEF Calm, TypeOK
  <2>. QED  BY <2>2, <2>3, CalmKeeps DEF Inv
<1>4. \A p \in Publishers : Reaching(p)'
  BY <1>1, NobodyInside DEF Reaching
<1>. QED  BY <1>3, <1>4 DEF Inv

LEMMA ReceiveKeeps ==
    ASSUME TypeOK, Inv, NEW c \in Subscribers, Receive(c)
    PROVE  Inv'
<1>1. /\ sub[c] = "live"
      /\ UNCHANGED <<writer, readers, sub, subs, closed, left, sending, joined, dropped>>
      /\ \A d \in Subscribers : d # c => seen'[d] = seen[d] /\ chan'[d] = chan[d]
  BY DEF Receive, lockVars, TypeOK
<1>2. \A d \in Subscribers : Stream(d)' = Stream(d)
  BY StreamReceived
<1>3. ASSUME NEW d \in Subscribers  PROVE Registered(d)' /\ Ordered(d)' /\ Complete(d)'
  <2>1. Registered(d)'
    BY <1>1 DEF Inv, Registered
  <2>2. Calm(d) /\ sub'[d] = sub[d]
    BY <1>1, <1>2 DEF Calm
  <2>. QED  BY <2>1, <2>2, CalmKeeps DEF Inv
<1>4. \A p \in Publishers : Reaching(p)'
  BY <1>1, <1>2 DEF Inv, Reaching, TypeOK
<1>. QED  BY <1>3, <1>4 DEF Inv

\* A publication that begins is newer than all its publisher sent before, and
\* is owed to every registered subscription.
LEMMA PublishCalledKeeps ==
    ASSUME TypeOK, Inv, NEW p \in Publishers, NEW stamp \in (sending[p] + 1)..MaxStamp,
           PublishCalled(p, stamp)
    PROVE  Inv'
<1>1. /\ p \notin readers /\ readers' = readers \cup {p}
      /\ sending' = [sending EXCEPT ![p] = stamp]
      /\ left' = [left EXCEPT ![p] = subs]
      /\ UNCHANGED <<writer, sub, subs, chan, closed, seen, dropped, joined>>
  BY DEF PublishCalled, tailVars
<1>2. stamp \in Nat /\ sending[p] \in Nat /\ sending[p] < stamp
  BY BusAssumption DEF TypeOK
<1>3. /\ sending'[p] = stamp /\ left'[p] = subs
      /\ \A q \in Publishers \ {p} : sending'[q] = sending[q] /\ left'[q] = left[q]
      /\ \A q \in Publishers : sending[q] \in Nat /\ sending[q] <= sending'[q]
  BY <1>1, <1>2 DEF TypeOK
<1>4. \A d \in Subscribers : Stream(d)' = Stream(d)
  BY <1>1, StreamsKept
<1>5. ASSUME NEW d \in Subscribers  PROVE Registered(d)'
  <2>1. \A q \in Publishers : joined'[d][q] <= sending'[q]
    <3>. SUFFICES ASSUME NEW q \in Publishers  PROVE joined[d][q] <= sending'[q]
      BY <1>1
    <3>1. joined[d][q] \in Nat /\ joined[d][q] <= sending[q] /\ sending'[q] \in Nat
      BY <1>2, <1>3 DEF TypeOK, Inv, Registered
    <3>. QED  BY <1>3, <3>1
  <2>. QED  BY <1>1, <2>1 DEF Inv, Registered
<1>6. ASSUME NEW d \in Subscribers  PROVE Ordered(d)'
  <2>1. \A i \in DOMAIN Stream(d) : Stream(d)[i].stamp <= sending'[Stream(d)[i].from]
    <3>. SUFFICES ASSUME NEW i \in DOMAIN Stream(d)
                  PROVE  Stream(d)[i].stamp <= sending'[Stream(d)[i].from]
      OBVIOUS
    <3>1. Stream(d)[i].from \in Publishers /\ Stream(d)[i].stamp \in Nat
      BY Streams
    <3>2. Stream(d)[i].stamp <= sending[Stream(d)[i].from]
      BY DEF Inv, Ordered
    <3>3. sending'[Stream(d)[i].from] \in Nat
      BY <1>2, <1>3, <3>1
    <3>. QED  BY <1>3, <3>1, <3>2, <3>3
  <2>. QED  BY <1>1, <1>4, <2>1 DEF Inv, Ordered
<1>7. ASSUME NEW d \in Subscribers  PROVE Complete(d)'
  <2>. SUFFICES ASSUME sub[d] \in {"live", "cancelling"}, NEW q \in Publishers,
                       sending'[q] > joined[d][q]
                PROVE  \/ d \in left'[q]
                       \/ Price(q)' \in dropped[d]
                       \/ \E i \in DOMAIN Stream(d) : Stream(d)[i] = Price(q)'
    BY <1>1, <1>4 DEF Complete
  <2>1. CASE q = p
    BY <1>3, <2>1 DEF Inv, Registered
  <2>2. CASE q # p
    <3>1. sending'[q] = sending[q] /\ left'[q] = left[q] /\ Price(q)' = Price(q)
      BY <1>3, <2>2 DEF Price
    <3>. QED  BY <3>1 DEF Inv, Complete
  <2>. QED  BY <2>1, <2>2
<1>8. ASSUME NEW q \in Publishers  PROVE Reaching(q)'
  <2>1. CASE q = p
    <3>1. ASSUME NEW c \in subs
          PROVE  /\ joined[c][p] < stamp
                 /\ \A i \in DOMAIN Stream(c) :
                       Stream(c)[i].from = p => Stream(c)[i].stamp < stamp
      <4>1. c \in Subscribers
        BY DEF TypeOK
      <4>2. joined[c][p] <= sending[p] /\ joined[c][p] \in Nat
        BY <4>1 DEF Inv, Registered, TypeOK
      <4>3. \A i \in DOMAIN Stream(c) : /\ Stream(c)[i].stamp \in Nat
                                        /\ Stream(c)[i].stamp <= sending[Stream(c)[i].from]
        BY <4>1, Streams DEF Inv, Ordered
      <4>. QED  BY <1>2, <4>2, <4>3
    <3>. QED  BY <1>1, <1>3, <1>4, <2>1, <3>1 DEF Reaching, TypeOK
  <2>2. CASE q # p
    BY <1>1, <1>3, <1>4, <2>2 DEF Inv, Reaching, TypeOK
  <2>. QED  BY <2>1, <2>2
<1>. QED  BY <1>5, <1>6, <1>7, <1>8 DEF Inv

\* What is offered goes behind older prices, or is counted as dropped.
LEMMA OfferKeeps ==
    ASSUME TypeOK, Inv, NEW p \in Publishers, NEW c \in Subscribers, Offer(p, c)
    PROVE  Inv'
<1>1. /\ c \in left[p] /\ left' = [left EXCEPT ![p] = @ \ {c}]
      /\ UNCHANGED <<writer, readers, sub, subs, closed, sending, seen, joined>>
  BY DEF Offer, lockVars
<1>2. /\ c \in subs /\ sub[c] \in {"live", "cancelling"}
      /\ joined[c][p] < sending[p]
      /\ \A i \in DOMAIN Stream(c) :
            Stream(c)[i].from = p => Stream(c)[i].stamp < sending[p]
  BY <1>1 DEF Inv, Reaching, Registered
<1>3. /\ Price(p) \in Message /\ Price(p).from = p /\ Price(p).stamp = sending[p]
      /\ \A q \in Publishers : Price(q)' = Price(q)
      /\ \A q \in Publishers : left'[q] \subseteq left[q]
      /\ \A q \in Publishers, d \in Subscribers :
            d \in left[q] /\ (d # c \/ q # p) => d \in left'[q]
  BY <1>1 DEF Price, Message, TypeOK
<1>4. CASE chan' = [chan EXCEPT ![c] = Append(@, Price(p))] /\ dropped' = dropped
  <2>. DEFINE s == Stream(c)
              m == Price(p)
              n == Len(s)
  <2>1. /\ Stream(c)' = Append(s, m)
        /\ \A d \in Subscribers \ {c} : Stream(d)' = Stream(d)
    BY <1>1, <1>3, <1>4, StreamOffered
  <2>2. s \in Seq(Message) /\ n \in Nat /\ DOMAIN s = 1..n
    BY Streams
  <2>3. /\ DOMAIN Stream(c)' = 1..(n + 1)
        /\ \A i \in 1..n : Stream(c)'[i] = s[i]
        /\ Stream(c)'[n + 1] = m
    <3>. HIDE DEF m, s
    <3>1. m \in Message
      BY <1>3 DEF m
    <3>2. Append(s, m) \in Seq(Message) /\ Len(Append(s, m)) = n + 1
      BY <2>2, <3>1, AppendProperties
    <3>3. DOMAIN Append(s, m) = 1..(n + 1)
      BY <3>2, LenProperties
    <3>. QED  BY <2>1, <2>2, <3>1, <3>3, AppendProperties
  <2>4. Ordered(c)'
    <3>1. \A i \in 1..n : /\ s[i].from = p => s[i].stamp < sending[p]
                          /\ joined[c][s[i].from] < s[i].stamp
                          /\ s[i].stamp <= sending[s[i].from]
      BY <1>2, <2>2 DEF Inv, Ordered
    <3>2. \A i, j \in 1..n : i < j /\ s[i].from = s[j].from => s[i].stamp < s[j].stamp
      BY <2>2 DEF Inv, Ordered
    <3>3. m.from = p /\ m.stamp = sending[p] /\ sending[p] \in Nat
      BY <1>3 DEF TypeOK
    <3>. HIDE DEF s, m, n
    <3>4. ASSUME NEW i \in 1..(n + 1), NEW j \in 1..(n + 1), i < j,
                 Stream(c)'[i].from = Stream(c)'[j].from
          PROVE  Stream(c)'[i].stamp < Stream(c)'[j].stamp
      <4>1. i \in 1..n /\ (j \in 1..n \/ j = n + 1)
        BY <2>2, <3>4
      <4>2. CASE j \in 1..n
        BY <2>3, <3>2, <3>4, <4>1, <4>2
      <4>3. CASE j = n + 1
        <5>1. Stream(c)'[i] = s[i] /\ Stream(c)'[j] = m
          BY <2>3, <4>1, <4>3
        <5>. QED  BY <3>1, <3>3, <3>4, <4>1, <5>1
      <4>. QED  BY <4>1, <4>2, <4>3
    <3>5. ASSUME NEW i \in 1..(n + 1)
          PROVE  /\ joined[c][Stream(c)'[i].from] < Stream(c)'[i].stamp
                 /\ Stream(c)'[i].stamp <= sending[Stream(c)'[i].from]
      <4>1. i \in 1..n \/ i = n + 1
        BY <2>2
      <4>2. CASE i \in 1..n
        BY <2>3, <3>1, <4>2
      <4>3. CASE i = n + 1
        BY <1>2, <2>3, <3>3, <4>3
      <4>. QED  BY <4>1, <4>2, <4>3
    <3>. QED  BY <1>1, <2>3, <3>4, <3>5 DEF Ordered
  <2>5. Complete(c)'
    <3>. SUFFICES ASSUME NEW q \in Publishers, sending[q] > joined[c][q]
                  PROVE  \/ c \in left'[q]
                         \/ Price(q) \in dropped[c]
                         \/ \E i \in 1..(n + 1) : Stream(c)'[i] = Price(q)
      BY <1>1, <1>3, <1>4, <2>3 DEF Complete
    <3>1. CASE q = p
      <4>1. n + 1 \in 1..(n + 1)
        BY <2>2
      <4>. QED  BY <2>3, <3>1, <4>1
    <3>2. CASE q # p
      <4>1. \/ c \in left[q]
            \/ Price(q) \in dropped[c]
            \/ \E i \in 1..n : s[i] = Price(q)
        BY <1>2, <2>2 DEF Inv, Complete
      <4>2. \A i \in 1..n : i \in 1..(n + 1)
        BY <2>2
      <4>. QED  BY <1>3, <2>3, <3>2, <4>1, <4>2
    <3>. QED  BY <3>1, <3>2
  <2>6. ASSUME NEW d \in Subscribers, d # c  PROVE Ordered(d)' /\ Complete(d)'
    <3>1. Ordered(d)'
      BY <1>1, <2>1, <2>6 DEF Inv, Ordered
    <3>2. Complete(d)'
      <4>. SUFFICES ASSUME sub[d] \in {"live", "cancelling"}, NEW q \in Publishers,
                           sending[q] > joined[d][q]
                    PROVE  \/ d \in left'[q]
                           \/ Price(q) \in dropped[d]
                           \/ \E i \in DOMAIN Stream(d) : Stream(d)[i] = Price(q)
        BY <1>1, <1>3, <1>4, <2>1, <2>6 DEF Complete
      <4>. QED  BY <1>3, <2>6 DEF Inv, Complete
    <3>. QED  BY <3>1, <3>2
  <2>7. ASSUME NEW d \in Subscribers  PROVE Registered(d)'
    <3>1. d # c => chan'[d] = chan[d]
      BY <1>4 DEF TypeOK
    <3>. QED  BY <1>1, <1>2, <3>1 DEF Inv, Registered
  <2>8. ASSUME NEW q \in Publishers  PROVE Reaching(q)'
    <3>1. ASSUME NEW d \in left'[q]
          PROVE  /\ joined[d][q] < sending[q]
                 /\ \A i \in DOMAIN Stream(d)' :
                       Stream(d)'[i].from = q => Stream(d)'[i].stamp < sending[q]
      <4>1. d \in left[q] /\ d \in Subscribers
        BY <1>3 DEF TypeOK
      <4>2. joined[d][q] < sending[q]
            /\ \A i \in DOMAIN Stream(d) :
                  Stream(d)[i].from = q => Stream(d)[i].stamp < sending[q]
        BY <4>1 DEF Inv, Reaching
      <4>3. CASE d # c
        BY <2>1, <4>1, <4>2, <4>3
      <4>4. CASE d = c
        <5>1. q # p
          BY <1>1, <4>4 DEF TypeOK
        <5>2. ASSUME NEW i \in 1..(n + 1), Stream(c)'[i].from = q
              PROVE  Stream(c)'[i].stamp < sending[q]
          <6>1. i \in 1..n \/ i = n + 1
            BY <2>2
          <6>2. i # n + 1
            BY <1>3, <2>3, <5>1, <5>2
          <6>. QED  BY <2>2, <2>3, <4>2, <4>4, <5>2, <6>1, <6>2
        <5>. QED  BY <2>3, <4>2, <4>4, <5>2
      <4>. QED  BY <4>3, <4>4
    <3>. QED  BY <1>1, <1>3, <3>1 DEF Inv, Reaching
  <2>. QED  BY <2>4, <2>5, <2>6, <2>7, <2>8 DEF Inv
<1>5. CASE dropped' = [dropped EXCEPT ![c] = @ \cup {Price(p)}] /\ chan' = chan
  <2>1. \A d \in Subscribers : Stream(d)' = Stream(d)
    BY <1>1, <1>5, StreamsKept
  <2>2. /\ Price(p) \in dropped'[c]
        /\ \A d \in Subscribers : dropped[d] \subseteq dropped'[d]
    BY <1>5 DEF TypeOK
  <2>3. ASSUME NEW d \in Subscribers  PROVE Registered(d)' /\ Ordered(d)' /\ Complete(d)'
    <3>1. Registered(d)' /\ Ordered(d)'
      BY <1>1, <1>5, <2>1 DEF Inv, Registered, Ordered
    <3>2. Complete(d)'
      <4>. SUFFICES ASSUME sub[d] \in {"live", "cancelling"}, NEW q \in Publishers,
                           sending[q] > joined[d][q]
                    PROVE  \/ d \in left'[q]
                           \/ Price(q) \in dropped'[d]
                           \/ \E i \in DOMAIN Stream(d) : Stream(d)[i] = Price(q)
        BY <1>1, <1>3, <2>1 DEF Complete
      <4>. QED  BY <1>3, <2>2 DEF Inv, Complete
    <3>. QED  BY <3>1, <3>2
  <2>4. \A q \in Publishers : Reaching(q)'
    BY <1>1, <1>3, <2>1 DEF Inv, Reaching, TypeOK
  <2>. QED  BY <2>3, <2>4 DEF Inv
<1>. QED  BY <1>4, <1>5 DEF Offer

LEMMA PublishReturnsKeeps ==
    ASSUME TypeOK, Inv, NEW p \in Publishers, PublishReturns(p)
    PROVE  Inv'
<1>1. /\ left[p] = {} /\ readers' = readers \ {p}
      /\ UNCHANGED <<writer, sub, subs, chan, closed, left, sending, seen, dropped, joined>>
  BY DEF PublishReturns, tailVars
<1>2. \A d \in Subscribers : Stream(d)' = Stream(d)
  BY <1>1, StreamsKept
<1>3. ASSUME NEW d \in Subscribers  PROVE Registered(d)' /\ Ordered(d)' /\ Complete(d)'
  <2>1. Calm(d) /\ sub'[d] = sub[d]
    BY <1>1, <1>2 DEF Calm
  <2>. QED  BY <1>1, <2>1, CalmKeeps DEF Inv, Registered
<1>4. \A q \in Publishers : Reaching(q)'
  BY <1>1, <1>2 DEF Inv, Reaching, TypeOK
<1>. QED  BY <1>3, <1>4 DEF Inv

LEMMA InvNext == TypeOK /\ TypeOK' /\ Inv /\ [Next]_vars => Inv'
<1>. SUFFICES ASSUME TypeOK, TypeOK', Inv, [Next]_vars  PROVE Inv'
  OBVIOUS
<1>1. ASSUME NEW c \in Subscribers,
             SubscribeCalled(c) \/ Register(c) \/ CancelCalled(c) \/ Unregister(c) \/ Receive(c)
      PROVE  Inv'
  BY <1>1, LockCalledKeeps, RegisterKeeps, UnregisterKeeps, ReceiveKeeps
<1>2. ASSUME NEW p \in Publishers,
             \/ \E stamp \in (sending[p] + 1)..MaxStamp : PublishCalled(p, stamp)
             \/ Publish(p)
      PROVE  Inv'
  BY <1>2, PublishCalledKeeps, OfferKeeps, PublishReturnsKeeps DEF Publish
<1>3. CASE UNCHANGED vars
  <2>1. \A d \in Subscribers : Stream(d)' = Stream(d)
    BY <1>3, StreamsKept DEF vars, tailVars
  <2>2. ASSUME NEW d \in Subscribers  PROVE Registered(d)' /\ Ordered(d)' /\ Complete(d)'
    <3>1. Calm(d) /\ sub'[d] = sub[d]
      BY <1>3, <2>1 DEF Calm, vars, tailVars
    <3>. QED  BY <1>3, <3>1, CalmKeeps DEF Inv, Registered, vars, lockVars, tailVars
  <2>3. \A q \in Publishers : Reaching(q)'
    BY <1>3, <2>1 DEF Inv, Reaching, TypeOK, vars, lockVars, tailVars
  <2>. QED  BY <2>2, <2>3 DEF Inv
<1>. QED  BY <1>1, <1>2, <1>3 DEF Next

LEMMA Invariance == Spec => [](TypeOK /\ Inv)
BY TypeInit, TypeNext, InvInit, InvNext, PTL DEF Spec

\* Publish never sends on a channel that cancel has closed, for any number of
\* publishers and subscriptions: what a publisher has left is registered.
THEOREM NoPanic == Spec => []NeverSendsOnClosed
<1>1. Inv /\ TypeOK => NeverSendsOnClosed
  BY DEF Inv, Reaching, Registered, NeverSendsOnClosed, TypeOK
<1>. QED  BY <1>1, Invariance, PTL

\* Nothing published after Subscribe returned is lost but for lack of room.
THEOREM AllAccounted == Spec => []Accounted
<1>1. Inv => Accounted
  BY DEF Inv, Complete, Accounted
<1>. QED  BY <1>1, Invariance, PTL

\* Each subscriber hears each publisher in order, nothing twice, and nothing
\* from before it subscribed.
THEOREM AllInOrder == Spec => []InOrder
<1>1. Inv => InOrder
  BY DEF Inv, Ordered, InOrder
<1>. QED  BY <1>1, Invariance, PTL

=============================================================================
