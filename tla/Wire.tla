-------------------------------- MODULE Wire --------------------------------
(***************************************************************************)
(* What becomes of a round on its way to a client: the contributions       *)
(* fetchAll makes of the answers, the JSON of the breakdown in             *)
(* prices_aggregated, and the protobuf messages.  Operators only.          *)
(***************************************************************************)
EXTENDS SourceKinds

CONSTANTS
    Second,   \* instants in a second
    Micro,    \* instants in a microsecond, the resolution of TIMESTAMPTZ
    NoTime,   \* the zero time.Time
    Nil,      \* a timestamp that is not set
    NaN       \* a price that JSON cannot express

ASSUME WireAssumption ==
    /\ Second \in Nat \ {0} /\ Micro \in Nat \ {0}
    /\ Second % Micro = 0
    /\ NoTime \notin Int
    /\ Nil \notin [seconds : Int, rest : Int]

-----------------------------------------------------------------------------
(* The contributions of a round; instants count from the Unix epoch.       *)

\* RawPrice.AgeSec.
AgeSec(observed, now) ==
    IF observed = NoTime \/ now < observed THEN 0 ELSE (now - observed) \div Second

\* A fetch that failed.
Absent(kind) ==
    [source |-> kind, price |-> 0, fetched |-> NoTime, observed |-> NoTime,
     age |-> 0, included |-> FALSE]

\* One that answered; the freshness policy may have excluded it since.
Answered(kind, price, fetched, observed, now, included) ==
    [source |-> kind, price |-> price, fetched |-> fetched, observed |-> observed,
     age |-> AgeSec(observed, now), included |-> included]

-----------------------------------------------------------------------------
(* The breakdown.  The zero time.Time lies before the epoch and survives   *)
(* Unix and back.                                                          *)

ZeroUnix == -1000

Unix(t) == IF t = NoTime THEN ZeroUnix ELSE t \div Second
fromUnix(u) == IF u = ZeroUnix THEN NoTime ELSE u * Second

zeroOrUnix(t) == IF t = NoTime THEN 0 ELSE Unix(t)

\* Mutant: the epoch stands for no time when written, not when read.
EpochRead(u) == fromUnix(u)

unixOrZero(u) == IF u = 0 THEN NoTime ELSE fromUnix(u)

\* json.Marshal succeeds.
Encodes(sources) == \A i \in DOMAIN sources : sources[i].price # NaN

encodeBreakdown(sources) ==
    [i \in DOMAIN sources |->
        [sources[i] EXCEPT !.source = String(@), !.fetched = Unix(@), !.observed = zeroOrUnix(@)]]

decodeBreakdown(entries) ==
    [i \in DOMAIN entries |->
        [entries[i] EXCEPT !.source = SourceKindFromString(@), !.fetched = fromUnix(@),
                           !.observed = unixOrZero(@)]]

\* What a TIMESTAMPTZ keeps of an instant.
Stamp(t) == t - (t % Micro)

-----------------------------------------------------------------------------
(* The messages.                                                           *)

tsOrNil(t) == IF t = NoTime THEN Nil ELSE [seconds |-> t \div Second, rest |-> t % Second]
tsOrZero(p) == IF p = Nil THEN NoTime ELSE p.seconds * Second + p.rest

\* ToProto, of an AggregatedPrice and of each SourceContribution; price stands
\* for the median.
ToProto(agg) ==
    [assetId |-> agg.asset, price |-> agg.price, aggregatedAt |-> tsOrNil(agg.at),
     sources |-> [i \in DOMAIN agg.sources |->
         [agg.sources[i] EXCEPT !.source = String(@), !.fetched = tsOrNil(@),
                                !.observed = tsOrNil(@)]]]

\* AggregatedPriceFromProto, once the id is found valid.
FromProto(p) ==
    [asset |-> p.assetId, price |-> p.price, at |-> tsOrZero(p.aggregatedAt),
     sources |-> [i \in DOMAIN p.sources |->
         [p.sources[i] EXCEPT !.source = SourceKindFromString(@), !.fetched = tsOrZero(@),
                              !.observed = tsOrZero(@)]]]

=============================================================================
