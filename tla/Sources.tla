------------------------------ MODULE Sources ------------------------------
(***************************************************************************)
(* One source adapter and the fetches that go through it at the same time: *)
(* the rate limiter they share, their deadlines, and what the adapter      *)
(* makes of an answer.  Adapters share nothing with each other, so each    *)
(* behaviour is about one, chosen at its start.                            *)
(***************************************************************************)
EXTENDS Integers, Sequences, FiniteSetsExt

CONSTANTS
    Kinds,        \* the adapters
    Replies,      \* Replies[kind]: what the server may answer
    Fetchers,     \* goroutines of fetchAll that want this source
    Interval,     \* instants until the limiter has another token
    Burst,        \* and how many it keeps
    Timeout,      \* of the HTTP client
    TickTime,     \* from the start of a fetch to the end of its tick
    MaxNow,       \* bound: the clock
    MaxFetches    \* bound: fetches

\* Reported: the times a server may give.
CONSTANTS Reported, NoTime, Empty, Garbage, NaN, Garbled

ASSUME SourcesAssumption ==
    /\ Interval \in Nat \ {0} /\ Burst \in Nat \ {0} /\ Timeout \in Nat \ {0}
    /\ TickTime \in Nat \ {0} /\ MaxNow \in Nat /\ MaxFetches \in Nat
    /\ Kinds \subseteq DOMAIN Replies

Text == Int \cup {NaN, Empty, Garbage}
Time == Reported \cup {NoTime}

\* What an adapter can read, of what it looks at.
Bodies == [
    coingecko     |-> [listed : BOOLEAN, usd : Int, updated : Time],
    binance       |-> [price : Text],
    uniswap_v3    |-> [errors : BOOLEAN, found : BOOLEAN,
                       pool : [stable0 : BOOLEAN, stable1 : BOOLEAN,
                               token0Price : Text, token1Price : Text]],
    alpha_vantage |-> [note : BOOLEAN, errorMessage : BOOLEAN, rate : Text, refreshed : Time],
    twelve_data   |-> [errorStatus : BOOLEAN, code : Int, price : Text],
    stooq         |-> [rows : BOOLEAN, close : Text, stamp : Time],
    eia           |-> Seq([value : Text, period : Time]),
    fred          |-> Seq([value : Text, date : Time]),
    yahoo         |-> [error : BOOLEAN, result : BOOLEAN, price : Int, marketTime : Time],
    swissquote    |-> Seq([bid : Int, ask : Int]),
    gold_api      |-> [price : Int, updatedAt : Time]]

ASSUME RepliesAssumption ==
    /\ {NaN, Empty, Garbage} \cap Int = {} /\ NaN \notin {Empty, Garbage}
    /\ Kinds \subseteq DOMAIN Bodies
    /\ \A k \in Kinds : \A reply \in Replies[k] :
          reply.body = Garbled \/ reply.body \in Bodies[k]

-----------------------------------------------------------------------------
(* What an adapter makes of an answer.  A price that comes as text is a    *)
(* number, NaN, Empty or Garbage; a time that is missing or does not parse *)
(* is NoTime.                                                              *)

NoData   == [error |-> "ErrNoData"]
Upstream == [error |-> "ErrUpstream"]
Misused  == [error |-> "ErrConfig"]

Price(p, fetched, observed) ==
    [error |-> "none", price |-> p, fetched |-> fetched,
     observed |-> IF observed = NoTime THEN fetched ELSE observed]

NotPositive(p) == p # NaN /\ p <= 0

\* An answer with a body this adapter can read; refusal is the status by which
\* the server says that it does not know the symbol.
Answered(reply, refusal, price) ==
    IF reply.status = refusal THEN NoData
    ELSE IF reply.status # 200 \/ reply.body = Garbled THEN Upstream
    ELSE price

Parsed(text, price) ==
    IF text = Empty THEN NoData ELSE IF text = Garbage THEN Upstream ELSE price

None == 0   \* no status is a refusal

coingecko(reply, now) ==
    Answered(reply, None,
        IF ~ reply.body.listed \/ reply.body.usd = 0 THEN NoData
        ELSE Price(reply.body.usd, now, reply.body.updated))

binance(reply, now) ==
    Answered(reply, 400,
        Parsed(reply.body.price,
            IF reply.body.price = 0 THEN NoData ELSE Price(reply.body.price, now, NoTime)))

\* Here alone an empty text is not told from one that does not parse.
uniswap_v3(reply, now) ==
    LET pool == reply.body.pool
        text == IF pool.stable0 THEN pool.token0Price ELSE pool.token1Price
    IN  Answered(reply, None,
            IF reply.body.errors THEN Upstream
            ELSE IF ~ reply.body.found \/ pool.stable0 = pool.stable1 THEN NoData
            ELSE IF text \in {Empty, Garbage} THEN Upstream
            ELSE IF NotPositive(text) THEN NoData ELSE Price(text, now, NoTime))

\* A quota that is used up comes as a note.
alpha_vantage(reply, now) ==
    Answered(reply, None,
        IF reply.body.note THEN Upstream
        ELSE IF reply.body.errorMessage THEN NoData
        ELSE Parsed(reply.body.rate, Price(reply.body.rate, now, reply.body.refreshed)))

twelve_data(reply, now) ==
    Answered(reply, None,
        IF reply.body.errorStatus
        THEN IF reply.body.code \in 400..499 THEN NoData ELSE Upstream
        ELSE Parsed(reply.body.price,
                IF reply.body.price = 0 THEN NoData ELSE Price(reply.body.price, now, NoTime)))

\* "N/D" is Empty; without a Close column close is Garbage.
stooq(reply, now) ==
    Answered(reply, None,
        IF ~ reply.body.rows THEN NoData
        ELSE Parsed(reply.body.close,
                IF NotPositive(reply.body.close) THEN NoData
                ELSE Price(reply.body.close, now, reply.body.stamp)))

eia(reply, now) ==
    Answered(reply, None,
        IF reply.body = << >> THEN NoData
        ELSE Parsed(Head(reply.body).value,
                IF NotPositive(Head(reply.body).value) THEN NoData
                ELSE Price(Head(reply.body).value, now, Head(reply.body).period)))

\* Mutant: only the first row is looked at, and taken whatever it says.
fredFirst(reply, now) ==
    Answered(reply, None,
        IF reply.body = << >> THEN NoData
        ELSE Parsed(Head(reply.body).value, Price(Head(reply.body).value, now, Head(reply.body).date)))

\* The first row, newest first, that is neither missing nor without a price;
\* the missing value "." is Empty.
fred(reply, now) ==
    LET Skipped(row) == row.value = Empty \/ (row.value # Garbage /\ NotPositive(row.value))
        rest == {i \in DOMAIN reply.body : ~ Skipped(reply.body[i])}
        row == reply.body[Min(rest)]
    IN  Answered(reply, None,
            IF rest = {} THEN NoData ELSE Parsed(row.value, Price(row.value, now, row.date)))

yahoo(reply, now) ==
    Answered(reply, 404,
        IF reply.body.error \/ ~ reply.body.result \/ reply.body.price <= 0 THEN NoData
        ELSE Price(reply.body.price, now, reply.body.marketTime))

swissquote(reply, now) ==
    LET usable == {i \in DOMAIN reply.body : reply.body[i].bid > 0 /\ reply.body[i].ask > 0}
        quote == reply.body[Min(usable)]
    IN  Answered(reply, None,
            IF usable = {} THEN NoData ELSE Price((quote.bid + quote.ask) \div 2, now, NoTime))

gold_api(reply, now) ==
    Answered(reply, 404,
        IF reply.body.price <= 0 THEN NoData
        ELSE Price(reply.body.price, now, reply.body.updatedAt))

Outcome(k, reply, sent, now) ==
    CASE k = "coingecko"     -> coingecko(reply, sent)
      [] k = "binance"       -> binance(reply, sent)
      [] k = "uniswap_v3"    -> uniswap_v3(reply, sent)
      [] k = "alpha_vantage" -> alpha_vantage(reply, now)
      [] k = "twelve_data"   -> twelve_data(reply, sent)
      [] k = "stooq"         -> stooq(reply, sent)
      [] k = "eia"           -> eia(reply, sent)
      [] k = "fred"          -> fred(reply, sent)
      [] k = "yahoo"         -> yahoo(reply, sent)
      [] k = "swissquote"    -> swissquote(reply, sent)
      [] k = "gold_api"      -> gold_api(reply, sent)

-----------------------------------------------------------------------------

VARIABLES
    kind,      \* the adapter
    now,       \* the clock
    spent,     \* the time at which the limiter has no token, future if owed
    fetch,     \* fetch[f]: the call of Fetch under way
    result,    \* what the last call to end returned
    sends      \* history: when requests were sent

vars == <<kind, now, spent, fetch, result, sends>>

Idle == [at |-> "idle"]

TypeOK ==
    /\ kind \in Kinds /\ now \in 0..MaxNow
    /\ spent \in Int /\ spent <= now + TickTime
    /\ \A f \in Fetchers :
          fetch[f] \in {Idle} \cup [at : {"token"}, due : Nat, deadline : Nat]
                             \cup [at : {"http"}, sent : 0..now, deadline : Nat]
    /\ result.error \in {"none", "ErrNoData", "ErrUpstream", "ErrConfig", "unasked"}
    /\ sends \in Seq(0..now)

Init ==
    /\ kind \in Kinds
    /\ now = 0
    /\ spent = -(Burst * Interval)
    /\ fetch = [f \in Fetchers |-> Idle]
    /\ result = [error |-> "unasked"]
    /\ sends = << >>

Later(a, b) == IF a > b THEN a ELSE b

\* x/time/rate: Wait takes a token from the future, unless that is beyond the
\* deadline of the context.
Reserved == Later(spent, now - Burst * Interval) + Interval

\* Mutant: no limiter.
Unlimited(f) ==
    /\ fetch[f] = Idle /\ Len(sends) < MaxFetches /\ now + TickTime <= MaxNow
    /\ fetch' = [fetch EXCEPT ![f] = [at |-> "token", due |-> now, deadline |-> now + TickTime]]
    /\ UNCHANGED <<kind, now, spent, result, sends>>

\* Fetch begins: acquireToken.
Fetch(f) ==
    /\ fetch[f] = Idle /\ Len(sends) < MaxFetches /\ now + TickTime <= MaxNow
    /\ Reserved <= now + TickTime
    /\ spent' = Reserved
    /\ fetch' = [fetch EXCEPT ![f] = [at |-> "token", due |-> Later(now, Reserved),
                                      deadline |-> now + TickTime]]
    /\ UNCHANGED <<kind, now, result, sends>>

FetchRefused(f) ==
    /\ fetch[f] = Idle /\ Len(sends) < MaxFetches /\ now + TickTime <= MaxNow
    /\ Reserved > now + TickTime
    /\ result' = Upstream
    /\ UNCHANGED <<kind, now, spent, fetch, sends>>

\* The token is there: the request goes out.
Send(f) ==
    /\ fetch[f].at = "token" /\ fetch[f].due <= now
    /\ fetch' = [fetch EXCEPT ![f] = [at |-> "http", sent |-> now, deadline |-> fetch[f].deadline]]
    /\ sends' = Append(sends, now)
    /\ UNCHANGED <<kind, now, spent, result>>

Returns(f, outcome) ==
    /\ result' = outcome
    /\ fetch' = [fetch EXCEPT ![f] = Idle]
    /\ UNCHANGED <<kind, now, sends>>

\* Alpha Vantage takes a token before it looks at the symbol.
RejectSymbol(f) ==
    /\ kind = "alpha_vantage"
    /\ fetch[f].at = "token" /\ fetch[f].due <= now
    /\ Returns(f, Misused)
    /\ UNCHANGED spent

Reply(f) ==
    /\ fetch[f].at = "http"
    /\ \E reply \in Replies[kind] : Returns(f, Outcome(kind, reply, fetch[f].sent, now))
    /\ UNCHANGED spent

\* Mutant: a client without a timeout.
Hangs(f) ==
    /\ fetch[f].at = "http" /\ fetch[f].sent = now
    /\ Returns(f, Upstream)
    /\ UNCHANGED spent

\* The connection fails, the client's timeout passes, or the context is done.
RequestFails(f) ==
    /\ fetch[f].at = "http"
    /\ Returns(f, Upstream)
    /\ UNCHANGED spent

\* The context is done while waiting.  A token not yet due goes back to the limiter, unless
\* one has been taken after it.
Cancelled(f) ==
    /\ fetch[f].at = "token"
    /\ Returns(f, Upstream)
    /\ spent' = IF fetch[f].due > now /\ fetch[f].due = spent THEN spent - Interval ELSE spent

Advance ==
    /\ now < MaxNow
    /\ \A f \in Fetchers :
          /\ fetch[f].at = "token" => fetch[f].due > now /\ fetch[f].deadline > now
          /\ fetch[f].at = "http" => fetch[f].deadline > now /\ fetch[f].sent + Timeout > now
    /\ now' = now + 1
    /\ UNCHANGED <<kind, spent, fetch, result, sends>>

Next ==
    \/ \E f \in Fetchers :
          \/ Fetch(f) \/ FetchRefused(f) \/ Send(f) \/ RejectSymbol(f)
          \/ Reply(f) \/ RequestFails(f) \/ Cancelled(f)
    \/ Advance

Spec == Init /\ [][Next]_vars

\* Goroutines run, the clock moves on, and deadlines are kept; that a server
\* answers is not assumed.
Fairness ==
    /\ WF_vars(Advance)
    /\ \A f \in Fetchers : WF_vars(Send(f)) /\ WF_vars(RequestFails(f))

FairSpec == Spec /\ Fairness

-----------------------------------------------------------------------------
(* Properties.                                                             *)

\* However many assets ask at once, give up or are turned away, any stretch of
\* time sees at most a burst and what has dripped into it (adapter.go:
\* acquireToken, called before every request).
RateHeld ==
    \A i \in DOMAIN sends : \A j \in i..Len(sends) :
        j - i + 1 <= Burst + (sends[j] - sends[i]) \div Interval

Priced == result.error = "none"

\* Adapters that bar what is not positive; of the others none but Alpha Vantage
\* returns a price of zero.
BarNonPositive == {"uniswap_v3", "stooq", "eia", "fred", "yahoo", "swissquote", "gold_api"}

\* A price that an adapter bars, or looks for a better one instead of, is not
\* returned, whatever the rows, sides or quotes around it; one that is carries
\* a time that its source reported or, where that is missing or unreadable,
\* the time of its fetch, and strict freshness judges it by that (the
\* adapters' Fetch; adapter.go:27-34).
UsableAnswers ==
    Priced =>
        /\ result.price = 0 => kind = "alpha_vantage"
        /\ result.price \notin {Empty, Garbage}
        /\ kind \in BarNonPositive => ~ NotPositive(result.price)
        /\ result.fetched \in 0..now
        /\ result.observed \in Reported \cup {result.fetched}

\* A fetch ends whether or not there is a token or an answer for it.
FetchEnds == \A f \in Fetchers : fetch[f].at # "idle" ~> fetch[f].at = "idle"

=============================================================================
