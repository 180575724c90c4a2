---------------------------- MODULE SourcesProofs ----------------------------
(***************************************************************************)
(* What an adapter returns, for any answers of its server, and the rate    *)
(* limiter under any number of fetches.  The invariant of the limiter: the *)
(* tokens that are held or have been used can be laid on a line of time,   *)
(* an interval apart, none after spent.                                    *)
(***************************************************************************)
EXTENDS Sources, FiniteOrders, SequenceTheorems

-----------------------------------------------------------------------------
(* What the adapters return.                                               *)

\* UsableAnswers and the type, of the result of an adapter at a time.
Sound(k, answer, t) ==
    /\ answer.error \in {"none", "ErrNoData", "ErrUpstream", "ErrConfig", "unasked"}
    /\ answer.error = "none" =>
         /\ answer.price = 0 => k = "alpha_vantage"
         /\ answer.price \notin {Empty, Garbage}
         /\ k \in BarNonPositive => ~ NotPositive(answer.price)
         /\ answer.fetched \in 0..t
         /\ answer.observed \in Reported \cup {answer.fetched}

LEMMA RefusalSound ==
    ASSUME NEW k, NEW t
    PROVE  Sound(k, NoData, t) /\ Sound(k, Upstream, t) /\ Sound(k, Misused, t)
BY DEF Sound, NoData, Upstream, Misused

LEMMA PriceSound ==
    ASSUME NEW k, NEW t \in Nat, NEW p, NEW fetched \in 0..t, NEW observed \in Time,
           p = 0 => k = "alpha_vantage",
           p \notin {Empty, Garbage},
           k \in BarNonPositive => ~ NotPositive(p)
    PROVE  Sound(k, Price(p, fetched, observed), t)
BY DEF Sound, Price, Time

LEMMA ParsedSound ==
    ASSUME NEW k, NEW t, NEW text, NEW price,
           text \notin {Empty, Garbage} => Sound(k, price, t)
    PROVE  Sound(k, Parsed(text, price), t)
BY RefusalSound DEF Parsed

LEMMA AnsweredSound ==
    ASSUME NEW k, NEW t, NEW reply, NEW refusal, NEW price,
           reply.body # Garbled => Sound(k, price, t)
    PROVE  Sound(k, Answered(reply, refusal, price), t)
BY RefusalSound DEF Answered

\* A text that is neither empty nor garbage and not barred is a price.
LEMMA TextPrices ==
    ASSUME NEW text \in Text, text \notin {Empty, Garbage}
    PROVE  /\ text \in Int \/ text = NaN
           /\ NaN \notin Int /\ NaN \notin {Empty, Garbage}
           /\ ~ NotPositive(text) => text # 0
BY RepliesAssumption DEF RepliesAssumption, Text, NotPositive

LEMMA NumberPrices ==
    ASSUME NEW p \in Int
    PROVE  /\ p \notin {Empty, Garbage} /\ p # NaN
           /\ NotPositive(p) <=> p <= 0
BY RepliesAssumption DEF RepliesAssumption, NotPositive

\* The first of the indices that are looked for.
LEMMA FirstFound ==
    ASSUME NEW S, NEW s \in Seq(S), NEW I \in SUBSET (DOMAIN s), I # {}
    PROVE  Min(I) \in I /\ s[Min(I)] \in S
<1>1. DOMAIN s = 1..Len(s) /\ Len(s) \in Nat
  BY LenProperties
<1>2. IsFiniteSet(I) /\ I \in SUBSET Int
  <2>1. 1 \in Int /\ Len(s) \in Int
    BY <1>1
  <2>2. IsFiniteSet(1..Len(s))
    BY <2>1, FS_Interval
  <2>. QED  BY <1>1, <2>2, FS_Subset
<1>3. PICK m \in I : \A x \in I : m <= x
  BY <1>2, LeastExists
<1>4. Min(I) \in I
  BY <1>3 DEF Min
<1>. QED  BY <1>1, <1>4, ElementOfSeq

LEMMA coingeckoSound ==
    ASSUME NEW reply, reply.body # Garbled => reply.body \in Bodies["coingecko"],
           NEW t \in Nat, NEW sent \in 0..t
    PROVE  Sound("coingecko", coingecko(reply, sent), t)
<1>. DEFINE body == reply.body
            price == IF ~ body.listed \/ body.usd = 0 THEN NoData
                     ELSE Price(body.usd, sent, body.updated)
<1>1. ASSUME body # Garbled  PROVE Sound("coingecko", price, t)
  <2>1. body.usd \in Int /\ body.updated \in Time
    BY <1>1 DEF Bodies
  <2>2. CASE ~ body.listed \/ body.usd = 0
    BY <2>2, RefusalSound
  <2>3. CASE ~ (~ body.listed \/ body.usd = 0)
    <3>1. body.usd \notin {Empty, Garbage} /\ body.usd # 0 /\ "coingecko" \notin BarNonPositive
      BY <2>1, <2>3, NumberPrices DEF BarNonPositive
    <3>2. Sound("coingecko", Price(body.usd, sent, body.updated), t)
      BY <2>1, <3>1, PriceSound
    <3>. QED  BY <2>3, <3>2
  <2>. QED  BY <2>2, <2>3
<1>. HIDE DEF price
<1>2. Sound("coingecko", Answered(reply, None, price), t)
  BY <1>1, AnsweredSound
<1>. QED  BY <1>2 DEF coingecko, price

LEMMA fredSound ==
    ASSUME NEW reply, reply.body # Garbled => reply.body \in Bodies["fred"],
           NEW t \in Nat, NEW sent \in 0..t
    PROVE  Sound("fred", fred(reply, sent), t)
<1>. DEFINE Skipped(row) == row.value = Empty \/ (row.value # Garbage /\ NotPositive(row.value))
            rest == {i \in DOMAIN reply.body : ~ Skipped(reply.body[i])}
            row == reply.body[Min(rest)]
            price == IF rest = {} THEN NoData ELSE Parsed(row.value, Price(row.value, sent, row.date))
<1>1. ASSUME reply.body # Garbled, rest # {}
      PROVE  Sound("fred", Parsed(row.value, Price(row.value, sent, row.date)), t)
  <2>1. reply.body \in Seq([value : Text, date : Time])
    BY <1>1 DEF Bodies
  <2>2. Min(rest) \in rest /\ row \in [value : Text, date : Time]
    <3>1. rest \in SUBSET DOMAIN reply.body
      OBVIOUS
    <3>. HIDE DEF rest
    <3>. QED  BY <1>1, <2>1, <3>1, FirstFound
  <2>3. ~ Skipped(row) /\ row.value \in Text /\ row.date \in Time
    BY <2>2
  <2>. HIDE DEF rest, row
  <2>4. ASSUME row.value \notin {Empty, Garbage}
        PROVE  Sound("fred", Price(row.value, sent, row.date), t)
    <3>1. ~ NotPositive(row.value) /\ row.value # 0
      BY <2>3, <2>4, TextPrices
    <3>. QED  BY <2>3, <2>4, <3>1, PriceSound
  <2>. QED  BY <2>4, ParsedSound
<1>2. ASSUME reply.body # Garbled  PROVE Sound("fred", price, t)
  <2>1. CASE rest = {}
    BY <2>1, RefusalSound
  <2>2. CASE rest # {}
    BY <1>1, <1>2, <2>2
  <2>. QED  BY <2>1, <2>2
<1>. HIDE DEF price
<1>3. Sound("fred", Answered(reply, None, price), t)
  BY <1>2, AnsweredSound
<1>. QED  BY <1>3 DEF fred, price, rest, row, Skipped

LEMMA swissquoteSound ==
    ASSUME NEW reply, reply.body # Garbled => reply.body \in Bodies["swissquote"],
           NEW t \in Nat, NEW sent \in 0..t
    PROVE  Sound("swissquote", swissquote(reply, sent), t)
<1>. DEFINE usable == {i \in DOMAIN reply.body : reply.body[i].bid > 0 /\ reply.body[i].ask > 0}
            quote == reply.body[Min(usable)]
            mid == (quote.bid + quote.ask) \div 2
            price == IF usable = {} THEN NoData ELSE Price(mid, sent, NoTime)
<1>1. ASSUME reply.body # Garbled, usable # {}
      PROVE  Sound("swissquote", Price(mid, sent, NoTime), t)
  <2>1. reply.body \in Seq([bid : Int, ask : Int])
    BY <1>1 DEF Bodies
  <2>2. Min(usable) \in usable /\ quote \in [bid : Int, ask : Int]
    <3>1. usable \in SUBSET DOMAIN reply.body
      OBVIOUS
    <3>. HIDE DEF usable
    <3>. QED  BY <1>1, <2>1, <3>1, FirstFound
  <2>3. quote.bid \in Int /\ quote.ask \in Int /\ quote.bid > 0 /\ quote.ask > 0
    BY <2>2
  <2>. HIDE DEF usable, quote
  <2>4. mid \in Int /\ mid > 0
    BY <2>3
  <2>. HIDE DEF mid
  <2>5. mid \notin {Empty, Garbage} /\ ~ NotPositive(mid) /\ mid # 0
    BY <2>4, NumberPrices
  <2>. QED  BY <2>5, PriceSound DEF Time
<1>2. ASSUME reply.body # Garbled  PROVE Sound("swissquote", price, t)
  <2>1. CASE usable = {}
    BY <2>1, RefusalSound
  <2>2. CASE usable # {}
    BY <1>1, <1>2, <2>2
  <2>. QED  BY <2>1, <2>2
<1>. HIDE DEF price
<1>3. Sound("swissquote", Answered(reply, None, price), t)
  BY <1>2, AnsweredSound
<1>. QED  BY <1>3 DEF swissquote, price, usable, quote, mid

LEMMA binanceSound ==
    ASSUME NEW reply, reply.body # Garbled => reply.body \in Bodies["binance"],
           NEW t \in Nat, NEW sent \in 0..t
    PROVE  Sound("binance", binance(reply, sent), t)
<1>. DEFINE p == reply.body.price
            price == IF p = 0 THEN NoData ELSE Price(p, sent, NoTime)
<1>1. ASSUME reply.body # Garbled, p \notin {Empty, Garbage}
      PROVE  Sound("binance", price, t)
  <2>1. CASE p = 0
    BY <2>1, RefusalSound
  <2>2. CASE p # 0
    <3>1. "binance" \notin BarNonPositive /\ NoTime \in Time
      BY DEF BarNonPositive, Time
    <3>. HIDE DEF p
    <3>2. Sound("binance", Price(p, sent, NoTime), t)
      BY <1>1, <2>2, <3>1, PriceSound
    <3>. QED  BY <2>2, <3>2
  <2>. QED  BY <2>1, <2>2
<1>. HIDE DEF price
<1>2. reply.body # Garbled => Sound("binance", Parsed(p, price), t)
  BY <1>1, ParsedSound
<1>3. Sound("binance", Answered(reply, 400, Parsed(p, price)), t)
  BY <1>2, AnsweredSound
<1>. QED  BY <1>3 DEF binance, price, p

\* A text that the adapter bars unless it is positive.
LEMMA BarredTextSound ==
    ASSUME NEW k \in BarNonPositive, NEW t \in Nat, NEW sent \in 0..t, NEW text \in Text,
           NEW observed \in Time
    PROVE  Sound(k, Parsed(text, IF NotPositive(text) THEN NoData
                                 ELSE Price(text, sent, observed)), t)
<1>. DEFINE price == IF NotPositive(text) THEN NoData ELSE Price(text, sent, observed)
<1>1. ASSUME text \notin {Empty, Garbage}  PROVE Sound(k, price, t)
  <2>1. CASE NotPositive(text)
    BY <2>1, RefusalSound
  <2>2. CASE ~ NotPositive(text)
    <3>1. text # 0
      BY <1>1, <2>2, TextPrices
    <3>2. Sound(k, Price(text, sent, observed), t)
      BY <1>1, <2>2, <3>1, PriceSound
    <3>. QED  BY <2>2, <3>2
  <2>. QED  BY <2>1, <2>2
<1>. HIDE DEF price
<1>2. Sound(k, Parsed(text, price), t)
  BY <1>1, ParsedSound
<1>. QED  BY <1>2 DEF price

LEMMA uniswap_v3Sound ==
    ASSUME NEW reply, reply.body # Garbled => reply.body \in Bodies["uniswap_v3"],
           NEW t \in Nat, NEW sent \in 0..t
    PROVE  Sound("uniswap_v3", uniswap_v3(reply, sent), t)
<1>. DEFINE pool == reply.body.pool
            text == IF pool.stable0 THEN pool.token0Price ELSE pool.token1Price
            parsed == IF text \in {Empty, Garbage} THEN Upstream
                      ELSE IF NotPositive(text) THEN NoData ELSE Price(text, sent, NoTime)
            price == IF reply.body.errors THEN Upstream
                     ELSE IF ~ reply.body.found \/ pool.stable0 = pool.stable1 THEN NoData
                     ELSE parsed
<1>1. ASSUME reply.body # Garbled  PROVE Sound("uniswap_v3", price, t)
  <2>1. text \in Text
    BY <1>1 DEF Bodies
  <2>2. "uniswap_v3" \in BarNonPositive /\ NoTime \in Time
    BY DEF BarNonPositive, Time
  <2>. HIDE DEF text
  <2>3. Sound("uniswap_v3", parsed, t)
    <3>1. CASE text \in {Empty, Garbage} \/ NotPositive(text)
      BY <3>1, RefusalSound
    <3>2. CASE text \notin {Empty, Garbage} /\ ~ NotPositive(text)
      <4>1. text # 0
        BY <2>1, <3>2, TextPrices
      <4>2. Sound("uniswap_v3", Price(text, sent, NoTime), t)
        BY <2>1, <2>2, <3>2, <4>1, PriceSound
      <4>. QED  BY <3>2, <4>2
    <3>. QED  BY <3>1, <3>2
  <2>. HIDE DEF parsed, pool
  <2>. QED  BY <2>3, RefusalSound
<1>. HIDE DEF price
<1>2. Sound("uniswap_v3", Answered(reply, None, price), t)
  BY <1>1, AnsweredSound
<1>. QED  BY <1>2 DEF uniswap_v3, price, parsed, text, pool

LEMMA alpha_vantageSound ==
    ASSUME NEW reply, reply.body # Garbled => reply.body \in Bodies["alpha_vantage"],
           NEW t \in Nat
    PROVE  Sound("alpha_vantage", alpha_vantage(reply, t), t)
<1>. DEFINE rate == reply.body.rate
            parsed == Parsed(rate, Price(rate, t, reply.body.refreshed))
            price == IF reply.body.note THEN Upstream
                     ELSE IF reply.body.errorMessage THEN NoData
                     ELSE parsed
<1>1. ASSUME reply.body # Garbled  PROVE Sound("alpha_vantage", price, t)
  <2>1. reply.body.refreshed \in Time /\ t \in 0..t
    BY <1>1 DEF Bodies
  <2>2. "alpha_vantage" \notin BarNonPositive
    BY DEF BarNonPositive
  <2>. HIDE DEF rate
  <2>3. rate \notin {Empty, Garbage} =>
           Sound("alpha_vantage", Price(rate, t, reply.body.refreshed), t)
    BY <2>1, <2>2, PriceSound
  <2>4. Sound("alpha_vantage", parsed, t)
    BY <2>3, ParsedSound
  <2>. HIDE DEF parsed
  <2>. QED  BY <2>4, RefusalSound
<1>. HIDE DEF price
<1>2. Sound("alpha_vantage", Answered(reply, None, price), t)
  BY <1>1, AnsweredSound
<1>. QED  BY <1>2 DEF alpha_vantage, price, parsed, rate

LEMMA twelve_dataSound ==
    ASSUME NEW reply, reply.body # Garbled => reply.body \in Bodies["twelve_data"],
           NEW t \in Nat, NEW sent \in 0..t
    PROVE  Sound("twelve_data", twelve_data(reply, sent), t)
<1>. DEFINE p == reply.body.price
            read == IF p = 0 THEN NoData ELSE Price(p, sent, NoTime)
            price == IF reply.body.errorStatus
                     THEN IF reply.body.code \in 400..499 THEN NoData ELSE Upstream
                     ELSE Parsed(p, read)
<1>1. ASSUME p \notin {Empty, Garbage}
      PROVE  Sound("twelve_data", read, t)
  <2>1. CASE p = 0
    BY <2>1, RefusalSound
  <2>2. CASE p # 0
    <3>1. "twelve_data" \notin BarNonPositive /\ NoTime \in Time
      BY DEF BarNonPositive, Time
    <3>. HIDE DEF p
    <3>2. Sound("twelve_data", Price(p, sent, NoTime), t)
      BY <1>1, <2>2, <3>1, PriceSound
    <3>. QED  BY <2>2, <3>2
  <2>. QED  BY <2>1, <2>2
<1>. HIDE DEF read
<1>2. Sound("twelve_data", Parsed(p, read), t)
  BY <1>1, ParsedSound
<1>. HIDE DEF p
<1>3. Sound("twelve_data", price, t)
  BY <1>2, RefusalSound
<1>. HIDE DEF price
<1>4. Sound("twelve_data", Answered(reply, None, price), t)
  BY <1>3, AnsweredSound
<1>. QED  BY <1>4 DEF twelve_data, price, read, p

LEMMA stooqSound ==
    ASSUME NEW reply, reply.body # Garbled => reply.body \in Bodies["stooq"],
           NEW t \in Nat, NEW sent \in 0..t
    PROVE  Sound("stooq", stooq(reply, sent), t)
<1>. DEFINE close == reply.body.close
            parsed == Parsed(close, IF NotPositive(close) THEN NoData
                                    ELSE Price(close, sent, reply.body.stamp))
            price == IF ~ reply.body.rows THEN NoData ELSE parsed
<1>1. ASSUME reply.body # Garbled  PROVE Sound("stooq", price, t)
  <2>1. close \in Text /\ reply.body.stamp \in Time
    BY <1>1 DEF Bodies
  <2>2. "stooq" \in BarNonPositive
    BY DEF BarNonPositive
  <2>. HIDE DEF close
  <2>3. Sound("stooq", parsed, t)
    BY <2>1, <2>2, BarredTextSound
  <2>. HIDE DEF parsed
  <2>. QED  BY <2>3, RefusalSound
<1>. HIDE DEF price
<1>2. Sound("stooq", Answered(reply, None, price), t)
  BY <1>1, AnsweredSound
<1>. QED  BY <1>2 DEF stooq, price, parsed, close

LEMMA eiaSound ==
    ASSUME NEW reply, reply.body # Garbled => reply.body \in Bodies["eia"],
           NEW t \in Nat, NEW sent \in 0..t
    PROVE  Sound("eia", eia(reply, sent), t)
<1>. DEFINE row == Head(reply.body)
            parsed == Parsed(row.value, IF NotPositive(row.value) THEN NoData
                                        ELSE Price(row.value, sent, row.period))
            price == IF reply.body = << >> THEN NoData ELSE parsed
<1>1. ASSUME reply.body # Garbled, reply.body # << >>  PROVE Sound("eia", parsed, t)
  <2>1. reply.body \in Seq([value : Text, period : Time])
    BY <1>1 DEF Bodies
  <2>2. row \in [value : Text, period : Time]
    BY <1>1, <2>1, HeadTailProperties
  <2>3. row.value \in Text /\ row.period \in Time /\ "eia" \in BarNonPositive
    BY <2>2 DEF BarNonPositive
  <2>. HIDE DEF row
  <2>. QED  BY <2>3, BarredTextSound
<1>. HIDE DEF parsed
<1>2. reply.body # Garbled => Sound("eia", price, t)
  BY <1>1, RefusalSound
<1>. HIDE DEF price
<1>3. Sound("eia", Answered(reply, None, price), t)
  BY <1>2, AnsweredSound
<1>. QED  BY <1>3 DEF eia, price, parsed, row

\* A number that the adapter bars unless it is positive.
LEMMA BarredNumberSound ==
    ASSUME NEW k \in BarNonPositive, NEW t \in Nat, NEW sent \in 0..t, NEW p \in Int,
           NEW observed \in Time, ~ (p <= 0)
    PROVE  Sound(k, Price(p, sent, observed), t)
<1>1. p \notin {Empty, Garbage} /\ ~ NotPositive(p) /\ p # 0
  BY NumberPrices
<1>. QED  BY <1>1, PriceSound

LEMMA yahooSound ==
    ASSUME NEW reply, reply.body # Garbled => reply.body \in Bodies["yahoo"],
           NEW t \in Nat, NEW sent \in 0..t
    PROVE  Sound("yahoo", yahoo(reply, sent), t)
<1>. DEFINE body == reply.body
            price == IF body.error \/ ~ body.result \/ body.price <= 0 THEN NoData
                     ELSE Price(body.price, sent, body.marketTime)
<1>1. ASSUME body # Garbled  PROVE Sound("yahoo", price, t)
  <2>1. body.price \in Int /\ body.marketTime \in Time /\ "yahoo" \in BarNonPositive
    BY <1>1 DEF Bodies, BarNonPositive
  <2>2. ~ (body.price <= 0) => Sound("yahoo", Price(body.price, sent, body.marketTime), t)
    BY <2>1, BarredNumberSound
  <2>. QED  BY <2>2, RefusalSound
<1>. HIDE DEF price
<1>2. Sound("yahoo", Answered(reply, 404, price), t)
  BY <1>1, AnsweredSound
<1>. QED  BY <1>2 DEF yahoo, price

LEMMA gold_apiSound ==
    ASSUME NEW reply, reply.body # Garbled => reply.body \in Bodies["gold_api"],
           NEW t \in Nat, NEW sent \in 0..t
    PROVE  Sound("gold_api", gold_api(reply, sent), t)
<1>. DEFINE body == reply.body
            price == IF body.price <= 0 THEN NoData ELSE Price(body.price, sent, body.updatedAt)
<1>1. ASSUME body # Garbled  PROVE Sound("gold_api", price, t)
  <2>1. body.price \in Int /\ body.updatedAt \in Time /\ "gold_api" \in BarNonPositive
    BY <1>1 DEF Bodies, BarNonPositive
  <2>2. ~ (body.price <= 0) => Sound("gold_api", Price(body.price, sent, body.updatedAt), t)
    BY <2>1, BarredNumberSound
  <2>. QED  BY <2>2, RefusalSound
<1>. HIDE DEF price
<1>2. Sound("gold_api", Answered(reply, 404, price), t)
  BY <1>1, AnsweredSound
<1>. QED  BY <1>2 DEF gold_api, price

LEMMA OutcomeSound ==
    ASSUME NEW k \in Kinds, NEW reply \in Replies[k], NEW t \in Nat, NEW sent \in 0..t
    PROVE  Sound(k, Outcome(k, reply, sent, t), t)
<1>1. reply.body # Garbled => reply.body \in Bodies[k]
  BY RepliesAssumption DEF RepliesAssumption
<1>2. k \in {"coingecko", "binance", "uniswap_v3", "alpha_vantage", "twelve_data", "stooq", "eia",
             "fred", "yahoo", "swissquote", "gold_api"}
  BY RepliesAssumption DEF RepliesAssumption, Bodies
<1>3. CASE k = "coingecko"
  BY <1>1, <1>3, coingeckoSound DEF Outcome
<1>4. CASE k = "binance"
  BY <1>1, <1>4, binanceSound DEF Outcome
<1>5. CASE k = "uniswap_v3"
  BY <1>1, <1>5, uniswap_v3Sound DEF Outcome
<1>6. CASE k = "alpha_vantage"
  BY <1>1, <1>6, alpha_vantageSound DEF Outcome
<1>7. CASE k = "twelve_data"
  BY <1>1, <1>7, twelve_dataSound DEF Outcome
<1>8. CASE k = "stooq"
  BY <1>1, <1>8, stooqSound DEF Outcome
<1>9. CASE k = "eia"
  BY <1>1, <1>9, eiaSound DEF Outcome
<1>10. CASE k = "fred"
  BY <1>1, <1>10, fredSound DEF Outcome
<1>11. CASE k = "yahoo"
  BY <1>1, <1>11, yahooSound DEF Outcome
<1>12. CASE k = "swissquote"
  BY <1>1, <1>12, swissquoteSound DEF Outcome
<1>13. CASE k = "gold_api"
  BY <1>1, <1>13, gold_apiSound DEF Outcome
<1>. QED
  BY <1>2, <1>3, <1>4, <1>5, <1>6, <1>7, <1>8, <1>9, <1>10, <1>11, <1>12, <1>13

-----------------------------------------------------------------------------
(* The invariant.                                                          *)

Ordered ==
    /\ fetch = [f \in Fetchers |-> fetch[f]]
    /\ \A k, l \in DOMAIN sends : k <= l => sends[k] <= sends[l]

\* Who has a token that is not used.
Waiting == {f \in Fetchers : fetch[f].at = "token"}

Apart(x, y) == x + Interval <= y \/ y + Interval <= x

\* How far behind a token may be: the burst.
Credit == (Burst - 1) * Interval

\* slot[k] is the place of the token that the k-th request has used, held[f]
\* that of the token f waits for.
Tokens(slot, held) ==
    /\ slot \in [DOMAIN sends -> Int] /\ held \in [Fetchers -> Int]
    /\ \A k, l \in DOMAIN sends : k # l => Apart(slot[k], slot[l])
    /\ \A f, g \in Waiting : f # g => Apart(held[f], held[g])
    /\ \A k \in DOMAIN sends, f \in Waiting : Apart(slot[k], held[f])
    /\ \A k \in DOMAIN sends :
          slot[k] <= spent /\ slot[k] <= sends[k] /\ sends[k] <= slot[k] + Credit
    /\ \A f \in Waiting :
          /\ held[f] <= spent /\ held[f] <= fetch[f].due /\ fetch[f].due <= held[f] + Credit
          /\ now <= fetch[f].due /\ (now < fetch[f].due => held[f] = fetch[f].due)

Spaced == \E slot, held : Tokens(slot, held)

Inv == TypeOK /\ Ordered /\ UsableAnswers /\ Spaced

LEMMA CreditTyped == Interval \in Nat \ {0} /\ Burst \in Nat \ {0} /\ Credit \in Nat
                     /\ Burst * Interval \in Nat /\ Burst * Interval = Credit + Interval
                     /\ TickTime \in Nat \ {0}
<1>1. Interval \in Nat \ {0} /\ Burst \in Nat \ {0} /\ TickTime \in Nat \ {0}
  BY SourcesAssumption DEF SourcesAssumption
<1>2. Burst - 1 \in Nat
  BY <1>1
<1>3. \A m, n \in Nat : m * n \in Nat /\ (m + 1) * n = m * n + n
  OBVIOUS
<1>4. Credit \in Nat /\ (Burst - 1 + 1) * Interval = Credit + Interval
  BY <1>1, <1>2, <1>3 DEF Credit
<1>5. Burst - 1 + 1 = Burst
  BY <1>1
<1>. QED  BY <1>1, <1>3, <1>4, <1>5

LEMMA ReservedTyped ==
    ASSUME TypeOK
    PROVE  /\ Reserved \in Int /\ spent + Interval <= Reserved
           /\ now <= Reserved + Credit
           /\ spent \in Int /\ now \in Nat
<1>1. spent \in Int /\ now \in Nat
  BY DEF TypeOK
<1>. QED  BY <1>1, CreditTyped DEF Reserved, Later

\* The token of a fetch, and what is known of it.
LEMMA Holder ==
    ASSUME TypeOK, NEW f \in Waiting
    PROVE  f \in Fetchers /\ fetch[f].due \in Nat /\ fetch[f].deadline \in Nat
BY DEF TypeOK, Waiting, Idle

\* A step that adds no token, sends nothing and leaves the limiter alone.
LEMMA TokensStay ==
    ASSUME Spaced, UNCHANGED <<now, spent, sends>>, Waiting' \subseteq Waiting,
           \A f \in Waiting' : fetch'[f] = fetch[f]
    PROVE  Spaced'
<1>1. PICK slot, held : Tokens(slot, held)
  BY DEF Spaced
<1>2. Tokens(slot, held)'
  BY <1>1 DEF Tokens, Apart
<1>. QED  BY <1>2 DEF Spaced

LEMMA FetchSpaced ==
    ASSUME Inv, NEW f \in Fetchers, Fetch(f)
    PROVE  Spaced'
<1>1. PICK slot, held : Tokens(slot, held)
  BY DEF Inv, Spaced
<1>2. PICK kept : kept = [held EXCEPT ![f] = Reserved]
  OBVIOUS
<1>3. /\ spent' = Reserved /\ UNCHANGED <<now, sends>>
      /\ fetch'[f].at = "token" /\ fetch'[f].due = Later(now, Reserved)
      /\ \A g \in Fetchers \ {f} : fetch'[g] = fetch[g]
      /\ f \notin Waiting
  BY DEF Fetch, Inv, Ordered, Waiting, Idle
<1>4. /\ Reserved \in Int /\ spent + Interval <= Reserved /\ now <= Reserved + Credit
      /\ spent \in Int /\ now \in Nat
  BY ReservedTyped DEF Inv
<1>5. Waiting' = Waiting \cup {f}
  BY <1>3 DEF Waiting
<1>6. /\ kept \in [Fetchers -> Int] /\ kept[f] = Reserved
      /\ \A g \in Waiting : g # f /\ kept[g] = held[g] /\ held[g] \in Int /\ held[g] <= spent
                            /\ fetch'[g] = fetch[g]
      /\ \A k \in DOMAIN sends : slot[k] \in Int /\ slot[k] <= spent
  BY <1>1, <1>3, <1>4, <1>2 DEF Tokens, Waiting
<1>7. /\ \A g \in Waiting : Apart(kept[g], kept[f]) /\ Apart(kept[f], kept[g])
      /\ \A k \in DOMAIN sends : Apart(slot[k], kept[f])
      /\ \A g \in Waiting : kept[g] <= spent'
      /\ \A k \in DOMAIN sends : slot[k] <= spent'
  BY <1>3, <1>4, <1>6, CreditTyped DEF Apart
<1>8. /\ kept[f] <= spent' /\ kept[f] <= fetch'[f].due /\ fetch'[f].due <= kept[f] + Credit
      /\ now <= fetch'[f].due /\ (now < fetch'[f].due => kept[f] = fetch'[f].due)
  BY <1>3, <1>4, <1>6, CreditTyped DEF Later
<1>9. Tokens(slot, kept)'
  <2>1. /\ slot \in [DOMAIN sends' -> Int] /\ kept \in [Fetchers -> Int]
        /\ \A k, l \in DOMAIN sends' : k # l => Apart(slot[k], slot[l])
        /\ \A k \in DOMAIN sends' :
              slot[k] <= spent' /\ slot[k] <= sends'[k] /\ sends'[k] <= slot[k] + Credit
    BY <1>1, <1>3, <1>6, <1>7 DEF Tokens
  <2>2. \A g, h \in Waiting' : g # h => Apart(kept[g], kept[h])
    BY <1>1, <1>5, <1>6, <1>7 DEF Tokens
  <2>3. \A k \in DOMAIN sends', g \in Waiting' : Apart(slot[k], kept[g])
    BY <1>1, <1>3, <1>5, <1>6, <1>7 DEF Tokens
  <2>4. \A g \in Waiting' :
           /\ kept[g] <= spent' /\ kept[g] <= fetch'[g].due /\ fetch'[g].due <= kept[g] + Credit
           /\ now' <= fetch'[g].due /\ (now' < fetch'[g].due => kept[g] = fetch'[g].due)
    BY <1>1, <1>3, <1>5, <1>6, <1>7, <1>8 DEF Tokens
  <2>. QED  BY <2>1, <2>2, <2>3, <2>4 DEF Tokens
<1>. QED  BY <1>9 DEF Spaced

LEMMA SendSpaced ==
    ASSUME Inv, NEW f \in Fetchers, Send(f)
    PROVE  Spaced' /\ Ordered'
<1>1. PICK slot, held : Tokens(slot, held)
  BY DEF Inv, Spaced
<1>. DEFINE n == Len(sends)
<1>2. PICK used : used = [k \in DOMAIN sends' |-> IF k = n + 1 THEN held[f] ELSE slot[k]]
  OBVIOUS
<1>3. /\ sends \in Seq(0..now) /\ now \in Nat /\ n \in Nat
      /\ DOMAIN sends = 1..n /\ \A k \in 1..n : sends[k] \in 0..now
  BY LenProperties, ElementOfSeq DEF Inv, TypeOK
<1>4. /\ f \in Waiting /\ fetch[f].due <= now /\ sends' = Append(sends, now)
      /\ UNCHANGED <<now, spent>>
      /\ fetch'[f].at = "http" /\ \A g \in Fetchers \ {f} : fetch'[g] = fetch[g]
      /\ fetch' = [g \in Fetchers |-> fetch'[g]]
  BY DEF Send, Inv, Ordered, Waiting
<1>5. /\ sends' \in Seq(0..now) /\ Len(sends') = n + 1
      /\ sends'[n + 1] = now /\ \A k \in 1..n : sends'[k] = sends[k]
  BY <1>3, <1>4, AppendProperties
<1>6. DOMAIN sends' = 1..(n + 1)
  BY <1>5, LenProperties
<1>7. Waiting' = Waiting \ {f}
  BY <1>4 DEF Waiting
<1>. HIDE DEF n
<1>8. \A k \in DOMAIN sends' : k \in 1..n \/ k = n + 1
  BY <1>3, <1>6
<1>9. held[f] \in Int /\ fetch[f].due \in Nat
  BY <1>1, <1>4, Holder DEF Tokens, Inv
<1>10. /\ used \in [DOMAIN sends' -> Int] /\ used[n + 1] = held[f]
      /\ \A k \in 1..n : k # n + 1 /\ k \in DOMAIN sends' /\ used[k] = slot[k] /\ slot[k] \in Int
  BY <1>1, <1>3, <1>6, <1>8, <1>9, <1>2 DEF Tokens
<1>11. /\ \A k \in 1..n : Apart(slot[k], held[f]) /\ Apart(held[f], slot[k])
       /\ held[f] <= spent /\ held[f] <= now /\ now <= held[f] + Credit
  <2>1. \A k \in 1..n : Apart(slot[k], held[f])
    BY <1>1, <1>3, <1>4 DEF Tokens
  <2>2. \A k \in 1..n : Apart(held[f], slot[k])
    BY <2>1 DEF Apart
  <2>3. /\ held[f] <= spent /\ held[f] <= fetch[f].due /\ fetch[f].due <= held[f] + Credit
        /\ now <= fetch[f].due
    BY <1>1, <1>4 DEF Tokens
  <2>4. fetch[f].due = now
    BY <1>3, <1>4, <1>9, <2>3
  <2>. QED  BY <2>1, <2>2, <2>3, <2>4
<1>12. Tokens(used, held)'
  <2>1. used \in [DOMAIN sends' -> Int] /\ held \in [Fetchers -> Int]
    BY <1>1, <1>10 DEF Tokens
  <2>2. \A k, l \in DOMAIN sends' : k # l => Apart(used[k], used[l])
    BY <1>1, <1>3, <1>8, <1>10, <1>11 DEF Tokens
  <2>3. \A g, h \in Waiting' : g # h => Apart(held[g], held[h])
    BY <1>1, <1>7 DEF Tokens
  <2>4. \A k \in DOMAIN sends', g \in Waiting' : Apart(used[k], held[g])
    <3>. SUFFICES ASSUME NEW k \in DOMAIN sends', NEW g \in Waiting'
                  PROVE  Apart(used[k], held[g])
      OBVIOUS
    <3>1. g \in Waiting /\ g # f
      BY <1>7
    <3>2. CASE k \in 1..n
      BY <1>1, <1>3, <1>10, <3>1, <3>2 DEF Tokens
    <3>3. CASE k = n + 1
      BY <1>1, <1>4, <1>10, <3>1, <3>3 DEF Tokens
    <3>. QED  BY <1>8, <3>2, <3>3
  <2>5. \A k \in DOMAIN sends' :
           used[k] <= spent' /\ used[k] <= sends'[k] /\ sends'[k] <= used[k] + Credit
    BY <1>1, <1>3, <1>4, <1>5, <1>8, <1>10, <1>11 DEF Tokens
  <2>6. \A g \in Waiting' :
           /\ held[g] <= spent' /\ held[g] <= fetch'[g].due /\ fetch'[g].due <= held[g] + Credit
           /\ now' <= fetch'[g].due /\ (now' < fetch'[g].due => held[g] = fetch'[g].due)
    <3>. SUFFICES ASSUME NEW g \in Waiting'
                  PROVE  /\ held[g] <= spent' /\ held[g] <= fetch'[g].due
                         /\ fetch'[g].due <= held[g] + Credit /\ now' <= fetch'[g].due
                         /\ now' < fetch'[g].due => held[g] = fetch'[g].due
      OBVIOUS
    <3>1. g \in Waiting /\ fetch'[g] = fetch[g] /\ spent' = spent /\ now' = now
      BY <1>4, <1>7 DEF Waiting
    <3>. QED  BY <1>1, <3>1 DEF Tokens
  <2>. QED  BY <2>1, <2>2, <2>3, <2>4, <2>5, <2>6 DEF Tokens
<1>13. Ordered'
  <2>1. \A k, l \in DOMAIN sends' : k <= l => sends'[k] <= sends'[l]
    <3>. SUFFICES ASSUME NEW k \in DOMAIN sends', NEW l \in DOMAIN sends', k <= l
                  PROVE  sends'[k] <= sends'[l]
      OBVIOUS
    <3>1. CASE l = n + 1
      BY <1>3, <1>5, <1>8, <3>1
    <3>2. CASE l \in 1..n
      <4>1. k \in 1..n
        BY <1>3, <1>6, <3>2
      <4>. QED  BY <1>3, <1>5, <3>2, <4>1 DEF Inv, Ordered
    <3>. QED  BY <1>8, <3>1, <3>2
  <2>. QED  BY <1>4, <2>1 DEF Ordered
<1>. QED  BY <1>12, <1>13 DEF Spaced

LEMMA CancelledSpaced ==
    ASSUME Inv, NEW f \in Fetchers, Cancelled(f)
    PROVE  Spaced'
<1>1. /\ f \in Waiting /\ UNCHANGED <<now, sends>>
      /\ fetch'[f] = Idle /\ \A g \in Fetchers \ {f} : fetch'[g] = fetch[g]
  BY DEF Cancelled, Returns, Inv, Ordered, Waiting
<1>2. Waiting' = Waiting \ {f}
  BY <1>1 DEF Waiting, Idle
<1>3. CASE spent' = spent
  BY <1>1, <1>2, <1>3, TokensStay DEF Inv, Waiting
<1>4. CASE fetch[f].due > now /\ fetch[f].due = spent /\ spent' = spent - Interval
  <2>1. PICK slot, held : Tokens(slot, held)
    BY DEF Inv, Spaced
  <2>2. fetch[f].due \in Nat /\ now \in Nat
    BY <1>1, Holder DEF Inv, TypeOK
  <2>3. held[f] = spent /\ spent \in Int
    BY <1>1, <1>4, <2>1, <2>2 DEF Tokens
  <2>4. \A k \in DOMAIN sends : slot[k] <= spent'
    <3>. SUFFICES ASSUME NEW k \in DOMAIN sends  PROVE slot[k] <= spent'
      OBVIOUS
    <3>1. slot[k] \in Int /\ slot[k] <= spent /\ Apart(slot[k], held[f])
      BY <1>1, <2>1 DEF Tokens
    <3>. QED  BY <1>4, <2>3, <3>1, CreditTyped DEF Apart
  <2>5. \A g \in Waiting' : held[g] <= spent' /\ g \in Waiting /\ fetch'[g] = fetch[g]
    <3>. SUFFICES ASSUME NEW g \in Waiting'
                  PROVE  held[g] <= spent' /\ g \in Waiting /\ fetch'[g] = fetch[g]
      OBVIOUS
    <3>1. g \in Waiting /\ g # f /\ g \in Fetchers
      BY <1>2 DEF Waiting
    <3>2. held[g] \in Int /\ held[g] <= spent /\ Apart(held[g], held[f])
      BY <1>1, <2>1, <3>1 DEF Tokens
    <3>. QED  BY <1>1, <1>4, <2>3, <3>1, <3>2, CreditTyped DEF Apart
  <2>6. Tokens(slot, held)'
    BY <1>1, <2>1, <2>4, <2>5 DEF Tokens, Apart
  <2>. QED  BY <2>6 DEF Spaced
<1>. QED  BY <1>3, <1>4 DEF Cancelled

LEMMA AdvanceSpaced ==
    ASSUME Inv, Advance
    PROVE  Spaced'
<1>1. PICK slot, held : Tokens(slot, held)
  BY DEF Inv, Spaced
<1>2. /\ now' = now + 1 /\ UNCHANGED <<spent, fetch, sends>> /\ now \in Nat
      /\ Waiting' = Waiting
      /\ \A f \in Waiting : fetch[f].due > now /\ fetch[f].due \in Nat
  BY Holder DEF Advance, Inv, TypeOK, Waiting
<1>3. \A f \in Waiting : held[f] = fetch[f].due /\ now' <= fetch[f].due
  BY <1>1, <1>2 DEF Tokens
<1>4. Tokens(slot, held)'
  BY <1>1, <1>2, <1>3 DEF Tokens, Apart
<1>. QED  BY <1>4 DEF Spaced

\* Every action: the limiter and the requests.
LEMMA StepSpaced ==
    ASSUME Inv, [Next]_vars
    PROVE  Spaced' /\ Ordered'
<1>1. ASSUME NEW f \in Fetchers, Fetch(f)  PROVE Spaced' /\ Ordered'
  BY <1>1, FetchSpaced DEF Fetch, Inv, Ordered
<1>2. ASSUME NEW f \in Fetchers, Send(f)  PROVE Spaced' /\ Ordered'
  BY <1>2, SendSpaced
<1>3. ASSUME NEW f \in Fetchers, Cancelled(f)  PROVE Spaced' /\ Ordered'
  BY <1>3, CancelledSpaced DEF Cancelled, Returns, Inv, Ordered
<1>4. ASSUME NEW f \in Fetchers, FetchRefused(f)  PROVE Spaced' /\ Ordered'
  BY <1>4, TokensStay DEF FetchRefused, Inv, Ordered, Waiting
<1>5. ASSUME NEW f \in Fetchers, NEW outcome, Returns(f, outcome), UNCHANGED spent
      PROVE  Spaced' /\ Ordered'
  <2>1. /\ UNCHANGED <<now, spent, sends>> /\ fetch' = [g \in Fetchers |-> fetch'[g]]
        /\ fetch'[f] = Idle /\ \A g \in Fetchers \ {f} : fetch'[g] = fetch[g]
    BY <1>5 DEF Returns, Inv, Ordered
  <2>2. Waiting' \subseteq Waiting /\ \A g \in Waiting' : fetch'[g] = fetch[g]
    BY <2>1 DEF Waiting, Idle
  <2>. QED  BY <2>1, <2>2, TokensStay DEF Inv, Ordered
<1>6. CASE Advance
  BY <1>6, AdvanceSpaced DEF Advance, Inv, Ordered
<1>7. CASE UNCHANGED vars
  BY <1>7, TokensStay DEF vars, Inv, Ordered, Waiting
<1>. QED
  BY <1>1, <1>2, <1>3, <1>4, <1>5, <1>6, <1>7 DEF Next, RejectSymbol, Reply, RequestFails

\* What a call of Fetch returns.
LEMMA StepSound ==
    ASSUME Inv, [Next]_vars
    PROVE  Sound(kind, result, now)'
<1>. DEFINE t == now
<1>1. Sound(kind, result, t) /\ t \in Nat /\ kind \in Kinds
  BY DEF Inv, TypeOK, UsableAnswers, Priced, Sound
<1>2. ASSUME UNCHANGED <<kind, now, result>>  PROVE Sound(kind, result, now)'
  BY <1>1, <1>2 DEF Sound
<1>3. ASSUME NEW answer, Sound(kind, answer, t), result' = answer, UNCHANGED <<kind, now>>
      PROVE  Sound(kind, result, now)'
  BY <1>3 DEF Sound
<1>4. ASSUME NEW f \in Fetchers, Reply(f)  PROVE Sound(kind, result, now)'
  <2>1. PICK reply \in Replies[kind] : Returns(f, Outcome(kind, reply, fetch[f].sent, now))
    BY <1>4 DEF Reply
  <2>2. fetch[f].sent \in 0..t
    BY <1>4 DEF Reply, Inv, TypeOK, Idle
  <2>3. Sound(kind, Outcome(kind, reply, fetch[f].sent, now), t)
    BY <1>1, <2>2, OutcomeSound
  <2>. QED  BY <1>3, <2>1, <2>3 DEF Returns
<1>5. ASSUME NEW f \in Fetchers,
             FetchRefused(f) \/ RejectSymbol(f) \/ RequestFails(f) \/ Cancelled(f)
      PROVE  Sound(kind, result, now)'
  <2>1. (result' = Upstream \/ result' = Misused) /\ UNCHANGED <<kind, now>>
    BY <1>5 DEF FetchRefused, RejectSymbol, RequestFails, Cancelled, Returns
  <2>. QED  BY <1>3, <2>1, RefusalSound
<1>6. CASE Advance
  BY <1>1, <1>6 DEF Advance, Sound
<1>. QED  BY <1>2, <1>4, <1>5, <1>6 DEF Next, vars, Fetch, Send

\* The parts of the type.
Called(x, t) == x \in {Idle} \cup [at : {"token"}, due : Nat, deadline : Nat]
                             \cup [at : {"http"}, sent : 0..t, deadline : Nat]

CallsTyped == \A f \in Fetchers : Called(fetch[f], now)

RestTyped ==
    /\ kind \in Kinds /\ now \in 0..MaxNow
    /\ spent \in Int /\ spent <= now + TickTime
    /\ sends \in Seq(0..now)

LEMMA StepTyped ==
    ASSUME Inv, [Next]_vars
    PROVE  TypeOK'
<1>1. CallsTyped /\ RestTyped /\ now \in Nat /\ MaxNow \in Nat
      /\ fetch = [f \in Fetchers |-> fetch[f]] /\ TickTime \in Nat
  BY SourcesAssumption, CreditTyped
     DEF Inv, TypeOK, Ordered, SourcesAssumption, CallsTyped, RestTyped, Called
<1>2. Sound(kind, result, now)'
  BY StepSound
<1>3. ASSUME UNCHANGED <<kind, now, spent, sends>>  PROVE RestTyped'
  BY <1>1, <1>3 DEF RestTyped
<1>4. ASSUME NEW f \in Fetchers, NEW x, Called(x, now), fetch' = [fetch EXCEPT ![f] = x],
             UNCHANGED now
      PROVE  CallsTyped'
  BY <1>1, <1>4 DEF CallsTyped
<1>5. Called(Idle, now)
  BY DEF Called
<1>6. ASSUME NEW f \in Fetchers, Fetch(f)  PROVE RestTyped' /\ CallsTyped'
  <2>1. Later(now, Reserved) \in Nat /\ Reserved \in Int /\ Reserved <= now + TickTime
    BY <1>1, <1>6, ReservedTyped DEF Fetch, Later, Inv
  <2>2. Called([at |-> "token", due |-> Later(now, Reserved), deadline |-> now + TickTime], now)
    BY <1>1, <2>1 DEF Called
  <2>. QED  BY <1>1, <1>4, <1>6, <2>1, <2>2 DEF Fetch, RestTyped
<1>7. ASSUME NEW f \in Fetchers, Send(f)  PROVE RestTyped' /\ CallsTyped'
  <2>1. fetch[f].deadline \in Nat
    BY <1>7, Holder DEF Send, Waiting, Inv
  <2>2. Called([at |-> "http", sent |-> now, deadline |-> fetch[f].deadline], now)
    BY <1>1, <2>1 DEF Called
  <2>3. sends' \in Seq(0..now)
    BY <1>1, <1>7, AppendProperties DEF Send, RestTyped
  <2>. QED  BY <1>1, <1>4, <1>7, <2>2, <2>3 DEF Send, RestTyped
<1>8. ASSUME NEW f \in Fetchers, Cancelled(f)  PROVE RestTyped' /\ CallsTyped'
  <2>1. spent' \in Int /\ spent' <= spent
    BY <1>1, <1>8, CreditTyped DEF Cancelled, RestTyped
  <2>2. UNCHANGED <<kind, now, sends>> /\ fetch' = [fetch EXCEPT ![f] = Idle]
    BY <1>8 DEF Cancelled, Returns
  <2>. QED  BY <1>1, <1>4, <1>5, <2>1, <2>2 DEF RestTyped
<1>9. ASSUME NEW f \in Fetchers, NEW outcome, Returns(f, outcome), UNCHANGED spent
      PROVE  RestTyped' /\ CallsTyped'
  BY <1>3, <1>4, <1>5, <1>9 DEF Returns
<1>10. ASSUME Advance  PROVE RestTyped' /\ CallsTyped'
  <2>1. now + 1 \in 0..MaxNow /\ 0..now \subseteq 0..(now + 1)
    BY <1>1, <1>10 DEF Advance
  <2>2. sends \in Seq(0..(now + 1))
    BY <1>1, <2>1, SeqMonotonic DEF RestTyped
  <2>3. CallsTyped'
    BY <1>1, <1>10, <2>1 DEF Advance, CallsTyped, Called
  <2>. QED  BY <1>1, <1>10, <2>1, <2>2, <2>3 DEF Advance, RestTyped
<1>11. ASSUME UNCHANGED <<now, fetch>>  PROVE CallsTyped'
  BY <1>1, <1>11 DEF CallsTyped
<1>12. RestTyped' /\ CallsTyped'
  <2>1. ASSUME NEW f \in Fetchers, FetchRefused(f)  PROVE RestTyped' /\ CallsTyped'
    BY <1>3, <1>11, <2>1 DEF FetchRefused
  <2>2. ASSUME NEW f \in Fetchers, RejectSymbol(f) \/ Reply(f) \/ RequestFails(f)
        PROVE  RestTyped' /\ CallsTyped'
    BY <1>9, <2>2 DEF RejectSymbol, Reply, RequestFails
  <2>3. CASE UNCHANGED vars
    BY <1>3, <1>11, <2>3 DEF vars
  <2>. QED  BY <1>6, <1>7, <1>8, <1>10, <2>1, <2>2, <2>3 DEF Next
<1>13. result'.error \in {"none", "ErrNoData", "ErrUpstream", "ErrConfig", "unasked"}
  BY <1>2 DEF Sound
<1>. QED  BY <1>12, <1>13 DEF TypeOK, CallsTyped, RestTyped, Called

LEMMA InvInit == Init => Inv
<1>. SUFFICES ASSUME Init  PROVE Inv
  OBVIOUS
<1>1. /\ Interval \in Nat \ {0} /\ Burst * Interval \in Nat /\ MaxNow \in Nat
      /\ TickTime \in Nat
  BY SourcesAssumption, CreditTyped DEF SourcesAssumption
<1>2. Waiting = {} /\ DOMAIN sends = {}
  BY DEF Init, Waiting, Idle
<1>3. TypeOK
  <2>1. sends \in Seq(0..now)
    BY DEF Init
  <2>. QED  BY <1>1, <2>1 DEF Init, TypeOK, Idle
<1>4. Ordered /\ UsableAnswers
  BY <1>2 DEF Init, Ordered, UsableAnswers, Priced
<1>5. Tokens([k \in {} |-> 0], [f \in Fetchers |-> 0])
  BY <1>2 DEF Tokens
<1>. QED  BY <1>3, <1>4, <1>5 DEF Inv, Spaced

\* Every step preserves the invariant.
LEMMA NextKeeps == Inv /\ [Next]_vars => Inv'
<1>. SUFFICES ASSUME Inv, [Next]_vars  PROVE Inv'
  OBVIOUS
<1>1. TypeOK' /\ Spaced' /\ Ordered'
  BY StepTyped, StepSpaced
<1>2. UsableAnswers'
  BY StepSound DEF Sound, UsableAnswers, Priced
<1>. QED  BY <1>1, <1>2 DEF Inv

\* The invariant holds in every state.
THEOREM InvHolds == Spec => []Inv
<1>1. Init => Inv
  BY InvInit
<1>2. Inv /\ [Next]_vars => Inv'
  BY NextKeeps
<1>. QED  BY <1>1, <1>2, PTL DEF Spec

\* Every variable keeps its type: the limiter never owes more than the time to
\* the end of a tick (adapter.go: acquireToken).
THEOREM SourcesTyped == Spec => []TypeOK
<1>1. Inv => TypeOK
  BY DEF Inv
<1>. QED  BY <1>1, InvHolds, PTL

\* Whatever a server answers, what Fetch returns can be used and is stamped
\* (the adapters' Fetch).
THEOREM AnswersAreUsable == Spec => []UsableAnswers
<1>1. Inv => UsableAnswers
  BY DEF Inv
<1>. QED  BY <1>1, InvHolds, PTL

-----------------------------------------------------------------------------
(* The rate: tokens an interval apart are counted by the intervals they    *)
(* are in.                                                                 *)

LEMMA Quotient ==
    ASSUME NEW d \in Nat \ {0}, NEW x \in Nat
    PROVE  x \div d \in Nat /\ x % d \in 0..(d - 1) /\ x = d * (x \div d) + (x % d)
OBVIOUS

LEMMA QuotientApart ==
    ASSUME NEW d \in Nat \ {0}, NEW x \in Nat, NEW y \in Nat, x + d <= y
    PROVE  x \div d < y \div d
<1>. DEFINE p == x \div d
            q == y \div d
            r == x % d
            s == y % d
<1>1. /\ p \in Nat /\ r \in 0..(d - 1) /\ x = d * p + r
      /\ q \in Nat /\ s \in 0..(d - 1) /\ y = d * q + s
  BY Quotient
<1>. HIDE DEF p, q, r, s
<1>2. d * p < d * q
  <2>1. d * p \in Nat /\ d * q \in Nat
    BY <1>1
  <2>. QED  BY <1>1, <2>1
<1>3. p < q
  BY <1>1, <1>2
<1>. QED  BY <1>3 DEF p, q

LEMMA QuotientBound ==
    ASSUME NEW d \in Nat \ {0}, NEW x \in Nat, NEW y \in Nat, NEW m \in Nat, x <= y + m * d
    PROVE  x \div d <= y \div d + m
<1>. DEFINE p == x \div d
            q == y \div d
            r == x % d
            s == y % d
<1>1. /\ p \in Nat /\ r \in 0..(d - 1) /\ x = d * p + r
      /\ q \in Nat /\ s \in 0..(d - 1) /\ y = d * q + s
  BY Quotient
<1>. HIDE DEF p, q, r, s
<1>2. d * (q + m + 1) = d * q + m * d + d
  BY <1>1
<1>3. d * p < d * (q + m + 1)
  <2>1. d * p \in Nat /\ d * q \in Nat /\ m * d \in Nat
    BY <1>1
  <2>. QED  BY <1>1, <1>2, <2>1
<1>4. p < q + m + 1
  BY <1>1, <1>3
<1>5. p <= q + m
  BY <1>1, <1>4
<1>. QED  BY <1>5 DEF p, q

LEMMA RateFollows == Inv => RateHeld
<1>. SUFFICES ASSUME Inv, NEW i \in DOMAIN sends, NEW j \in i..Len(sends)
              PROVE  j - i + 1 <= Burst + (sends[j] - sends[i]) \div Interval
  BY DEF RateHeld
<1>1. /\ i \in Nat /\ j \in Nat /\ i <= j
      /\ \A k \in i..j : k \in DOMAIN sends /\ sends[k] \in Nat
      /\ i \in i..j /\ j \in i..j
  <2>1. DOMAIN sends = 1..Len(sends) /\ Len(sends) \in Nat /\ sends \in Seq(0..now)
    BY LenProperties DEF Inv, TypeOK
  <2>2. \A k \in DOMAIN sends : sends[k] \in 0..now
    BY <2>1, ElementOfSeq
  <2>. QED  BY <2>1, <2>2
<1>2. PICK slot, held : Tokens(slot, held)
  BY DEF Inv, Spaced
<1>3. PICK lo : lo = sends[i] - Credit
  OBVIOUS
<1>4. PICK dist : dist = sends[j] - sends[i]
  OBVIOUS
<1>5. sends[i] <= sends[j] /\ lo \in Int /\ dist \in Nat
  BY <1>1, <1>3, <1>4, CreditTyped DEF Inv, Ordered
<1>6. \A k \in i..j :
         /\ slot[k] \in Int /\ slot[k] - lo \in Nat
         /\ slot[k] - lo <= dist + (Burst - 1) * Interval
  <2>. SUFFICES ASSUME NEW k \in i..j
                PROVE  /\ slot[k] \in Int /\ slot[k] - lo \in Nat
                       /\ slot[k] - lo <= dist + (Burst - 1) * Interval
    OBVIOUS
  <2>1. /\ slot[k] \in Int /\ slot[k] <= sends[k] /\ sends[k] <= slot[k] + Credit
        /\ sends[i] <= sends[k] /\ sends[k] <= sends[j] /\ sends[k] \in Nat
    BY <1>1, <1>2 DEF Tokens, Inv, Ordered
  <2>. QED  BY <1>1, <1>3, <1>4, <2>1, CreditTyped DEF Credit
<1>7. PICK top : top = dist \div Interval + (Burst - 1)
  OBVIOUS
<1>8. top \in Nat /\ Burst - 1 \in Nat /\ dist \div Interval \in Nat
  <2>1. dist \div Interval \in Nat
    BY <1>5, CreditTyped, Quotient
  <2>2. Burst - 1 \in Nat
    BY CreditTyped
  <2>. QED  BY <1>7, <2>1, <2>2
<1>9. PICK g : g = [k \in i..j |-> (slot[k] - lo) \div Interval]
  OBVIOUS
<1>10. g \in [i..j -> 0..top]
  <2>1. ASSUME NEW k \in i..j  PROVE (slot[k] - lo) \div Interval \in 0..top
    <3>1. PICK x : x = slot[k] - lo
      OBVIOUS
    <3>2. x \in Nat /\ x <= dist + (Burst - 1) * Interval
      BY <1>6, <3>1
    <3>3. x \div Interval \in Nat
      BY <3>2, CreditTyped, Quotient
    <3>4. x \div Interval <= dist \div Interval + (Burst - 1)
      BY <1>5, <1>8, <3>2, CreditTyped, QuotientBound
    <3>. QED  BY <1>7, <1>8, <3>1, <3>3, <3>4
  <2>. QED  BY <1>9, <2>1
<1>11. \A k, l \in i..j : k # l => g[k] # g[l]
  <2>1. ASSUME NEW k \in i..j, NEW l \in i..j, slot[k] + Interval <= slot[l]
        PROVE  g[k] # g[l]
    <3>1. PICK x : x = slot[k] - lo
      OBVIOUS
    <3>2. PICK y : y = slot[l] - lo
      OBVIOUS
    <3>3. x \in Nat /\ y \in Nat /\ x + Interval <= y
      <4>1. Interval \in Nat
        BY CreditTyped
      <4>2. slot[k] \in Int /\ slot[l] \in Int /\ x \in Nat /\ y \in Nat
        BY <1>6, <3>1, <3>2
      <4>3. PICK a, b : a = slot[k] /\ b = slot[l]
        OBVIOUS
      <4>4. lo \in Int /\ a \in Int /\ b \in Int /\ a + Interval <= b /\ x = a - lo /\ y = b - lo
        BY <1>5, <2>1, <3>1, <3>2, <4>2, <4>3
      <4>. QED  BY <4>1, <4>2, <4>4
    <3>4. x \div Interval < y \div Interval /\ x \div Interval \in Nat /\ y \div Interval \in Nat
      BY <3>3, CreditTyped, QuotientApart, Quotient
    <3>5. g[k] = x \div Interval /\ g[l] = y \div Interval
      BY <1>9, <3>1, <3>2
    <3>. QED  BY <3>4, <3>5
  <2>. SUFFICES ASSUME NEW k \in i..j, NEW l \in i..j, k # l  PROVE g[k] # g[l]
    OBVIOUS
  <2>2. Apart(slot[k], slot[l])
    BY <1>1, <1>2 DEF Tokens
  <2>3. CASE slot[k] + Interval <= slot[l]
    BY <2>1, <2>3
  <2>4. CASE slot[l] + Interval <= slot[k]
    BY <2>1, <2>4
  <2>. QED  BY <2>2, <2>3, <2>4 DEF Apart
<1>12. Cardinality(i..j) = j - i + 1 /\ Cardinality(0..top) = top + 1 /\ IsFiniteSet(0..top)
  <2>1. i \in Int /\ j \in Int /\ 0 \in Int /\ top \in Int
    BY <1>1, <1>8
  <2>2. /\ Cardinality(i..j) = IF i > j THEN 0 ELSE j - i + 1
        /\ Cardinality(0..top) = IF 0 > top THEN 0 ELSE top - 0 + 1
        /\ IsFiniteSet(0..top)
    BY <2>1, FS_Interval
  <2>. QED  BY <1>1, <1>8, <2>2
<1>13. g \in Injection(i..j, 0..top)
  BY <1>10, <1>11 DEF Injection, IsInjective
<1>14. j - i + 1 <= top + 1
  BY <1>12, <1>13, FS_Injection
<1>. QED  BY <1>1, <1>4, <1>7, <1>8, <1>14, CreditTyped

\* For any number of fetches, any burst and any interval, a stretch of time
\* sees at most a burst of requests and what has dripped into it (adapter.go:
\* acquireToken).
THEOREM RateIsHeld == Spec => []RateHeld
BY InvHolds, RateFollows, PTL

=============================================================================
