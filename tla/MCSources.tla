----------------------------- MODULE MCSources -----------------------------
(***************************************************************************)
(* Constants of the small instances on which TLC checks Sources.           *)
(***************************************************************************)
EXTENDS Sources

CONSTANTS f1, f2, f3

ThreeFetchers == {f1, f2, f3}

Floats == {-1, 0, 7}
Texts == Floats \cup {Empty, Garbage, NaN}
OldTime == {-5}
Times == OldTime \cup {NoTime}
Seq2(S) == {<< >>} \cup {<<x>> : x \in S} \cup {<<x, y>> : x \in S, y \in S}

Pools == [stable0 : BOOLEAN, stable1 : BOOLEAN, token0Price : Texts, token1Price : Texts]

Samples == [
    coingecko     |-> [listed : BOOLEAN, usd : Floats, updated : Times],
    binance       |-> [price : Texts],
    uniswap_v3    |-> [errors : BOOLEAN, found : BOOLEAN, pool : Pools],
    alpha_vantage |-> [note : BOOLEAN, errorMessage : BOOLEAN, rate : Texts, refreshed : Times],
    twelve_data   |-> [errorStatus : BOOLEAN, code : {400, 500}, price : Texts],
    stooq         |-> [rows : BOOLEAN, close : Texts, stamp : Times],
    eia           |-> Seq2([value : Texts, period : Times]),
    fred          |-> Seq2([value : Texts, date : Times]),
    yahoo         |-> [error : BOOLEAN, result : BOOLEAN, price : Floats, marketTime : Times],
    swissquote    |-> Seq2([bid : {0, 6}, ask : {0, 8}]),
    gold_api      |-> [price : Floats, updatedAt : Times]]

AllReplies == [k \in DOMAIN Samples |->
    [status : {200}, body : Samples[k] \cup {Garbled}] \cup [status : {400, 404, 500}, body : {Garbled}]]

AllKinds == DOMAIN Samples

=============================================================================
