------------------------------ MODULE PriceFeed ------------------------------
(***************************************************************************)
(* What the aggregator promises to those who read its table and to those   *)
(* who follow its bus: per asset an append-only history of accepted rows,  *)
(* each within the deviation band of the row it was compared with, and a   *)
(* feed that announces rows of the history, never an older one after a     *)
(* newer one.  A row the writer is not sure of may become visible late, or *)
(* never.  It says nothing of sources, caches, deadlines or processes.     *)
(***************************************************************************)
EXTENDS Integers, Sequences

CONSTANTS
    Assets,
    InBand(_, _)         \* InBand(m, last): m may follow last

VARIABLES
    history,    \* history[a]: the rows of a, oldest first
    feed        \* what was announced: [asset, median, at]

Init ==
    /\ history = [a \in Assets |-> << >>]
    /\ feed = << >>

\* Row i of a is the newest one whose acceptance the writer is sure of, or a
\* visible one appended after it: these are the rows a new one may be compared
\* with.
Recent(a) ==
    {i \in DOMAIN history[a] :
        /\ history[a][i].visible
        /\ \A j \in (i + 1)..Len(history[a]) : ~ history[a][j].sure}

\* A row [median, at, sure, blind, visible] is appended.  It is newer than the
\* others, and visible if the writer is sure of it; unless the writer was blind
\* or has never been sure, it is within the band of a recent one.
Accept(a) ==
    LET row == history'[a][Len(history'[a])]
    IN  /\ Len(history'[a]) = Len(history[a]) + 1
        /\ history' = [history EXCEPT ![a] = Append(@, row)]
        /\ \A i \in DOMAIN history[a] : history[a][i].at < row.at
        /\ row.sure => row.visible
        /\ \/ \A i \in DOMAIN history[a] : ~ history[a][i].sure
           \/ row.blind
           \/ \E i \in Recent(a) : InBand(row.median, history[a][i].median)
        /\ UNCHANGED feed

\* A row becomes visible, out of turn perhaps.
Surface(a) ==
    /\ \E i \in DOMAIN history[a] :
          /\ ~ history[a][i].visible
          /\ history' = [history EXCEPT ![a] =
                [j \in 1..Len(history[a]) |->
                    [history[a][j] EXCEPT !.visible = (j = i \/ @)]]]
    /\ UNCHANGED feed

\* The newest row is announced, if the writer is sure of it and has not
\* announced it yet.
Announce(a) ==
    LET row == history[a][Len(history[a])]
    IN  /\ history[a] # << >>
        /\ row.sure
        /\ \A k \in DOMAIN feed : feed[k].asset = a => feed[k].at < row.at
        /\ feed' = Append(feed, [asset |-> a, median |-> row.median, at |-> row.at])
        /\ UNCHANGED history

Next == \E a \in Assets : Accept(a) \/ Surface(a) \/ Announce(a)

Spec == Init /\ [][Next]_<<history, feed>>

=============================================================================
