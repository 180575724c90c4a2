------------------------------- MODULE Store --------------------------------
(***************************************************************************)
(* What the rest of the service relies on when it calls the repository: a  *)
(* round that is handed to it becomes readable as a whole, once, perhaps   *)
(* after its caller has given up, or never; the caller who is told so can  *)
(* read it; and the latest round is the one with the latest time, in       *)
(* whatever order they became readable.                                    *)
(***************************************************************************)
EXTENDS Integers, Sequences

CONSTANT Assets

VARIABLES
    handed,    \* the rounds handed over: asset, time, sources that answered
    readable,  \* those that a reader may find, by number
    samples,   \* the raw rows: a number and a source
    latest,    \* latest[a]: the number of what a reader is given, 0 for none
    told       \* the rounds whose caller was told that they are stored

vars == <<handed, readable, samples, latest, told>>

Init ==
    /\ handed = << >> /\ readable = {} /\ samples = {} /\ told = {}
    /\ latest = [a \in Assets |-> 0]

\* A round is handed over.
Hand ==
    /\ Len(handed') = Len(handed) + 1
    /\ \A n \in DOMAIN handed : handed'[n] = handed[n]
    /\ UNCHANGED <<readable, samples, latest, told>>

Later(n, m) == m = 0 \/ handed[n].at > handed[m].at

\* It becomes readable, with all its samples.
Appear(n) ==
    /\ n \in DOMAIN handed \ readable
    /\ readable' = readable \cup {n}
    /\ samples' = samples \cup {n} \X handed[n].sources
    /\ latest' = [latest EXCEPT ![handed[n].asset] = IF Later(n, @) THEN n ELSE @]
    /\ UNCHANGED <<handed, told>>

Tell(n) ==
    /\ n \in readable
    /\ told' = told \cup {n}
    /\ UNCHANGED <<handed, readable, samples, latest>>

Next == Hand \/ \E n \in DOMAIN handed : Appear(n) \/ Tell(n)

Spec == Init /\ [][Next]_vars

=============================================================================
