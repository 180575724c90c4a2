---------------------------- MODULE MCRepository ----------------------------
(***************************************************************************)
(* Constants of the small instances on which TLC checks Repository.        *)
(***************************************************************************)
EXTENDS Repository

CONSTANTS b1, b2

TwoCallers == {b1, b2}

\* Whole and broken seconds, a source that was excluded, one ahead of the
\* service's clock, one that did not answer; and a price that cannot be encoded.
Good == <<[kind |-> 1, price |-> 7, fetched |-> 2, observed |-> 7, included |-> FALSE],
          [kind |-> 2, price |-> 7, fetched |-> 1, observed |-> -2, included |-> TRUE],
          [kind |-> 3, price |-> None]>>
Odd == <<[kind |-> 1, price |-> NaN, fetched |-> 1, observed |-> NoTime, included |-> TRUE],
         [kind |-> 2, price |-> None]>>

TwoBreakdowns == {Good, Odd}

=============================================================================
