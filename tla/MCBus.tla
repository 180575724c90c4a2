-------------------------------- MODULE MCBus --------------------------------
(***************************************************************************)
(* Constants of the small instances on which TLC checks Bus.               *)
(***************************************************************************)
EXTENDS Bus

CONSTANTS p1, p2, c1, c2

TwoPublishers == {p1, p2}
TwoSubscribers == {c1, c2}

=============================================================================
