------------------------ MODULE MCSessionController ------------------------
(* Instances of SessionController for TLC. *)
EXTENDS SessionController

CONSTANTS p1, p2, t1, t2

=============================================================================
