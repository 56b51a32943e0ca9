--------------------------- MODULE MCProfilePages ---------------------------
(* Instances of ProfilePages for TLC. *)
EXTENDS ProfilePages

CONSTANTS p1, p2

=============================================================================
