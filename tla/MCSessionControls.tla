------------------------- MODULE MCSessionControls -------------------------
(* Instances of SessionControls for TLC. *)
EXTENDS SessionControls
=============================================================================
