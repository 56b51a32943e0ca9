--------------------------- MODULE MCSessionImages ---------------------------
(* Instances of SessionImages for TLC. *)
EXTENDS SessionImages
=============================================================================
