-------------------------- MODULE MCSharedSettings --------------------------
(* Instances of SharedSettings for TLC. *)
EXTENDS SharedSettings
=============================================================================
