-------------------------- MODULE MCHistoryDelete --------------------------
(* Instances of HistoryDelete for TLC. *)
EXTENDS HistoryDelete

CONSTANTS b1, b2
=============================================================================
