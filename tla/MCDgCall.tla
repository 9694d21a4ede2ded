------------------------------- MODULE MCDgCall -------------------------------
(* Instances of DgCall for TLC. *)
EXTENDS DgCall
=============================================================================
