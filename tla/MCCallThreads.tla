---------------------------- MODULE MCCallThreads ----------------------------
(* Instances of CallThreads for TLC. *)
EXTENDS CallThreads, TLC

CallSymmetry == Permutations(Calls)
=============================================================================
