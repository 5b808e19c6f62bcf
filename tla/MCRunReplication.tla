-------------------------- MODULE MCRunReplication --------------------------
(* RunReplication with windows that are told apart by nothing but their name. *)
EXTENDS RunReplication, TLC

WindowSymmetry == Permutations(Window)
=============================================================================
