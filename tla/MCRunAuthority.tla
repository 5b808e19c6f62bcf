--------------------------- MODULE MCRunAuthority ---------------------------
(* RunAuthority on its own: the runs and their interactions, and the queue.  *)
(* What was published before does not influence what the authority does next *)
(* (RunReplication adds the windows that receive it), so states that differ  *)
(* only in the channels are explored once.                                   *)
EXTENDS RunAuthority, TLC

Symmetry == Permutations(RunId)

Unpublished == <<revision, runs, threadOf, accepted, queue, subscribers, turn, told, answered>>
=============================================================================
