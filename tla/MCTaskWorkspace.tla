-------------------------- MODULE MCTaskWorkspace --------------------------
(* One task; the processes and the failures are given by each .cfg. *)
EXTENDS TaskWorkspace, TLC

Symmetry == Permutations(Workers) \cup Permutations(Requests)
=============================================================================
