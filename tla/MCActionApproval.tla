-------------------------- MODULE MCActionApproval --------------------------
(* One proposal, decided in the task workspace or on Discord. *)
EXTENDS ActionApproval, TLC

CONSTANT p1

MCProposals == {p1}
Symmetry == Permutations(Workers)
=============================================================================
