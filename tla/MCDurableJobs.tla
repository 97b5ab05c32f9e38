--------------------------- MODULE MCDurableJobs ---------------------------
(* Two jobs of one type, so that a claim takes none, either or both; their *)
(* worker passes no fencing token.  The second has a total deadline.       *)
EXTENDS DurableJobs, TLC

CONSTANTS j1, j2, plain

MCJobs == {j1, j2}
MCTypes == {plain}
MCTypeOf == (j1 :> plain) @@ (j2 :> plain)
MCAggregateOf == (j1 :> 1) @@ (j2 :> 2)
MCTokenless == {plain}
MCDeadlined == {j2}
Symmetry == Permutations(Workers)
=============================================================================
