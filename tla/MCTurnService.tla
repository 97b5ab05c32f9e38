--------------------------- MODULE MCTurnService ---------------------------
(* Four turns of two sessions. *)
EXTENDS TurnService, TLC

CONSTANTS r1, r2, r3, r4, a, b

MCTurns == {r1, r2, r3, r4}
MCSessionOf == (r1 :> a) @@ (r2 :> a) @@ (r3 :> a) @@ (r4 :> b)
=============================================================================
