--------------------------- MODULE MCAccelerator ---------------------------
(* One live conversation and two background requests, one of them patient. *)
EXTENDS Accelerator, TLC

CONSTANTS live, ocr, mail

MCRequests == {live, ocr, mail}
MCPriority == (live :> 2) @@ (ocr :> 1) @@ (mail :> 1)
MCPatient == {ocr}
=============================================================================
