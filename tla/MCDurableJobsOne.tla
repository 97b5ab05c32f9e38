-------------------------- MODULE MCDurableJobsOne --------------------------
(* One job with a total deadline whose worker passes its fencing token, all *)
(* the bounds raised.                                                       *)
EXTENDS DurableJobs, TLC

CONSTANTS j1, fenced

MCJobs == {j1}
MCTypes == {fenced}
MCTypeOf == (j1 :> fenced)
MCAggregateOf == (j1 :> 1)
=============================================================================
