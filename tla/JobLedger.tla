----------------------------- MODULE JobLedger -----------------------------
(***************************************************************************)
(* What a durable job ledger promises its users, without claims in worker  *)
(* memory, sweeps, attempts, clocks or batches.  A job is new, open,       *)
(* leased to one worker, done or void.  Leases are numbered: every grant   *)
(* has the next epoch.  Done is for ever; void is left only by an operator *)
(* who reopens the job.  One step may move several jobs at once.           *)
(***************************************************************************)
EXTENDS Integers

CONSTANTS Jobs, Workers, None

VARIABLE ledger

Entry == [phase: {"new", "open", "leased", "done", "void"},
          holder: Workers \cup {None}, epoch: Nat]

NewEntry == [phase |-> "new", holder |-> None, epoch |-> 0]

Init == ledger = [j \in Jobs |-> NewEntry]

Unheld(e, p) == [phase |-> p, holder |-> None, epoch |-> e.epoch]

Submit(e, f) == e.phase = "new" /\ f = Unheld(e, "open")

(* Also to a worker that takes over a lease that ran out. *)
Grant(e, f) ==
    /\ e.phase \in {"open", "leased"}
    /\ \E w \in Workers :
           f = [phase |-> "leased", holder |-> w, epoch |-> e.epoch + 1]

Finish(e, f) == e.phase = "leased" /\ f = Unheld(e, "done")

GiveBack(e, f) == e.phase = "leased" /\ f = Unheld(e, "open")

Abort(e, f) == e.phase \in {"open", "leased"} /\ f = Unheld(e, "void")

Reopen(e, f) == e.phase = "void" /\ f = Unheld(e, "open")

Lawful(e, f) ==
    \/ f = e
    \/ Submit(e, f)
    \/ Grant(e, f)
    \/ Finish(e, f)
    \/ GiveBack(e, f)
    \/ Abort(e, f)
    \/ Reopen(e, f)

Next ==
    /\ ledger' \in [Jobs -> Entry]
    /\ \A j \in Jobs : Lawful(ledger[j], ledger'[j])

Spec == Init /\ [][Next]_ledger
=============================================================================
