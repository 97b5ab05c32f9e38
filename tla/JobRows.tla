------------------------------ MODULE JobRows ------------------------------
(***************************************************************************)
(* One row of the durable_jobs table and what each statement of            *)
(* DurableJobRepository (app/jobs/repository.py) does to it.  The module   *)
(* has no state: DurableJobs and the modules that compose the ledger with  *)
(* a worker apply these operators to the rows they keep.                   *)
(*                                                                         *)
(* Wall-clock columns are abstracted to the comparison the code makes with *)
(* the current time: due is available_at <= now, expired is                *)
(* lease_expires_at <= now, overdue is total_deadline_at <= now.           *)
(***************************************************************************)
EXTENDS Integers

CONSTANTS Workers,   \* worker_id values
          None       \* the SQL NULL of lease_owner

ASSUME WorkersAssumption == None \notin Workers

Waiting  == {"pending", "retry"}
Terminal == {"completed", "dead_letter", "cancelled"}
Statuses == {"absent", "running"} \cup Waiting \cup Terminal

(* token is lease_fencing_token, attempts is attempt_count, cancel says    *)
(* that cancel_requested_at is set, checkpoint is the token of the claim   *)
(* that last wrote payload_json, current_stage or provider_operation_ref   *)
(* (0: the row still holds what enqueue_job wrote).                        *)
Row == [status: Statuses, owner: Workers \cup {None}, token: Nat,
        attempts: Nat, cancel: BOOLEAN, due: BOOLEAN, expired: BOOLEAN,
        overdue: BOOLEAN, checkpoint: Nat]

AbsentRow == [status |-> "absent", owner |-> None, token |-> 0,
              attempts |-> 0, cancel |-> FALSE, due |-> FALSE,
              expired |-> FALSE, overdue |-> FALSE, checkpoint |-> 0]

(* The UPDATE of a caller that passes no fencing_token leaves the token    *)
(* out of its WHERE clause.                                                *)
NoToken == 0

TokenMatches(r, t) == t = NoToken \/ r.token = t

(* INSERT ... ON CONFLICT(idempotency_key) DO NOTHING: the first           *)
(* submission of a key creates the row, a repeated one finds it.           *)
Enqueued(r, availableNow) ==
    IF r.status = "absent"
    THEN [AbsentRow EXCEPT !.status = "pending", !.due = availableNow]
    ELSE r

(***************************************************************************)
(* claim_jobs: three sweeps over the whole table, then the selected rows   *)
(* become running, in one transaction.                                     *)
(***************************************************************************)
(* Variant: forgets lease_owner = NULL. *)
UnleasedKeepsOwner(r, s) == [r EXCEPT !.status = s, !.expired = FALSE]

Unleased(r, s) == [r EXCEPT !.status = s, !.owner = None, !.expired = FALSE]

SweepCancelRequested(r) ==
    IF r.status \in Waiting /\ r.cancel THEN Unleased(r, "cancelled") ELSE r

SweepOverdue(r) ==
    IF r.status \in Waiting /\ r.overdue THEN Unleased(r, "dead_letter") ELSE r

(* Variant: attempt_count > max_attempts. *)
ExpiredStatusOffByOne(r, max) ==
    IF r.cancel THEN "cancelled"
    ELSE IF r.attempts > max THEN "dead_letter" ELSE "retry"

ExpiredStatus(r, max) ==
    IF r.cancel THEN "cancelled"
    ELSE IF r.attempts >= max THEN "dead_letter" ELSE "retry"

(* Variant: sweeps every running row. *)
SweepAnyLease(r, max) ==
    IF r.status = "running"
    THEN [Unleased(r, ExpiredStatus(r, max)) EXCEPT !.due = TRUE]
    ELSE r

(* Variant: leaves rows whose cancellation is pending to their worker. *)
SweepUncancelledLease(r, max) ==
    IF r.status = "running" /\ r.expired /\ ~r.cancel
    THEN [Unleased(r, ExpiredStatus(r, max)) EXCEPT !.due = TRUE]
    ELSE r

SweepExpiredLease(r, max) ==
    IF r.status = "running" /\ r.expired
    THEN [Unleased(r, ExpiredStatus(r, max)) EXCEPT !.due = TRUE]
    ELSE r

Swept(r, max) ==
    SweepExpiredLease(SweepOverdue(SweepCancelRequested(r)), max)

Claimable(r, max) ==
    /\ r.status \in Waiting
    /\ r.due
    /\ r.attempts < max
    /\ ~r.cancel
    /\ ~r.overdue

Leased(r, w) ==
    [r EXCEPT !.status = "running", !.owner = w, !.expired = FALSE]

(* Variant: the fencing token is not advanced. *)
ClaimedSameToken(r, w) == [Leased(r, w) EXCEPT !.attempts = @ + 1]

Claimed(r, w) ==
    [Leased(r, w) EXCEPT !.attempts = @ + 1, !.token = @ + 1]

(***************************************************************************)
(* The statements of the worker that holds a claim: a guard, the WHERE     *)
(* clause, and what the UPDATE assigns.  The caller gets back whether a    *)
(* row matched.                                                            *)
(***************************************************************************)
HeldBy(r, w, t) ==
    r.status = "running" /\ r.owner = w /\ TokenMatches(r, t)

(* Variant: cancel_requested_at IS NULL is missing. *)
CanCompleteCancelled(r, w, t) == HeldBy(r, w, t)

CanComplete(r, w, t) == HeldBy(r, w, t) /\ ~r.cancel
Completed(r) == Unleased(r, "completed")

(* retry_job looks the row up by lease_owner alone: it does not ask for    *)
(* status running.                                                         *)
CanRetry(r, w, t) == r.owner = w /\ TokenMatches(r, t)
Retried(r, max, noDelay) ==
    [Unleased(r, ExpiredStatus(r, max)) EXCEPT !.due = noDelay]

CanDefer(r, w, t) == HeldBy(r, w, t) /\ ~r.cancel
(* Variant: refunds two attempts. *)
DeferredTwice(r, noDelay) ==
    [Unleased(r, "retry") EXCEPT
        !.attempts = IF @ > 1 THEN @ - 2 ELSE 0, !.due = noDelay]

(* Variant: MAX(0, ...) is missing around a refund of two. *)
DeferredBelowZero(r, noDelay) ==
    [Unleased(r, "retry") EXCEPT !.attempts = @ - 2, !.due = noDelay]

Deferred(r, noDelay) ==
    [Unleased(r, "retry") EXCEPT
        !.attempts = IF @ > 0 THEN @ - 1 ELSE 0, !.due = noDelay]

CanDeadLetter(r, w, t) == HeldBy(r, w, t)
DeadLettered(r) == Unleased(r, "dead_letter")

CanAcknowledgeCancel(r, w, t) == HeldBy(r, w, t) /\ r.cancel
CancelAcknowledged(r) == Unleased(r, "cancelled")

CanRenew(r, w, t) == HeldBy(r, w, t) /\ ~r.cancel
Renewed(r) == [r EXCEPT !.expired = FALSE]

(* update_progress, checkpoint_payload and set_provider_operation have one *)
(* WHERE clause.                                                           *)
(* Variant: asks for a running row only. *)
CanCheckpointUnfenced(r, w, t) == r.status = "running" /\ ~r.cancel

CanCheckpoint(r, w, t) == HeldBy(r, w, t) /\ ~r.cancel
Checkpointed(r, t) == [r EXCEPT !.checkpoint = t]

(***************************************************************************)
(* Statements of other callers.                                            *)
(***************************************************************************)
CancelRequested(r) ==
    IF r.status = "absent" \/ r.status \in Terminal THEN r
    ELSE IF r.status \in Waiting
         THEN [Unleased(r, "cancelled") EXCEPT !.cancel = TRUE]
         ELSE [r EXCEPT !.cancel = TRUE]

Released(r) == IF r.status \in Waiting /\ ~r.cancel
               THEN [r EXCEPT !.due = TRUE] ELSE r

CanRequeue(r) == r.status \in {"dead_letter", "cancelled"}
Requeued(r, noDelay) ==
    [Unleased(r, "retry") EXCEPT !.attempts = 0, !.cancel = FALSE,
                                 !.due = noDelay]

(***************************************************************************)
(* A row as the users of the ledger see it, in the terms of JobLedger.     *)
(***************************************************************************)
LedgerPhase(s) == CASE s = "absent" -> "new"
                    [] s \in Waiting -> "open"
                    [] s = "running" -> "leased"
                    [] s = "completed" -> "done"
                    [] s \in {"dead_letter", "cancelled"} -> "void"

LedgerEntry(r) ==
    [phase |-> LedgerPhase(r.status), holder |-> r.owner, epoch |-> r.token]
=============================================================================
