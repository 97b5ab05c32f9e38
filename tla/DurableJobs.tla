---------------------------- MODULE DurableJobs ----------------------------
(***************************************************************************)
(* The leased job ledger of app/jobs/repository.py and the worker          *)
(* processes that poll it.  Every repository method is one BEGIN IMMEDIATE *)
(* transaction, hence one action.  A worker is a sequential loop: it       *)
(* claims a batch, keeps the returned rows in memory (held) and settles    *)
(* them one after another; it polls again when the batch is done.  It may  *)
(* be slow (its lease expires under it) or crash (held is lost).           *)
(***************************************************************************)
EXTENDS JobRows, FiniteSets

CONSTANTS Jobs,          \* the job rows, one per idempotency key
          JobTypes,      \* job_type values
          TypeOf,        \* the job_type of each job
          AggregateOf,   \* the aggregate_id of each job
          Tokenless,     \* job types whose worker passes no fencing_token
          Deadlined,     \* jobs enqueued with a total_deadline_at
          MaxAttempts,   \* max_attempts of enqueue_job
          BatchLimit,    \* limit of claim_jobs
          MaxRequeues,   \* bound: operator requeues of one job
          MaxDefers      \* bound: deferred provider polls of one job

ASSUME TypesAssumption == TypeOf \in [Jobs -> JobTypes]
ASSUME AttemptsAssumption == MaxAttempts \in Nat \ {0}
ASSUME LimitAssumption == BatchLimit \in Nat \ {0}
ASSUME BoundsAssumption == MaxRequeues \in Nat /\ MaxDefers \in Nat

VARIABLES job,       \* durable_jobs
          held,      \* the claims each worker process has in memory
          requeues,  \* how often an operator requeued each job
          defers     \* how often a worker deferred each job

vars == <<job, held, requeues, defers>>

Claims == [job: Jobs, token: Nat]

TypeOK ==
    /\ job \in [Jobs -> Row]
    /\ held \in [Workers -> SUBSET Claims]
    /\ requeues \in [Jobs -> Nat]
    /\ defers \in [Jobs -> Nat]

Init ==
    /\ job = [j \in Jobs |-> AbsentRow]
    /\ held = [w \in Workers |-> {}]
    /\ requeues = [j \in Jobs |-> 0]
    /\ defers = [j \in Jobs |-> 0]

SetRow(j, r) == job' = [job EXCEPT ![j] = r]

(* The fencing_token argument of a worker that holds claim c. *)
TokenArg(c) == IF TypeOf[c.job] \in Tokenless THEN NoToken ELSE c.token

----------------------------------------------------------------------------
(* Producers and operators *)

Enqueue(j) ==
    /\ job[j].status = "absent"
    /\ \E availableNow \in BOOLEAN : SetRow(j, Enqueued(job[j], availableNow))
    /\ UNCHANGED <<held, requeues, defers>>

RequestCancel(j) ==
    /\ SetRow(j, CancelRequested(job[j]))
    /\ UNCHANGED <<held, requeues, defers>>

(* release_jobs wakes every waiting job of one type and aggregate. *)
Release(t, a) ==
    /\ job' = [j \in Jobs |-> IF TypeOf[j] = t /\ AggregateOf[j] = a
                              THEN Released(job[j]) ELSE job[j]]
    /\ UNCHANGED <<held, requeues, defers>>

Requeue(j) ==
    /\ CanRequeue(job[j])
    /\ requeues[j] < MaxRequeues
    /\ \E noDelay \in BOOLEAN : SetRow(j, Requeued(job[j], noDelay))
    /\ requeues' = [requeues EXCEPT ![j] = @ + 1]
    /\ UNCHANGED <<held, defers>>

----------------------------------------------------------------------------
(* Workers *)

SweptJobs == [j \in Jobs |-> Swept(job[j], MaxAttempts)]

Candidates(t) ==
    {j \in Jobs : TypeOf[j] = t /\ Claimable(SweptJobs[j], MaxAttempts)}

(* The rows ORDER BY ... LIMIT returns: any full batch of candidates. *)
IsBatch(S, t) ==
    /\ S \subseteq Candidates(t)
    /\ Cardinality(S) <= BatchLimit
    /\ Cardinality(S) < BatchLimit => S = Candidates(t)

ClaimBatch(w, S) ==
    /\ job' = [j \in Jobs |-> IF j \in S THEN Claimed(SweptJobs[j], w)
                              ELSE SweptJobs[j]]
    /\ held' = [held EXCEPT ![w] = @ \cup
                    {[job |-> j, token |-> job[j].token + 1] : j \in S}]
    /\ UNCHANGED <<requeues, defers>>

(* Variant: two polling loops share one worker_id. *)
ClaimSharedWorkerId(w, t) ==
    \E S \in SUBSET Jobs : IsBatch(S, t) /\ ClaimBatch(w, S)

Claim(w, t) ==
    /\ held[w] = {}
    /\ \E S \in SUBSET Jobs : IsBatch(S, t) /\ ClaimBatch(w, S)

Forget(w, c) == held' = [held EXCEPT ![w] = @ \ {c}]

(* The five statements that end the worker's business with a claim.  The   *)
(* row changes when the WHERE clause matches; either way the worker goes   *)
(* on to the next claim.                                                   *)
Complete(w, c) ==
    /\ IF CanComplete(job[c.job], w, TokenArg(c))
       THEN SetRow(c.job, Completed(job[c.job])) ELSE UNCHANGED job
    /\ Forget(w, c)
    /\ UNCHANGED <<requeues, defers>>

Retry(w, c) ==
    /\ IF CanRetry(job[c.job], w, TokenArg(c))
       THEN \E noDelay \in BOOLEAN :
                SetRow(c.job, Retried(job[c.job], MaxAttempts, noDelay))
       ELSE UNCHANGED job
    /\ Forget(w, c)
    /\ UNCHANGED <<requeues, defers>>

Defer(w, c) ==
    /\ defers[c.job] < MaxDefers
    /\ IF CanDefer(job[c.job], w, c.token)
       THEN /\ \E noDelay \in BOOLEAN :
                   SetRow(c.job, Deferred(job[c.job], noDelay))
            /\ defers' = [defers EXCEPT ![c.job] = @ + 1]
       ELSE UNCHANGED <<job, defers>>
    /\ Forget(w, c)
    /\ UNCHANGED requeues

DeadLetter(w, c) ==
    /\ IF CanDeadLetter(job[c.job], w, c.token)
       THEN SetRow(c.job, DeadLettered(job[c.job])) ELSE UNCHANGED job
    /\ Forget(w, c)
    /\ UNCHANGED <<requeues, defers>>

AcknowledgeCancel(w, c) ==
    /\ IF CanAcknowledgeCancel(job[c.job], w, c.token)
       THEN SetRow(c.job, CancelAcknowledged(job[c.job])) ELSE UNCHANGED job
    /\ Forget(w, c)
    /\ UNCHANGED <<requeues, defers>>

(* The statements a worker issues while it works; a refused one tells it   *)
(* that the lease is lost and it gives the claim up.                       *)
RenewLease(w, c) ==
    /\ IF CanRenew(job[c.job], w, c.token)
       THEN SetRow(c.job, Renewed(job[c.job])) /\ UNCHANGED held
       ELSE Forget(w, c) /\ UNCHANGED job
    /\ UNCHANGED <<requeues, defers>>

Checkpoint(w, c) ==
    /\ IF CanCheckpoint(job[c.job], w, c.token)
       THEN SetRow(c.job, Checkpointed(job[c.job], c.token)) /\ UNCHANGED held
       ELSE Forget(w, c) /\ UNCHANGED job
    /\ UNCHANGED <<requeues, defers>>

Settle(w, c) ==
    \/ Complete(w, c)
    \/ Retry(w, c)
    \/ Defer(w, c)
    \/ DeadLetter(w, c)
    \/ AcknowledgeCancel(w, c)

Work(w, c) == RenewLease(w, c) \/ Checkpoint(w, c)

(* The process dies, or an exception leaves run_once, between two calls. *)
Crash(w) ==
    /\ held[w] # {}
    /\ held' = [held EXCEPT ![w] = {}]
    /\ UNCHANGED <<job, requeues, defers>>

----------------------------------------------------------------------------
(* The clock *)

LeaseExpires(j) ==
    /\ job[j].status = "running"
    /\ ~job[j].expired
    /\ SetRow(j, [job[j] EXCEPT !.expired = TRUE])
    /\ UNCHANGED <<held, requeues, defers>>

DelayElapses(j) ==
    /\ job[j].status \in Waiting
    /\ ~job[j].due
    /\ SetRow(j, [job[j] EXCEPT !.due = TRUE])
    /\ UNCHANGED <<held, requeues, defers>>

DeadlinePasses(j) ==
    /\ j \in Deadlined
    /\ job[j].status # "absent"
    /\ ~job[j].overdue
    /\ SetRow(j, [job[j] EXCEPT !.overdue = TRUE])
    /\ UNCHANGED <<held, requeues, defers>>

----------------------------------------------------------------------------
Next ==
    \/ \E j \in Jobs : Enqueue(j) \/ RequestCancel(j) \/ Requeue(j)
    \/ \E j \in Jobs : Release(TypeOf[j], AggregateOf[j])
    \/ \E w \in Workers, t \in JobTypes : Claim(w, t)
    \/ \E w \in Workers : \E c \in held[w] : Settle(w, c) \/ Work(w, c)
    \/ \E w \in Workers : Crash(w)
    \/ \E j \in Jobs : LeaseExpires(j) \/ DelayElapses(j) \/ DeadlinePasses(j)

Spec == Init /\ [][Next]_vars

(* A job nobody has in memory: its worker crashed or gave it up. *)
Abandoned(j) == \A w \in Workers : \A c \in held[w] : c.job # j

(* What the deployment provides: delays pass; a lease nobody renews runs   *)
(* out; a worker does not work on a claim for ever; for every job type     *)
(* some worker keeps polling (run_forever sleeps poll_seconds between      *)
(* polls).  Nothing is assumed of producers, operators or crashes.         *)
Fairness ==
    /\ \A j \in Jobs : WF_vars(DelayElapses(j))
    /\ \A j \in Jobs : WF_vars(LeaseExpires(j) /\ Abandoned(j))
    /\ \A w \in Workers : WF_vars(\E c \in held[w] : Settle(w, c))
    /\ \A t \in JobTypes : WF_vars(\E w \in Workers : Claim(w, t))

FairSpec == Spec /\ Fairness

----------------------------------------------------------------------------
(* Properties *)

(* A lease belongs to the newest claim: whenever a worker remembers a      *)
(* claim of a job and the row names that worker as lease_owner, it is the  *)
(* same claim.  This is what makes complete_job and retry_job safe for the *)
(* workers that pass no fencing_token (durable_write_service.py:84).       *)
OwnerFence ==
    \A w \in Workers : \A c \in held[w] :
        job[c.job].owner = w => c.token = job[c.job].token

(* No two processes remember the same claim. *)
ClaimsAreUnique ==
    \A v, w \in Workers : v # w => held[v] \cap held[w] = {}

(* A row has a lease_owner exactly while it is running: retry_job may look *)
(* a row up by lease_owner without asking for its status, and a settled    *)
(* job cannot be retried by the worker that settled it.                    *)
LeaseOnlyWhileRunning ==
    \A j \in Jobs : (job[j].owner # None) <=> (job[j].status = "running")

(* No stranded job: a waiting job has attempts left and no cancellation    *)
(* pending, so the SELECT of claim_jobs can pick it up as soon as it is    *)
(* due, or the deadline sweep ends it.                                     *)
NoStrandedJob ==
    \A j \in Jobs : job[j].status \in Waiting =>
        job[j].attempts < MaxAttempts /\ ~job[j].cancel

(* The attempt budget: however claims, crashes, sweeps, deferred polls and *)
(* requeues interleave, a job is handed out at most MaxAttempts times plus *)
(* MaxAttempts times per requeue, deferred polls not counted.              *)
AttemptBudget ==
    \A j \in Jobs :
        job[j].token <= MaxAttempts * (requeues[j] + 1) + defers[j]

(* A lease that has not run out ends only by a statement of the worker it  *)
(* was granted to: no sweep, no other worker and no older claim of the     *)
(* same worker takes the job away.                                         *)
LeaseRespected ==
    [][\A j \in Jobs :
        LET claim == [job |-> j, token |-> job[j].token]
            owner == job[j].owner
        IN  /\ job[j].status = "running"
            /\ ~job[j].expired
            /\ job'[j].status # "running" \/ job'[j].token # job[j].token
            => claim \in held[owner] /\ claim \notin held'[owner]]_vars

(* A cancelled job is never completed: once cancel_requested_at is set on  *)
(* a running row, the next status is cancelled or dead_letter, never       *)
(* completed or retry, until an operator requeues it.                      *)
CancelIsHonoured ==
    [][\A j \in Jobs :
        job[j].status = "running" /\ job[j].cancel =>
            job'[j].status \in {"running", "cancelled", "dead_letter"}]_vars

(* Checkpoints never go back: the payload a newer claim has written is not *)
(* overwritten by a worker that still believes in an older claim.          *)
CheckpointsMoveForward ==
    [][\A j \in Jobs : job'[j].checkpoint >= job[j].checkpoint]_vars

(* The inductive invariant behind the properties above. *)
RowOK(r) ==
    /\ r.status = "absent" => r = AbsentRow
    /\ (r.owner # None) <=> (r.status = "running")
    /\ r.status \in Waiting => r.attempts < MaxAttempts /\ ~r.cancel
    /\ r.attempts <= MaxAttempts

RowsOK == \A j \in Jobs : RowOK(job[j])

(* Every claim was paid for by an attempt the row still shows, by a        *)
(* requeue, or by a deferred poll.                                         *)
ClaimsPaidFor ==
    \A j \in Jobs :
        job[j].token <= job[j].attempts + MaxAttempts * requeues[j] + defers[j]

ClaimsOK ==
    \A w \in Workers : \A c \in held[w] :
        /\ c.token \in 1 .. job[c.job].token
        /\ job[c.job].owner = w => c.token = job[c.job].token
        /\ \A v \in Workers \ {w} : c \notin held[v]

IInv == TypeOK /\ RowsOK /\ ClaimsPaidFor /\ ClaimsOK

(* The ledger keeps the promises of JobLedger. *)
LedgerView == [j \in Jobs |-> LedgerEntry(job[j])]

Ledger == INSTANCE JobLedger WITH ledger <- LedgerView

LedgerSpec == Ledger!Spec

(* Every enqueued job ends, and so does every requeued one. *)
EveryJobEnds ==
    \A j \in Jobs : job[j].status # "absent" ~> job[j].status \in Terminal
=============================================================================
