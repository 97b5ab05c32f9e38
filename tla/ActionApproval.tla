--------------------------- MODULE ActionApproval ---------------------------
(***************************************************************************)
(* Human approval of an action: the action_proposals of                    *)
(* app/reviews/repository.py, the durable jobs that carry a proposal's     *)
(* approval card, execution and outcome card, and the processes of         *)
(* app/workers/action_approval_worker.py that work them off, calling       *)
(* app/core/approved_action_execution.py and                               *)
(* app/services/discord/approval_delivery.py.                              *)
(*                                                                         *)
(* A repository call that first runs expire_due is one action: expire_due  *)
(* commits on its own, and ExpireDue below is also an action of its own.   *)
(* Batches are larger than the number of jobs, retry delays elapse at      *)
(* once, and no job of these types has a total deadline.                   *)
(***************************************************************************)
EXTENDS JobRows, FiniteSets

CONSTANTS Proposals,
          Local,                 \* proposals decided in the task workspace
          MaxDeliveryAttempts,   \* max_attempts of both card jobs
          MaxExecutionAttempts,  \* max_attempts of the execution job
          MaxOperatorCalls       \* bound: cancel and requeue calls

ASSUME LocalAssumption == Local \subseteq Proposals
ASSUME BudgetAssumption ==
    /\ MaxDeliveryAttempts \in Nat \ {0}
    /\ MaxExecutionAttempts \in Nat \ {0}
    /\ MaxOperatorCalls \in Nat

VARIABLES proposal,  \* action_proposals
          job,       \* durable_jobs, one row per proposal and kind
          effects,   \* how often each proposal's action took effect
          held,      \* the claims each worker process has yet to settle
          pc,        \* where each worker process is
          current,   \* the claim it works on
          answer,    \* what the dispatched action answered
          calls      \* operator calls made

vars == <<proposal, job, effects, held, pc, current, answer, calls>>

Kinds == {"notification", "execution", "outcome"}
Jobs == Proposals \X Kinds
Cards == {"notification", "outcome"}

Closed == {"executed", "denied", "failed_terminal"}
States == {"absent", "pending", "approved", "executing", "rejected",
           "expired", "superseded", "canceled"} \cup Closed

(* fence is execution_fencing_token (0 for NULL), overdue says that        *)
(* expires_at has passed, cards holds the kinds of card whose message ids  *)
(* are recorded.                                                           *)
Proposal == [state: States, fence: Nat, overdue: BOOLEAN,
             cards: SUBSET Cards]

Claims == [job: Jobs, token: Nat]
NoClaim == [job |-> <<>>, token |-> 0]

Steps == {"next", "poll_execution", "poll_outcome", "send", "mark", "begin",
          "check", "finish", "complete", "retry", "dead_letter"}

Answers == {"denied", "retryable", "raised", "no_receipt", "receipt"}

TypeOK ==
    /\ proposal \in [Proposals -> Proposal]
    /\ job \in [Jobs -> Row]
    /\ effects \in [Proposals -> Nat]
    /\ held \in [Workers -> SUBSET Claims]
    /\ pc \in [Workers -> Steps]
    /\ current \in [Workers -> Claims \cup {NoClaim}]
    /\ answer \in [Workers -> Answers \cup {None}]
    /\ calls \in Nat

Init ==
    /\ proposal = [p \in Proposals |-> [state |-> "absent", fence |-> 0,
                                        overdue |-> FALSE, cards |-> {}]]
    /\ job = [j \in Jobs |-> AbsentRow]
    /\ effects = [p \in Proposals |-> 0]
    /\ held = [w \in Workers |-> {}]
    /\ pc = [w \in Workers |-> "next"]
    /\ current = [w \in Workers |-> NoClaim]
    /\ answer = [w \in Workers |-> None]
    /\ calls = 0

MaxAttempts(k) == IF k = "execution" THEN MaxExecutionAttempts
                  ELSE MaxDeliveryAttempts

workerVars == <<held, pc, current, answer>>

----------------------------------------------------------------------------
(* Human Review *)

Expired(r) ==
    IF r.overdue /\ r.state \in {"pending", "approved"}
    THEN [r EXCEPT !.state = "expired"] ELSE r

Dropped(r) == IF r.status \in Waiting THEN CancelRequested(r) ELSE r

(* The job kind that waits for a proposal in each state. *)
WaitingKind(s) == IF s = "pending" THEN "notification" ELSE "execution"

Expires(p) == Expired(proposal[p]) # proposal[p]

ExpiredProposals == [p \in Proposals |-> Expired(proposal[p])]

ExpiredJobs ==
    [j \in Jobs |->
        IF Expires(j[1]) /\ j[2] = WaitingKind(proposal[j[1]].state)
        THEN Dropped(job[j]) ELSE job[j]]

(* Every read of proposals through the repository. *)
ExpireDue ==
    /\ proposal' = ExpiredProposals
    /\ job' = ExpiredJobs
    /\ UNCHANGED <<effects, calls>> /\ UNCHANGED workerVars

SetState(p, s) ==
    proposal' = [ExpiredProposals EXCEPT ![p] = [@ EXCEPT !.state = s]]

CreateActionProposal(p) ==
    /\ proposal[p].state = "absent"
    /\ proposal' = [proposal EXCEPT ![p] = [@ EXCEPT !.state = "pending"]]
    /\ job' = IF p \in Local THEN job
              ELSE [job EXCEPT ![<<p, "notification">>] = Enqueued(@, TRUE)]
    /\ UNCHANGED <<effects, calls>> /\ UNCHANGED workerVars

(* Variant: the card need not be recorded. *)
DecidableUnseen(p) == Expired(proposal[p]).state = "pending"

Decidable(p) ==
    /\ Expired(proposal[p]).state = "pending"
    /\ p \in Local \/ "notification" \in proposal[p].cards

Approve(p) ==
    /\ Decidable(p)
    /\ SetState(p, "approved")
    /\ job' = [ExpiredJobs EXCEPT ![<<p, "execution">>] = Enqueued(@, TRUE)]
    /\ UNCHANGED <<effects, calls>> /\ UNCHANGED workerVars

Reject(p) ==
    /\ Decidable(p)
    /\ SetState(p, "rejected")
    /\ job' = ExpiredJobs
    /\ UNCHANGED <<effects, calls>> /\ UNCHANGED workerVars

(* Leaves the notification job to find the proposal not pending. *)
Supersede(p) ==
    /\ proposal[p].state = "pending"
    /\ proposal' = [proposal EXCEPT ![p] = [@ EXCEPT !.state = "superseded"]]
    /\ UNCHANGED <<job, effects, calls>> /\ UNCHANGED workerVars

(* Variant: also once the execution has begun. *)
CancelableLate(p) == proposal[p].state \in {"approved", "executing"}

Cancelable(p) ==
    /\ proposal[p].state = "approved"
    /\ job[<<p, "execution">>].status \in Waiting \cup {"cancelled"}

CancelApprovedAction(p) ==
    /\ Cancelable(p)
    /\ proposal' = [proposal EXCEPT ![p] = [@ EXCEPT !.state = "canceled"]]
    /\ job' = [job EXCEPT ![<<p, "execution">>] = Dropped(@)]
    /\ UNCHANGED <<effects, calls>> /\ UNCHANGED workerVars

----------------------------------------------------------------------------
(* The operator's job controls (app/api/routes/jobs.py) *)

OperatorSets(j, r) ==
    /\ calls < MaxOperatorCalls
    /\ calls' = calls + 1
    /\ job' = [job EXCEPT ![j] = r]
    /\ UNCHANGED <<proposal, effects>> /\ UNCHANGED workerVars

CancelJob(j) ==
    /\ CancelRequested(job[j]) # job[j]
    /\ OperatorSets(j, CancelRequested(job[j]))

RequeueJob(j) ==
    /\ CanRequeue(job[j])
    /\ OperatorSets(j, Requeued(job[j], TRUE))

----------------------------------------------------------------------------
(* The worker: run_once claims jobs of the three kinds in three            *)
(* transactions and works them off in the same order.                      *)

Goto(w, step) == pc' = [pc EXCEPT ![w] = step]

SweptJobs == [j \in Jobs |-> Swept(job[j], MaxAttempts(j[2]))]

Candidates(k) ==
    {j \in Proposals \X {k} : Claimable(SweptJobs[j], MaxAttempts(k))}

ClaimJobs(w, k) ==
    /\ job' = [j \in Jobs |-> IF j \in Candidates(k)
                              THEN Claimed(SweptJobs[j], w)
                              ELSE SweptJobs[j]]
    /\ held' = [held EXCEPT ![w] = @ \cup
            {[job |-> j, token |-> job[j].token + 1] : j \in Candidates(k)}]
    /\ UNCHANGED <<proposal, effects, current, answer, calls>>

PollNotification(w) ==
    /\ pc[w] = "next" /\ held[w] = {}
    /\ ClaimJobs(w, "notification") /\ Goto(w, "poll_execution")

PollExecution(w) ==
    /\ pc[w] = "poll_execution"
    /\ ClaimJobs(w, "execution") /\ Goto(w, "poll_outcome")

PollOutcome(w) ==
    /\ pc[w] = "poll_outcome"
    /\ ClaimJobs(w, "outcome") /\ Goto(w, "next")

Kind(c) == c.job[2]

IsNext(w, c) ==
    /\ c \in held[w]
    /\ \A d \in held[w] :
          /\ Kind(d) = "notification" => Kind(c) = "notification"
          /\ Kind(d) = "execution" => Kind(c) # "outcome"

(* get_action_proposal runs expire_due and reads the row; the worker acts  *)
(* on what it read.                                                        *)
Take(w, c, k) ==
    /\ pc[w] = "next" /\ IsNext(w, c) /\ Kind(c) = k
    /\ current' = [current EXCEPT ![w] = c]
    /\ proposal' = ExpiredProposals
    /\ job' = ExpiredJobs
    /\ UNCHANGED <<effects, held, answer, calls>>

(* ApprovalDelivery.deliver: the destination of the card may also be       *)
(* unavailable (a retry) or have changed (the job is given up).            *)
TakeNotification(w, c) ==
    LET r == Expired(proposal[c.job[1]])
    IN  /\ Take(w, c, "notification")
        /\ IF "notification" \in r.cards THEN Goto(w, "complete")
           ELSE IF r.state # "pending" THEN Goto(w, "dead_letter")
           ELSE \E step \in {"send", "retry", "dead_letter"} : Goto(w, step)

TakeOutcome(w, c) ==
    LET r == proposal[c.job[1]]
    IN  /\ Take(w, c, "outcome")
        /\ IF "outcome" \in r.cards THEN Goto(w, "complete")
           ELSE \E step \in {"send", "retry", "dead_letter"} : Goto(w, step)

(* The gateway may also report a failure, whether or not Discord has       *)
(* posted the message.                                                     *)
Send(w) ==
    /\ pc[w] = "send"
    /\ \E step \in {"mark", "retry"} : Goto(w, step)
    /\ UNCHANGED <<proposal, job, effects, held, current, answer, calls>>

(* A card recorded in the meantime, with another message id, or a          *)
(* proposal that is no longer pending, makes the call fail.                *)
Markable(p, k) ==
    /\ k \notin proposal[p].cards
    /\ proposal[p].state \in
           IF k = "notification" THEN {"pending"} ELSE Closed

MarkDelivered(w) ==
    LET p == current[w].job[1]
        k == Kind(current[w])
    IN  /\ pc[w] = "mark"
        /\ IF Markable(p, k)
           THEN /\ proposal' = [proposal EXCEPT
                        ![p].cards = @ \cup {k}]
                /\ Goto(w, "complete")
           ELSE UNCHANGED proposal /\ Goto(w, "retry")
        /\ UNCHANGED <<job, effects, held, current, answer, calls>>

(* Variant: resumes an execution whose worker lost its lease. *)
TakeExecutionResumes(w, c) ==
    LET s == Expired(proposal[c.job[1]]).state
    IN  /\ Take(w, c, "execution")
        /\ Goto(w, CASE s = "approved" -> "begin"
                     [] s = "executing" -> "check"
                     [] OTHER -> "complete")

(* ApprovedActionExecutionService.execute, up to its first write.          *)
TakeExecution(w, c) ==
    LET s == Expired(proposal[c.job[1]]).state
    IN  /\ Take(w, c, "execution")
        /\ Goto(w, CASE s = "approved" -> "begin"
                     [] s = "executing" -> "dead_letter"
                     [] OTHER -> "complete")

HoldsLease(w, j, t) ==
    job[j].status = "running" /\ job[j].owner = w /\ job[j].token = t

(* begin_action_execution.  A proposal executed in the meantime is handed  *)
(* out without its arguments, and the attempt to deny it fails.            *)
BeginActionExecution(w) ==
    LET c == current[w]
        p == c.job[1]
        s == Expired(proposal[p]).state
    IN  /\ pc[w] = "begin"
        /\ job' = ExpiredJobs
        /\ IF s = "approved" /\ HoldsLease(w, c.job, c.token)
           THEN /\ proposal' = [ExpiredProposals EXCEPT
                        ![p] = [@ EXCEPT !.state = "executing",
                                         !.fence = c.token]]
                /\ Goto(w, "check")
           ELSE /\ proposal' = ExpiredProposals
                /\ Goto(w, IF s = "executed" THEN "dead_letter"
                           ELSE "complete")
        /\ UNCHANGED <<effects, held, current, answer, calls>>

(* Variant: committed_effect of a retryable answer is not looked at. *)
MayCommitOnRetry(a) == a # "denied"

(* The executor answers that it denied the call or that a retry is safe    *)
(* only when nothing was committed, and gives a receipt only for a commit. *)
MayCommit(a) == a \in {"receipt", "no_receipt", "raised"}
MayNotCommit(a) == a # "receipt"

(* Reauthorization, which may deny the call, and the dispatch.             *)
Dispatch(w, a, commits) ==
    LET p == current[w].job[1]
    IN  /\ pc[w] = "check"
        /\ IF commits THEN MayCommit(a) ELSE MayNotCommit(a)
        /\ effects' = IF commits THEN [effects EXCEPT ![p] = @ + 1]
                      ELSE effects
        /\ answer' = [answer EXCEPT ![w] = a]
        /\ Goto(w, "finish")
        /\ UNCHANGED <<proposal, job, held, current, calls>>

(* Variant: a missing receipt does not matter. *)
OutcomeWithoutReceipt(a) ==
    CASE a = "denied" -> "denied"
      [] a \in {"receipt", "no_receipt"} -> "executed"
      [] a = "raised" -> "failed_terminal"

Outcome(a) == CASE a = "denied" -> "denied"
                [] a = "receipt" -> "executed"
                [] a \in {"raised", "no_receipt"} -> "failed_terminal"

(* What finish_action_execution and retry_action_execution_after_no_effect *)
(* ask of the proposal and of the job before they write.                   *)
MayFinish(w, c) ==
    /\ proposal[c.job[1]].state = "executing"
    /\ proposal[c.job[1]].fence = c.token
    /\ HoldsLease(w, c.job, c.token)

FinishActionExecution(w) ==
    LET c == current[w]
        p == c.job[1]
    IN  /\ pc[w] = "finish" /\ answer[w] # "retryable"
        /\ IF MayFinish(w, c)
           THEN /\ proposal' = [proposal EXCEPT
                        ![p] = [@ EXCEPT !.state = Outcome(answer[w])]]
                /\ job' = IF p \in Local THEN job
                          ELSE [job EXCEPT ![<<p, "outcome">>] =
                                    Enqueued(@, TRUE)]
                /\ Goto(w, "complete")
           ELSE UNCHANGED <<proposal, job>> /\ Goto(w, "dead_letter")
        /\ answer' = [answer EXCEPT ![w] = None]
        /\ UNCHANGED <<effects, held, current, calls>>

(* Variants: the job is settled as done; the fence becomes NULL; the       *)
(* requester is told although the execution is going to be repeated.       *)
RetrySettlesJob(w) ==
    LET c == current[w]
    IN  /\ pc[w] = "finish" /\ answer[w] = "retryable"
        /\ MayFinish(w, c)
        /\ proposal' = [proposal EXCEPT ![c.job[1]] =
                [@ EXCEPT !.state = "approved", !.fence = 0]]
        /\ Goto(w, "complete")
        /\ answer' = [answer EXCEPT ![w] = None]
        /\ UNCHANGED <<job, effects, held, current, calls>>

RetryNullsFence(w) ==
    LET c == current[w]
    IN  /\ pc[w] = "finish" /\ answer[w] = "retryable"
        /\ MayFinish(w, c)
        /\ proposal' = [proposal EXCEPT ![c.job[1]] =
                [@ EXCEPT !.state = "approved", !.fence = None]]
        /\ Goto(w, "retry")
        /\ answer' = [answer EXCEPT ![w] = None]
        /\ UNCHANGED <<job, effects, held, current, calls>>

RetryTellsRequester(w) ==
    LET c == current[w]
    IN  /\ pc[w] = "finish" /\ answer[w] = "retryable"
        /\ MayFinish(w, c)
        /\ proposal' = [proposal EXCEPT ![c.job[1]] =
                [@ EXCEPT !.state = "approved", !.fence = 0]]
        /\ job' = [job EXCEPT ![<<c.job[1], "outcome">>] = Enqueued(@, TRUE)]
        /\ Goto(w, "retry")
        /\ answer' = [answer EXCEPT ![w] = None]
        /\ UNCHANGED <<effects, held, current, calls>>

RetryAfterNoEffect(w) ==
    LET c == current[w]
    IN  /\ pc[w] = "finish" /\ answer[w] = "retryable"
        /\ IF MayFinish(w, c)
           THEN /\ proposal' = [proposal EXCEPT ![c.job[1]] =
                        [@ EXCEPT !.state = "approved", !.fence = 0]]
                /\ Goto(w, "retry")
           ELSE UNCHANGED proposal /\ Goto(w, "dead_letter")
        /\ answer' = [answer EXCEPT ![w] = None]
        /\ UNCHANGED <<job, effects, held, current, calls>>

(* An unexpected exception: a delivery is retried, an execution is given   *)
(* up, whatever it had done.                                               *)
Raise(w) ==
    /\ \/ pc[w] \in {"send", "mark"} /\ Goto(w, "retry")
       \/ pc[w] \in {"begin", "check", "finish"} /\ Goto(w, "dead_letter")
    /\ answer' = [answer EXCEPT ![w] = None]
    /\ UNCHANGED <<proposal, job, effects, held, current, calls>>

(* The worker goes on to its next claim; when the settling statement finds *)
(* that the lease is lost, the exception ends the process, and with it the *)
(* rest of the batch.                                                      *)
Settle(w, can, r) ==
    LET c == current[w]
    IN  /\ IF can THEN job' = [job EXCEPT ![c.job] = r] ELSE UNCHANGED job
        /\ held' = [held EXCEPT ![w] = IF can THEN @ \ {c} ELSE {}]
        /\ current' = [current EXCEPT ![w] = NoClaim]
        /\ Goto(w, "next")
        /\ UNCHANGED <<proposal, effects, answer, calls>>

Complete(w) ==
    LET c == current[w]
        r == job[c.job]
    IN  pc[w] = "complete" /\ Settle(w, CanComplete(r, w, c.token), Completed(r))

Retry(w) ==
    LET c == current[w]
        r == job[c.job]
    IN  /\ pc[w] = "retry"
        /\ Settle(w, CanRetry(r, w, c.token),
                  Retried(r, MaxAttempts(Kind(c)), TRUE))

DeadLetter(w) ==
    LET c == current[w]
        r == job[c.job]
    IN  /\ pc[w] = "dead_letter"
        /\ Settle(w, CanDeadLetter(r, w, c.token), DeadLettered(r))

Crash(w) ==
    /\ held[w] # {}
    /\ held' = [held EXCEPT ![w] = {}]
    /\ current' = [current EXCEPT ![w] = NoClaim]
    /\ answer' = [answer EXCEPT ![w] = None]
    /\ Goto(w, "next")
    /\ UNCHANGED <<proposal, job, effects, calls>>

----------------------------------------------------------------------------
(* The clock *)

LeaseExpires(j) ==
    /\ job[j].status = "running" /\ ~job[j].expired
    /\ job' = [job EXCEPT ![j] = [@ EXCEPT !.expired = TRUE]]
    /\ UNCHANGED <<proposal, effects, calls>> /\ UNCHANGED workerVars

ApprovalRunsOut(p) ==
    /\ proposal[p].state # "absent" /\ ~proposal[p].overdue
    /\ proposal' = [proposal EXCEPT ![p] = [@ EXCEPT !.overdue = TRUE]]
    /\ UNCHANGED <<job, effects, calls>> /\ UNCHANGED workerVars

----------------------------------------------------------------------------
Human(p) ==
    \/ CreateActionProposal(p)
    \/ Approve(p)
    \/ Reject(p)
    \/ Supersede(p)
    \/ CancelApprovedAction(p)

Poll(w) == PollNotification(w) \/ PollExecution(w) \/ PollOutcome(w)

Work(w) ==
    \/ \E c \in held[w] : \/ TakeNotification(w, c)
                          \/ TakeExecution(w, c)
                          \/ TakeOutcome(w, c)
    \/ Send(w)
    \/ MarkDelivered(w)
    \/ BeginActionExecution(w)
    \/ \E a \in Answers, commits \in BOOLEAN : Dispatch(w, a, commits)
    \/ FinishActionExecution(w)
    \/ RetryAfterNoEffect(w)
    \/ Complete(w)
    \/ Retry(w)
    \/ DeadLetter(w)

Next ==
    \/ \E p \in Proposals : Human(p) \/ ApprovalRunsOut(p)
    \/ ExpireDue
    \/ \E j \in Jobs : CancelJob(j) \/ RequeueJob(j) \/ LeaseExpires(j)
    \/ \E w \in Workers : Poll(w) \/ Work(w) \/ Raise(w) \/ Crash(w)

Spec == Init /\ [][Next]_vars

(* A lease whose worker has crashed or gone on runs out, a worker keeps    *)
(* polling and does not stay in one step for ever.                         *)
Abandoned(j) == \A w \in Workers : \A c \in held[w] : c.job # j

Fairness ==
    /\ \A j \in Jobs : WF_vars(LeaseExpires(j) /\ Abandoned(j))
    /\ \A w \in Workers : WF_vars(Poll(w) \/ Work(w))

FairSpec == Spec /\ Fairness

----------------------------------------------------------------------------
(* Properties *)

Dispatching(w, p) ==
    /\ pc[w] \in {"check", "finish"}
    /\ current[w].job = <<p, "execution">>

(* An approved action takes effect at most once, whatever leases run out,  *)
(* processes die, jobs are requeued or retries the executor asks for.      *)
AtMostOneEffect == \A p \in Proposals : effects[p] <= 1

(* Two processes never work on the effect of one proposal together, even   *)
(* when the lease of the first has been taken over by the second.          *)
OneDispatcher ==
    \A v, w \in Workers, p \in Proposals :
        Dispatching(v, p) /\ Dispatching(w, p) => v = w

(* A human who rejected, cancelled or let lapse an action, or was told     *)
(* that it was denied, is told the truth: it has had no effect and nobody  *)
(* is about to cause one.                                                  *)
WithdrawnIsInert ==
    \A p \in Proposals :
        proposal[p].state \in {"pending", "rejected", "expired",
                               "superseded", "canceled", "denied"} =>
            effects[p] = 0 /\ \A w \in Workers : ~Dispatching(w, p)

(* The job of an approved proposal is not completed before the proposal    *)
(* has left approved: an approval cannot be lost between the two rows.     *)
ApprovedKeepsItsJob ==
    \A p \in Proposals :
        proposal[p].state = "approved" =>
            job[<<p, "execution">>].status \notin {"absent", "completed"}

(* Nobody decides on Discord what was not shown there: an approval card    *)
(* that reached the channel is recorded before the decision it asks for.   *)
DecidedWasShown ==
    \A p \in Proposals \ Local :
        proposal[p].state \in {"approved", "executing", "rejected"} \cup Closed
            => "notification" \in proposal[p].cards

(* An outcome is announced as soon as there is one, and what the outcome   *)
(* card says stays true: no worker is about to change a state that         *)
(* another one is telling Discord.                                         *)
Telling(w, p) ==
    /\ pc[w] \in {"send", "mark"}
    /\ current[w].job = <<p, "outcome">>

OutcomeStaysTrue ==
    /\ \A p \in Proposals \ Local :
           job[<<p, "outcome">>].status # "absent" <=>
               proposal[p].state \in Closed
    /\ \A v, w \in Workers, p \in Proposals :
           ~(Telling(v, p) /\ Dispatching(w, p))

(* The proposals keep the lifecycle of the documentation.                  *)
LifeView == [p \in Proposals |-> [state |-> proposal[p].state,
                                  effects |-> effects[p]]]

Lifecycle == INSTANCE ProposalLifecycle WITH life <- LifeView

LifecycleSpec == Lifecycle!Spec

(* The inductive invariant behind the lifecycle.  Claims in memory are     *)
(* numbered like the leases they were granted with and are nobody else's;  *)
(* a worker holds the claim it works on; and the worker between            *)
(* begin_action_execution and the write that ends it is the one whose      *)
(* token the executing proposal carries.                                   *)
RowsOK == \A j \in Jobs : job[j].status = "absent" => job[j] = AbsentRow

ClaimsOK ==
    \A w \in Workers : \A c \in held[w] :
        /\ c.token \in 1 .. job[c.job].token
        /\ \A v \in Workers \ {w} : c \notin held[v]

Idle == {"next", "poll_execution", "poll_outcome"}
Executing == {"begin", "check", "finish"}
Delivering == {"send", "mark"}

CurrentOK ==
    \A w \in Workers :
        /\ pc[w] \notin Idle => current[w] \in held[w]
        /\ pc[w] \in Executing => Kind(current[w]) = "execution"
        /\ pc[w] \in Delivering => Kind(current[w]) \in Cards
        /\ pc[w] = "finish" => answer[w] \in Answers

Agrees(a, n) ==
    /\ a \in {"denied", "retryable"} => n = 0
    /\ a = "receipt" => n = 1

DispatchOK ==
    \A w \in Workers :
        LET p == current[w].job[1]
        IN  /\ pc[w] \in {"check", "finish"} =>
                  /\ proposal[p].state = "executing"
                  /\ proposal[p].fence = current[w].token
            /\ pc[w] = "check" => effects[p] = 0
            /\ pc[w] = "finish" => Agrees(answer[w], effects[p])

EffectsOK ==
    \A p \in Proposals :
        /\ effects[p] \in 0 .. 1
        /\ effects[p] = 1 => proposal[p].state \in
                {"executing", "executed", "failed_terminal"}

IInv == TypeOK /\ RowsOK /\ ClaimsOK /\ CurrentOK /\ DispatchOK /\ EffectsOK

(* An approval is worked on until the proposal leaves approved or its job  *)
(* has come to an end.                                                     *)
ApprovalIsResolved ==
    \A p \in Proposals :
        proposal[p].state = "approved" ~>
            \/ proposal[p].state # "approved"
            \/ job[<<p, "execution">>].status \in Terminal

(* "exhausted non-effect failure sets failed_terminal"                     *)
(* (docs/reasoning-led-capability-execution-plan.md:464): when the last    *)
(* attempt ends with an answer that asks for a retry, the proposal does    *)
(* not stay approved.  The code does not keep this (README).               *)
ExhaustionIsTerminal ==
    [][\A w \in Workers, p \in Proposals :
          /\ pc[w] = "retry" /\ current[w].job = <<p, "execution">>
          /\ job[<<p, "execution">>].status = "running"
          /\ job'[<<p, "execution">>].status = "dead_letter"
          => proposal'[p].state # "approved"]_vars

(* The jobs of the three kinds keep the promises of JobLedger: expire_due, *)
(* the decisions of app/reviews/repository.py, the operator and the        *)
(* workers all rewrite them by lawful moves.                               *)
JobsView == [j \in Jobs |-> LedgerEntry(job[j])]

Ledger == INSTANCE JobLedger WITH ledger <- JobsView

LedgerSpec == Ledger!Spec
=============================================================================
