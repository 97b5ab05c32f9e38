---------------------------- MODULE TicketReview ----------------------------
(***************************************************************************)
(* The review worker of app/workers/ticket_review_worker.py with           *)
(* review_service.py and remediation_service.py, over the ticket ledger    *)
(* and the user's turns of ActionTickets.  The deployment runs one such    *)
(* process; it takes one job at a time and passes no fencing token.        *)
(***************************************************************************)
EXTENDS ActionTickets

ASSUME ReviewerAssumption == Workers # {}

Reviewer == CHOOSE w \in Workers : TRUE

WkPc == {"idle", "look", "act", "schedule", "clear",
         "open", "verifying", "judge", "conclude", "excuse", "retry",
         "escalate", "close",
         "repair", "child", "parent", "promise", "dispatch", "fail"}

IdleWk == [pc |-> "idle", alarm |-> None, key |-> None, plan |-> "",
           rev |-> {}]

WkGoto(pc) == wk' = [wk EXCEPT !.pc = pc]

(* A transition and, when it is refused, where its exception is caught. *)
Try(t, s, next, caught) ==
    IF CanMove(t, s) THEN SetStatus(t, s) /\ WkGoto(next)
                     ELSE UNCHANGED ticket /\ WkGoto(caught)

TypeOK ==
    /\ ticket \in [Tickets -> [status: Status, manifest: SUBSET Effects,
                               receipts: SUBSET Effects, rev: SUBSET Effects,
                               outcome: [Effects -> Outcomes]]]
    /\ watch \in [Alarms -> Row]
    /\ review \in [Reviews -> Row]
    /\ runs \subseteq [key: Reviews, attempt: Nat, seen: SUBSET Effects]
    /\ turn \in [pc: TurnPc, n: Nat, direct: BOOLEAN, seen: SUBSET Effects,
                 agg: {"", "no_manifest", "queued", "completed", "partial",
                       "failed"}]
    /\ bound \in BOOLEAN
    /\ wk.pc \in WkPc /\ wk.rev \subseteq Effects
    /\ crashes \in [api: Nat, worker: Nat]

Init ==
    /\ ticket = [t \in Tickets |-> NewTicket]
    /\ watch = [a \in Alarms |-> AbsentRow]
    /\ review = [k \in Reviews |-> AbsentRow]
    /\ runs = {}
    /\ turn = NoTurn
    /\ bound = FALSE
    /\ wk = IdleWk
    /\ crashes = [api |-> 0, worker |-> 0]

----------------------------------------------------------------------------
(* claim_jobs sweeps the whole table, whatever it then claims. *)
SweptWatch == [a \in Alarms |-> Swept(watch[a], 1)]

(* Mutant: only the watchdogs are swept. *)
SweptReviewNever == review

SweptReview == [k \in Reviews |-> Swept(review[k], MaxAttempts)]

ClaimWatch(a) ==
    /\ wk.pc = "idle"
    /\ Claimable(SweptWatch[a], 1)
    /\ watch' = [SweptWatch EXCEPT ![a] = Claimed(@, Reviewer)]
    /\ review' = SweptReview
    /\ wk' = [IdleWk EXCEPT !.pc = "look", !.alarm = a]
    /\ UNCHANGED <<ticket, runs, turn, bound, crashes>>

(* run_once takes the watchdogs that are due first. *)
ClaimReview(k) ==
    /\ wk.pc = "idle"
    /\ \A a \in Alarms : ~Claimable(SweptWatch[a], 1)
    /\ Claimable(SweptReview[k], MaxAttempts)
    /\ review' = [SweptReview EXCEPT ![k] = Claimed(@, Reviewer)]
    /\ watch' = SweptWatch
    /\ wk' = [IdleWk EXCEPT !.pc = "open", !.key = k]
    /\ UNCHANGED <<ticket, runs, turn, bound, crashes>>

PollNothing ==
    /\ wk.pc = "idle"
    /\ watch' = SweptWatch
    /\ review' = SweptReview
    /\ UNCHANGED <<ticket, runs, turn, bound, wk, crashes>>

----------------------------------------------------------------------------
(* A watchdog job *)

Alarmed == TicketOf(wk.alarm)

(* Mutant: an execution without receipts is left alone. *)
FindingQuiet(t) ==
    IF ticket[t].status = "executing" /\ Receipts(t) # {} THEN "verify"
                                                         ELSE "clear"

(* What the watchdog makes of the ticket it reads. *)
Finding(t) ==
    LET s == ticket[t].status
        effects == Reduced(t)
    IN  IF s \notin {"captured", "executing", "reconciliation_required"}
        THEN "clear"
        ELSE CASE effects = "completed" -> "verify"
               [] effects = "failed" -> "escalated"
               [] effects \in {"queued", "partial"} -> "reconciliation_required"
               [] effects = "no_manifest" ->
                    IF s = "reconciliation_required" THEN "clear"
                    ELSE IF Receipts(t) # {} THEN "verify"
                    ELSE "reconciliation_required"

Look ==
    /\ wk.pc = "look"
    /\ wk' = [wk EXCEPT !.plan = Finding(Alarmed), !.rev = Receipts(Alarmed),
                 !.pc = IF Finding(Alarmed) = "clear" THEN "clear" ELSE "act"]
    /\ UNCHANGED <<ticket, watch, review, runs, turn, bound, crashes>>

Act ==
    /\ wk.pc = "act"
    /\ IF wk.plan = "verify"
       THEN TransitionRev(Alarmed, "executing", wk.rev) /\ WkGoto("schedule")
       ELSE Transition(Alarmed, wk.plan) /\ WkGoto("clear")
    /\ UNCHANGED <<watch, review, runs, turn, bound, crashes>>

WatchSchedules ==
    /\ wk.pc = "schedule"
    /\ Schedule(Alarmed, wk.rev)
    /\ WkGoto("clear")
    /\ UNCHANGED <<watch, runs, turn, bound, crashes>>

ClearWatch ==
    /\ wk.pc = "clear"
    /\ watch' = IF CanComplete(watch[wk.alarm], Reviewer, NoToken)
                THEN [watch EXCEPT ![wk.alarm] = Completed(@)] ELSE watch
    /\ wk' = IdleWk
    /\ UNCHANGED <<ticket, review, runs, turn, bound, crashes>>

----------------------------------------------------------------------------
(* A review job: process_job *)

Reviewed == wk.key[1]

(* Mutant: only the revision is compared. *)
ReviewableByRevision == ticket[Reviewed].rev = wk.key[2]

Reviewable ==
    /\ ticket[Reviewed].rev = wk.key[2]
    /\ ticket[Reviewed].status \in {"verification_pending", "verifying"}

Open ==
    /\ wk.pc = "open"
    /\ WkGoto(IF Reviewable THEN "verifying" ELSE "close")
    /\ UNCHANGED <<ticket, watch, review, runs, turn, bound, crashes>>

MarkVerifying ==
    /\ wk.pc = "verifying"
    /\ Try(Reviewed, "verifying", "judge", "retry")
    /\ UNCHANGED <<watch, review, runs, turn, bound, crashes>>

(* The attempt number of the claimed job, part of the key of its run. *)
Attempt == review[wk.key].attempts

(* The verifiers and the model decide; a repair needs an allowed policy. *)
Verdicts(t) ==
    {"verified", "superseded", "unverifiable"} \cup
    IF t = Root THEN {"reconciliation_required", "repair"} ELSE {"escalated"}

Judge(v) ==
    /\ wk.pc = "judge"
    /\ v \in Verdicts(Reviewed)
    /\ wk' = [wk EXCEPT !.plan = v,
                 !.pc = IF v = "repair" THEN "repair" ELSE "conclude"]
    /\ runs' = runs \cup {[key |-> wk.key, attempt |-> Attempt,
                           seen |-> Receipts(Reviewed)]}
    /\ UNCHANGED <<ticket, watch, review, turn, bound, crashes>>

(* A verifier or the model raises. *)
ReviewFails ==
    /\ wk.pc = "judge"
    /\ WkGoto("excuse")
    /\ UNCHANGED <<ticket, watch, review, runs, turn, bound, crashes>>

Conclude ==
    /\ wk.pc = "conclude"
    /\ Try(Reviewed, wk.plan, "close", "excuse")
    /\ UNCHANGED <<watch, review, runs, turn, bound, crashes>>

(* Caught: the run has failed and loses its evidence, and the ticket goes   *)
(* back to verification_pending; if even that is refused the job is retried *)
(* all the same.                                                            *)
Excuse ==
    /\ wk.pc = "excuse"
    /\ runs' = {r \in runs : r.key # wk.key \/ r.attempt # Attempt}
    /\ IF CanMove(Reviewed, "verification_pending")
       THEN SetStatus(Reviewed, "verification_pending") ELSE UNCHANGED ticket
    /\ WkGoto("retry")
    /\ UNCHANGED <<watch, review, turn, bound, crashes>>

RetryReview ==
    /\ wk.pc = "retry"
    /\ LET row == review[wk.key]
           new == IF CanRetry(row, Reviewer, NoToken)
                  THEN Retried(row, MaxAttempts, FALSE) ELSE row
       IN  /\ review' = [review EXCEPT ![wk.key] = new]
           /\ wk' = IF new.status = "dead_letter"
                    THEN [wk EXCEPT !.pc = "escalate"] ELSE IdleWk
    /\ UNCHANGED <<ticket, watch, runs, turn, bound, crashes>>

Escalate ==
    /\ wk.pc = "escalate"
    /\ Transition(Reviewed, "escalated")
    /\ wk' = IdleWk
    /\ UNCHANGED <<watch, review, runs, turn, bound, crashes>>

CloseReview ==
    /\ wk.pc = "close"
    /\ review' = IF CanComplete(review[wk.key], Reviewer, NoToken)
                 THEN [review EXCEPT ![wk.key] = Completed(@)] ELSE review
    /\ wk' = IdleWk
    /\ UNCHANGED <<ticket, watch, runs, turn, bound, crashes>>

----------------------------------------------------------------------------
(* RemediationService.execute *)

Repairing(pc) ==
    /\ wk.pc = pc
    /\ UNCHANGED <<review, runs, turn, bound, crashes>>

(* An existing child with receipts is returned as it is. *)
CreateChild ==
    /\ Repairing("repair")
    /\ ticket' = IF ticket[Repair].status = "absent"
                 THEN [ticket EXCEPT ![Repair].status = "captured"] ELSE ticket
    /\ WkGoto(IF Receipts(Repair) # {} THEN "close" ELSE "child")
    /\ UNCHANGED watch

StartChild ==
    /\ Repairing("child")
    /\ Try(Repair, "executing", "parent", "excuse")
    /\ UNCHANGED watch

MarkParent ==
    /\ Repairing("parent")
    /\ Try(Root, "remediation_queued", "promise", "excuse")
    /\ UNCHANGED watch

PromiseRepair ==
    /\ Repairing("promise")
    /\ ticket' = Reserved(Repair, {RepairChild})
    /\ WkGoto("dispatch")
    /\ UNCHANGED watch

(* The gateway's answer: a receipt, a denial, or nothing to rely on. *)
Dispatch ==
    /\ Repairing("dispatch")
    /\ \/ RecordChild(Repair, RepairChild, "verified") /\ WkGoto("close")
       \/ RecordChild(Repair, RepairChild, "failed") /\ WkGoto("fail")
       \/ UNCHANGED <<ticket, watch>> /\ WkGoto("fail")

FailClosed ==
    /\ Repairing("fail")
    /\ Try(Repair, "reconciliation_required", "close", "excuse")
    /\ UNCHANGED watch

----------------------------------------------------------------------------
(* The transitions that nothing guards: the process ends, is restarted, and *)
(* the lease of its job runs out.                                           *)
Refused ==
    \/ /\ wk.pc = "act"
       /\ ~CanMove(Alarmed, IF wk.plan = "verify" THEN "executing" ELSE wk.plan)
    \/ wk.pc = "escalate" /\ ~CanMove(Reviewed, "escalated")

WorkerRaises ==
    /\ Refused
    /\ wk' = IdleWk
    /\ UNCHANGED <<ticket, watch, review, runs, turn, bound, crashes>>

WorkerCrash ==
    /\ wk.pc # "idle"
    /\ crashes.worker < MaxCrashes
    /\ crashes' = [crashes EXCEPT !.worker = @ + 1]
    /\ wk' = IdleWk
    /\ UNCHANGED <<ticket, watch, review, runs, turn, bound>>

WorkerStep ==
    \/ Look \/ Act \/ WatchSchedules \/ ClearWatch
    \/ Open \/ MarkVerifying \/ ReviewFails \/ Conclude
    \/ \E v \in Verdicts(Root) \cup Verdicts(Repair) : Judge(v)
    \/ Excuse \/ RetryReview \/ Escalate \/ CloseReview
    \/ CreateChild \/ StartChild \/ MarkParent \/ PromiseRepair
    \/ Dispatch \/ FailClosed
    \/ WorkerRaises

----------------------------------------------------------------------------
(* The clock.  A lease outlasts the work on a job by construction (model   *)
(* timeout plus a minute): it runs out only when the process has died.  A  *)
(* review is due an hour after it was scheduled, long after the watchdogs  *)
(* that exist by then (five minutes) and after the statements of a turn or *)
(* a watchdog that is about to schedule one.                               *)
WatchDue(a) ==
    /\ watch[a].status \in Waiting
    /\ ~watch[a].due
    /\ watch' = [watch EXCEPT ![a].due = TRUE]
    /\ UNCHANGED <<ticket, review, runs, turn, bound, wk, crashes>>

ReviewDue(k) ==
    /\ review[k].status \in Waiting
    /\ ~review[k].due
    /\ turn.pc \in {"idle", "unbind"} /\ wk.pc # "schedule"
    /\ \A a \in Alarms : watch[a].status \in Waiting => watch[a].due
    /\ review' = [review EXCEPT ![k].due = TRUE]
    /\ UNCHANGED <<ticket, watch, runs, turn, bound, wk, crashes>>

Lapse ==
    /\ \/ \E a \in Alarms :
             /\ watch[a].status = "running" /\ ~watch[a].expired
             /\ wk.alarm # a
             /\ watch' = [watch EXCEPT ![a].expired = TRUE]
             /\ UNCHANGED review
       \/ \E k \in Reviews :
             /\ review[k].status = "running" /\ ~review[k].expired
             /\ wk.key # k
             /\ review' = [review EXCEPT ![k].expired = TRUE]
             /\ UNCHANGED watch
    /\ UNCHANGED <<ticket, runs, turn, bound, wk, crashes>>

----------------------------------------------------------------------------
(* Turns end, delays pass, the leases of a dead worker run out and the      *)
(* restarted worker polls: one of these steps is taken as long as one is    *)
(* possible.  Nothing is assumed of children, tools or users.               *)
Progress ==
    \/ TurnStep
    \/ WorkerStep
    \/ \E a \in Alarms : ClaimWatch(a) \/ WatchDue(a)
    \/ \E k \in Reviews : ClaimReview(k) \/ ReviewDue(k)
    \/ PollNothing
    \/ Lapse

Next ==
    \/ Progress
    \/ Begin
    \/ \E S \in SUBSET Children : Reserve(S)
    \/ \E c \in Children, s \in {"verified", "failed"} : ChildEnds(c, s)
    \/ TurnCrash
    \/ WorkerCrash

Spec == Init /\ [][Next]_vars

FairSpec == Spec /\ WF_vars(Progress)

(* What the ledger promises *)

(* A ticket that waits for its review, or is in it, has a job of the very  *)
(* revision it shows that a worker can still take or that gave up.         *)
HasReview(t) ==
    ticket[t].status \in {"verification_pending", "verifying"} =>
        review[<<t, ticket[t].rev>>].status \notin {"absent", "completed"}

(* Two writers schedule reviews, the turn and the watchdogs; process_job    *)
(* ignores a job whose revision is no longer the ticket's, and its handler  *)
(* puts tickets back.  The review of a ticket is lost in three ways only:   *)
(* the revision is scheduled again when its job is already completed, or is *)
(* about to be, or the handler reopens a ticket that others have moved.     *)
Repeated(t) == review[<<t, ticket'[t].rev>>].status = "completed"

ClosedBeneath(t) == wk.pc = "close" /\ wk.key = <<t, ticket[t].rev>>

ExcusedElsewhere(t) ==
    wk.pc = "excuse" /\ Reviewed = t /\ ticket[t].status # "verifying"

ReviewsAreNotLost ==
    [][\A t \in Tickets : HasReview(t) =>
          HasReview(t)' \/ Repeated(t) \/ ClosedBeneath(t) \/ ExcusedElsewhere(t)]_vars

(* A ticket is verified on evidence: there was something to look at, and   *)
(* one review of the ticket looked at all of it.                           *)
OnEvidence(t) ==
    ticket[t].status = "verified" =>
        /\ ticket[t].rev # {}
        /\ \E r \in runs : r.key[1] = t /\ ticket[t].rev \subseteq r.seen

(* The last transition of process_job names no version: it reopens a       *)
(* ticket that was ended after the review.                                 *)
LateVerdict(t) ==
    /\ ticket[t].status \in {"cancelled", "escalated", "unverifiable"}
    /\ ticket'[t].status = "verified"

(* Only so can a verdict lack evidence, although turns, watchdogs and      *)
(* repairs move status and revision between the statements of process_job. *)
VerdictsNeedEvidence ==
    [][\A t \in Tickets : OnEvidence(t) => OnEvidence(t)' \/ LateVerdict(t)]_vars

(* What one would like to say.  It fails when a ticket gets another        *)
(* revision and is then cancelled, by three turns, during one review.      *)
VerifiedOnEvidence == \A t \in Tickets : OnEvidence(t)

(* The worker never takes a verdict back while the turn does nothing: a    *)
(* job claimed again after a crash, its last retry or a late watchdog      *)
(* leaves the ticket alone, unless it brings another revision.             *)
WorkerKeepsVerdicts ==
    [][\A t \in Tickets :
        /\ turn' = turn
        /\ ticket[t].status \in {"verified", "superseded"}
        => ticket'[t].status = ticket[t].status \/ ticket'[t].rev # ticket[t].rev]_vars

(* A review that the ticket has comes to a verdict, unless its job is      *)
(* dead-lettered (the sweep of a later claim escalates nothing) or closed  *)
(* beneath the ticket.                                                     *)
EveryReviewEnds ==
    \A t \in Tickets :
        ticket[t].status = "verification_pending" /\ HasReview(t) ~>
            \/ ticket[t].status \notin {"verification_pending", "verifying"}
            \/ review[<<t, ticket[t].rev>>].status = "dead_letter"
            \/ ~HasReview(t)

(* An execution whose watchdog is armed does not stay in execution: the    *)
(* watchdog settles it when the request died, unless the only attempt of   *)
(* this very watchdog died with the worker.                                *)
GuardedExecutionEnds ==
    \A n \in 1 .. MaxTurns :
        ticket[Root].status = "executing" /\ watch[n].status \in Waiting ~>
            \/ ticket[Root].status # "executing"
            \/ watch[n].status = "dead_letter"

(* Each of the two tables of jobs keeps the promises of JobLedger.         *)
WatchView == [a \in Alarms |-> LedgerEntry(watch[a])]
ReviewView == [k \in Reviews |-> LedgerEntry(review[k])]

WatchLedger == INSTANCE JobLedger WITH Jobs <- Alarms, ledger <- WatchView
ReviewLedger == INSTANCE JobLedger WITH Jobs <- Reviews, ledger <- ReviewView

LedgerSpec == WatchLedger!Spec /\ ReviewLedger!Spec
=============================================================================
