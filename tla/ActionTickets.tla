--------------------------- MODULE ActionTickets ---------------------------
(***************************************************************************)
(* The ledger of action tickets (app/tickets): the row of a ticket, the    *)
(* effects it promised and got, its watchdog and review jobs, and the      *)
(* turns of the session that write it.  TicketReview adds the worker.      *)
(* A user's ticket Root may be repaired once, by the ticket Repair.        *)
(***************************************************************************)
EXTENDS JobRows, FiniteSets

CONSTANTS Root, Repair,   \* the two tickets
          Children,       \* asynchronous effects of Root (email operations)
          RepairChild,    \* the one effect of Repair
          Direct,         \* the effect a turn of Root makes itself
          MaxTurns,       \* bound: turns on Root
          MaxAttempts,    \* action_ticket_review_max_attempts
          MaxRestarts,    \* bound: restarts of the API process in a turn
          MaxCrashes      \* bound: restarts of the review worker in a job

ASSUME TicketBounds ==
    /\ MaxTurns \in Nat /\ MaxAttempts \in Nat \ {0}
    /\ MaxRestarts \in Nat /\ MaxCrashes \in Nat

ASSUME TicketIds == Root # Repair

VARIABLES ticket,   \* work_tickets with manifests, outcomes and receipts
          watch,    \* ticket_watchdog jobs: one per turn and per child
          review,   \* ticket_review jobs: one per ticket and revision
          runs,     \* ticket_review_runs with a verdict and its evidence
          turn,     \* the request the API process works on
          bound,    \* the session's active_action_ticket is Root
          wk,       \* the review worker
          crashes   \* restarts so far, of the API and of the worker

vars == <<ticket, watch, review, runs, turn, bound, wk, crashes>>

Tickets == {Root, Repair}
Effects == Children \cup {RepairChild, Direct}
Alarms == (1 .. MaxTurns) \cup Children \cup {RepairChild}

(* The receipts a ticket can get; a revision is the set of them it reads. *)
Own(t) == IF t = Root THEN Children \cup {Direct} ELSE {RepairChild}
Reviews == UNION {{t} \X SUBSET Own(t) : t \in Tickets}

TicketOf(a) == IF a = RepairChild THEN Repair ELSE Root

----------------------------------------------------------------------------
(* The rows *)

Status == {"absent", "captured", "waiting_clarification", "executing",
           "verification_pending", "verifying", "reconciliation_required",
           "verified", "superseded", "remediation_queued", "unverifiable",
           "escalated", "cancelled"}

(* _ALLOWED_TRANSITIONS; the other statuses are terminal. *)
Reopen == {"verification_pending", "verified", "cancelled", "escalated"}

Allowed(s) ==
    CASE s = "captured" ->
            {"waiting_clarification", "executing", "cancelled",
             "unverifiable", "reconciliation_required"}
      [] s = "waiting_clarification" ->
            {"executing", "cancelled", "unverifiable"}
      [] s = "executing" ->
            {"waiting_clarification", "verification_pending", "unverifiable",
             "reconciliation_required", "escalated", "cancelled"}
      [] s = "verification_pending" ->
            {"verifying", "unverifiable", "cancelled", "escalated"}
      [] s = "verifying" ->
            {"verification_pending", "verified", "superseded", "escalated",
             "remediation_queued", "unverifiable", "reconciliation_required"}
      [] s = "reconciliation_required" ->
            {"executing", "verification_pending", "escalated", "cancelled"}
      [] OTHER -> Reopen

CanMove(t, s) == s = ticket[t].status \/ s \in Allowed(ticket[t].status)

(* The receipts of a ticket; each has its expectation, written with it. *)
Receipts(t) == ticket[t].receipts

Outcomes == {"none", "verified", "failed"}

Outcome(t, c) == ticket[t].outcome[c]

(* reduce_ticket_effects *)
Reduced(t) ==
    LET promised == ticket[t].manifest
        got == {c \in promised : Outcome(t, c) = "verified"}
    IN  IF promised = {} THEN "no_manifest"
        ELSE IF \E c \in promised : Outcome(t, c) = "none" THEN "queued"
        ELSE IF got = promised THEN "completed"
        ELSE IF got = {} THEN "failed" ELSE "partial"

NewTicket == [status |-> "absent", manifest |-> {}, receipts |-> {},
              rev |-> {}, outcome |-> [c \in Effects |-> "none"]]

SetStatus(t, s) == ticket' = [ticket EXCEPT ![t].status = s]

(* transition_ticket raises when the step is not allowed. *)
Transition(t, s) == CanMove(t, s) /\ SetStatus(t, s)

TransitionRev(t, s, r) ==
    CanMove(t, s) /\ ticket' = [ticket EXCEPT ![t].status = s, ![t].rev = r]

(* Mutant: a new job only if the ticket has no review waiting or running. *)
ScheduleOnce(t, r) ==
    /\ ticket' = [ticket EXCEPT ![t].status = "verification_pending",
                                ![t].rev = r]
    /\ review' = IF \E k \in Reviews : k[1] = t /\ review[k].status \in
                                          Waiting \cup {"running"}
                 THEN review
                 ELSE [review EXCEPT ![<<t, r>>] = Enqueued(@, FALSE)]

(* schedule_verification: no check of the status it overwrites. *)
Schedule(t, r) ==
    /\ ticket' = [ticket EXCEPT ![t].status = "verification_pending",
                                ![t].rev = r]
    /\ review' = [review EXCEPT ![<<t, r>>] = Enqueued(@, FALSE)]

Reserved(t, S) == [ticket EXCEPT ![t].manifest = @ \cup S]

(* record_child_outcome_atomic: outcome, receipt and watchdog together. *)
RecordChild(t, c, s) ==
    /\ ticket' = [ticket EXCEPT ![t].outcome[c] = s,
           ![t].receipts = IF s = "verified" THEN @ \cup {c} ELSE @]
    /\ watch' = [watch EXCEPT ![c] = Enqueued(@, TRUE)]

----------------------------------------------------------------------------
(* A turn of the session: begin_request, the tools, capture_response *)

TurnPc == {"idle", "begin", "guard", "save", "run", "capture", "reduce",
           "apply", "schedule", "unbind"}

NoTurn == [pc |-> "idle", n |-> 0, direct |-> FALSE, seen |-> {}, agg |-> ""]

TurnGoto(pc) == turn' = [turn EXCEPT !.pc = pc]

EndTurn == turn' = [NoTurn EXCEPT !.n = turn.n]

(* begin_request: create_ticket, or the ticket the session is bound to *)
Begin ==
    /\ turn.pc = "idle"
    /\ turn.n < MaxTurns
    /\ ticket[Root].status = "absent" \/ bound
    /\ turn' = [NoTurn EXCEPT !.pc = "begin", !.n = turn.n + 1]
    /\ ticket' = IF ticket[Root].status = "absent"
                 THEN [ticket EXCEPT ![Root].status = "captured"] ELSE ticket
    /\ UNCHANGED <<watch, review, runs, bound, wk, crashes>>

StartExecuting ==
    /\ turn.pc = "begin"
    /\ Transition(Root, "executing")
    /\ TurnGoto("guard")
    /\ UNCHANGED <<watch, review, runs, bound, wk, crashes>>

(* The execution watchdog is enqueued in a transaction of its own. *)
Guard ==
    /\ turn.pc = "guard"
    /\ watch' = [watch EXCEPT ![turn.n] = Enqueued(@, FALSE)]
    /\ TurnGoto("save")
    /\ UNCHANGED <<ticket, review, runs, bound, wk, crashes>>

SaveSession ==
    /\ turn.pc = "save"
    /\ bound' = TRUE
    /\ TurnGoto("run")
    /\ UNCHANGED <<ticket, watch, review, runs, wk, crashes>>

(* A tool reserves a manifest of children, to be worked off later. *)
Reserve(S) ==
    /\ turn.pc = "run"
    /\ S # {} /\ S \cap ticket[Root].manifest = {}
    /\ ticket' = Reserved(Root, S)
    /\ UNCHANGED <<watch, review, runs, turn, bound, wk, crashes>>

FinishTools(direct) ==
    /\ turn.pc = "run"
    /\ turn' = [turn EXCEPT !.pc = "capture", !.direct = direct]
    /\ UNCHANGED <<ticket, watch, review, runs, bound, wk, crashes>>

(* A tool asks for clarification: the receipts of the turn are not read. *)
CapturePending ==
    /\ turn.pc = "capture"
    /\ Transition(Root, "waiting_clarification")
    /\ EndTurn
    /\ UNCHANGED <<watch, review, runs, bound, wk, crashes>>

CaptureCancelled ==
    /\ turn.pc = "capture"
    /\ Transition(Root, "cancelled")
    /\ TurnGoto("unbind")
    /\ UNCHANGED <<watch, review, runs, bound, wk, crashes>>

CaptureReceipts ==
    /\ turn.pc = "capture"
    /\ LET known == Receipts(Root) \cup IF turn.direct THEN {Direct} ELSE {}
       IN  /\ ticket' = [ticket EXCEPT ![Root].receipts = known]
           /\ turn' = [turn EXCEPT !.pc = "reduce", !.seen = known]
    /\ UNCHANGED <<watch, review, runs, bound, wk, crashes>>

ReduceEffects ==
    /\ turn.pc = "reduce"
    /\ turn' = [turn EXCEPT !.pc = "apply", !.agg = Reduced(Root)]
    /\ UNCHANGED <<ticket, watch, review, runs, bound, wk, crashes>>

(* Mutant: a turn without receipts is sent to the review all the same. *)
CapturedWithout ==
    CASE turn.agg \in {"queued", "partial"} -> "reconciliation_required"
      [] turn.agg = "failed" -> "escalated"
      [] OTHER -> "executing"

(* Where capture_response takes the ticket, from what it read. *)
Captured ==
    CASE turn.agg \in {"queued", "partial"} -> "reconciliation_required"
      [] turn.agg = "failed" -> "escalated"
      [] OTHER -> IF turn.seen = {} THEN "unverifiable" ELSE "executing"

ApplyCapture ==
    /\ turn.pc = "apply"
    /\ IF Captured = "executing"
       THEN TransitionRev(Root, "executing", turn.seen) /\ TurnGoto("schedule")
       ELSE Transition(Root, Captured) /\ TurnGoto("unbind")
    /\ UNCHANGED <<watch, review, runs, bound, wk, crashes>>

ScheduleReview ==
    /\ turn.pc = "schedule"
    /\ Schedule(Root, turn.seen)
    /\ TurnGoto("unbind")
    /\ UNCHANGED <<watch, runs, bound, wk, crashes>>

Unbind ==
    /\ turn.pc = "unbind"
    /\ bound' = FALSE
    /\ EndTurn
    /\ UNCHANGED <<ticket, watch, review, runs, wk, crashes>>

(* A transition is refused and the exception ends the request. *)
TurnRaises ==
    /\ \/ turn.pc = "begin" /\ ~CanMove(Root, "executing")
       \/ /\ turn.pc = "capture"
          /\ \E s \in {"waiting_clarification", "cancelled"} : ~CanMove(Root, s)
       \/ turn.pc = "apply" /\ ~CanMove(Root, Captured)
    /\ EndTurn
    /\ UNCHANGED <<ticket, watch, review, runs, bound, wk, crashes>>

TurnCrash ==
    /\ turn.pc # "idle"
    /\ crashes.api < MaxRestarts
    /\ crashes' = [crashes EXCEPT !.api = @ + 1]
    /\ EndTurn
    /\ UNCHANGED <<ticket, watch, review, runs, bound, wk>>

(* AsyncChildOutcomeSink.record_terminal_child, called by another worker;  *)
(* a repeated call finds the same rows.                                    *)
ChildEnds(c, s) ==
    /\ c \in ticket[Root].manifest
    /\ Outcome(Root, c) = "none"
    /\ RecordChild(Root, c, s)
    /\ UNCHANGED <<review, runs, turn, bound, wk, crashes>>

TurnStep ==
    \/ StartExecuting \/ Guard \/ SaveSession
    \/ \E direct \in BOOLEAN : FinishTools(direct)
    \/ CapturePending \/ CaptureCancelled \/ CaptureReceipts
    \/ ReduceEffects \/ ApplyCapture \/ ScheduleReview \/ Unbind
    \/ TurnRaises
=============================================================================
