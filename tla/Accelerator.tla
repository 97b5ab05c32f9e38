---------------------------- MODULE Accelerator ----------------------------
(***************************************************************************)
(* Admission to the one GPU (app/accelerator, accelerator_admission_app).  *)
(* A request inserts a waiter row, polls try_acquire in a thread until it  *)
(* is granted the lease of the resource row or gives up, makes its         *)
(* upstream calls under a heartbeat, and releases.  Every repository       *)
(* method holds one lock and is one action.  The thread that runs one      *)
(* outlives the coroutine that awaits it.                                  *)
(***************************************************************************)
EXTENDS Integers, Sequences

CONSTANTS Requests,   \* HTTP requests of the admission application
          NoOne,      \* lease_owner NULL
          Priority,   \* the LANE_PRIORITIES value of each request's lane
          Patient,    \* requests whose wait_seconds outlast every other lease
          Calls,      \* upstream calls of one request (unloads, then the work)
          MaxFaults   \* bound: cancellations, failed statements, restarts

ASSUME PriorityAssumption == Priority \in [Requests -> Nat]
ASSUME PatientAssumption == Patient \subseteq Requests
ASSUME OwnerAssumption == NoOne \notin Requests
ASSUME BoundsAssumption == Calls \in Nat /\ MaxFaults \in Nat

VARIABLES gpu,     \* the accelerator_resources row; fresh: not yet run out
          waiter,  \* accelerator_waiters; overdue: expires_at has passed
          line,    \* the waiters in the order of created_at
          req,     \* the coroutine of each request
          thread,  \* the try_acquire call of each request; lease 0: None
          busy,    \* requests whose upstream call occupies the GPU
          faults

vars == <<gpu, waiter, line, req, thread, busy, faults>>

Status == {"absent", "queued", "acquired", "completed", "expired", "cancelled"}

Pc == {"new", "entering", "waiting", "asking", "held", "leaving", "done"}

Idle == [at |-> "idle", lease |-> 0]

TypeOK ==
    /\ gpu \in [owner: Requests \cup {NoOne}, token: Nat, fresh: BOOLEAN]
    /\ waiter \in [Requests -> [status: Status, overdue: BOOLEAN]]
    /\ line \in Seq(Requests)
    /\ req \in [Requests -> [pc: Pc, lease: Nat, lost: BOOLEAN, calls: Nat]]
    /\ thread \in [Requests -> [at: {"idle", "running", "ended"}, lease: Nat]]
    /\ busy \in SUBSET Requests
    /\ faults \in Nat

Init ==
    /\ gpu = [owner |-> NoOne, token |-> 0, fresh |-> FALSE]
    /\ waiter = [r \in Requests |-> [status |-> "absent", overdue |-> FALSE]]
    /\ line = <<>>
    /\ req = [r \in Requests |->
                [pc |-> "new", lease |-> 0, lost |-> FALSE, calls |-> 0]]
    /\ thread = [r \in Requests |-> Idle]
    /\ busy = {}
    /\ faults = 0

----------------------------------------------------------------------------
(* The statements of the repository *)

(* _expire_locked *)
LeaseRanOut == gpu.owner # NoOne /\ ~gpu.fresh

SweptGpu == IF LeaseRanOut THEN [gpu EXCEPT !.owner = NoOne] ELSE gpu

SweptStatus(r) ==
    IF \/ LeaseRanOut /\ gpu.owner = r /\ waiter[r].status = "acquired"
       \/ waiter[r].status = "queued" /\ waiter[r].overdue
    THEN "expired" ELSE waiter[r].status

Swept == [r \in Requests |-> [waiter[r] EXCEPT !.status = SweptStatus(r)]]

(* Mutant: a waiter that expired keeps its place. *)
InLineExpired(r) == SweptStatus(r) \in {"queued", "expired"}

InLine(r) == SweptStatus(r) = "queued" /\ ~waiter[r].overdue

Position(r) == CHOOSE i \in DOMAIN line : line[i] = r

(* ORDER BY priority DESC, created_at *)
Before(q, r) ==
    \/ Priority[q] > Priority[r]
    \/ Priority[q] = Priority[r] /\ Position(q) < Position(r)

FirstInLine(r) ==
    InLine(r) /\ \A q \in Requests \ {r} : InLine(q) => Before(r, q)

Grantable(r) == SweptGpu.owner = NoOne /\ FirstInLine(r)

Holds(r) == gpu.owner = r /\ gpu.token = req[r].lease

(* Mutant: release frees the resource whoever owns it. *)
CanReleaseAny(r) == gpu.owner # NoOne

(* The WHERE of release *)
CanRelease(r) == Holds(r)

Freed == [gpu EXCEPT !.owner = NoOne]

SetStatus(r, s) == waiter' = [waiter EXCEPT ![r].status = s]

(* Mutant: the UPDATE of cancel_waiter does not ask for 'queued'. *)
CancelWaiterAny(r) == SetStatus(r, "cancelled")

(* cancel_waiter *)
CancelWaiter(r) ==
    IF waiter[r].status = "queued" THEN SetStatus(r, "cancelled")
                                   ELSE UNCHANGED waiter

Goto(r, pc) == req' = [req EXCEPT ![r].pc = pc]

----------------------------------------------------------------------------
(* AcceleratorAdmissionQueue.lease *)

Enqueue(r) ==
    /\ req[r].pc = "new"
    /\ gpu' = SweptGpu
    /\ waiter' = [Swept EXCEPT ![r].status = "queued"]
    /\ line' = Append(line, r)
    /\ Goto(r, "entering")
    /\ UNCHANGED <<thread, busy, faults>>

Entered(r) ==
    /\ req[r].pc = "entering"
    /\ Goto(r, "waiting")
    /\ UNCHANGED <<gpu, waiter, line, thread, busy, faults>>

Poll(r) ==
    /\ req[r].pc = "waiting"
    /\ Goto(r, "asking")
    /\ thread' = [thread EXCEPT ![r].at = "running"]
    /\ UNCHANGED <<gpu, waiter, line, busy, faults>>

(* In the thread, whatever the coroutine does meanwhile. *)
TryAcquire(r) ==
    /\ thread[r].at = "running"
    /\ IF Grantable(r)
       THEN /\ gpu' = [owner |-> r, token |-> gpu.token + 1, fresh |-> TRUE]
            /\ waiter' = [Swept EXCEPT ![r].status = "acquired"]
            /\ thread' = [thread EXCEPT
                   ![r] = [at |-> "ended", lease |-> gpu.token + 1]]
       ELSE /\ gpu' = SweptGpu
            /\ waiter' = Swept
            /\ thread' = [thread EXCEPT ![r].at = "ended"]
    /\ UNCHANGED <<line, req, busy, faults>>

Answered(r) ==
    /\ req[r].pc = "asking"
    /\ thread[r].at = "ended"
    /\ req' = [req EXCEPT ![r].lease = thread[r].lease,
             ![r].pc = IF thread[r].lease = 0 THEN "waiting" ELSE "held"]
    /\ thread' = [thread EXCEPT ![r] = Idle]
    /\ UNCHANGED <<gpu, waiter, line, busy, faults>>

Deadline(r) ==
    /\ req[r].pc = "waiting"
    /\ r \notin Patient
    /\ Goto(r, "leaving")
    /\ UNCHANGED <<gpu, waiter, line, thread, busy, faults>>

(* The finally block: release what was acquired, else cancel_waiter. *)
Leave(r) ==
    /\ req[r].pc = "leaving"
    /\ IF req[r].lease # 0
       THEN IF CanRelease(r) THEN gpu' = Freed /\ SetStatus(r, "completed")
                             ELSE UNCHANGED <<gpu, waiter>>
       ELSE CancelWaiter(r) /\ UNCHANGED gpu
    /\ Goto(r, "done")
    /\ UNCHANGED <<line, thread, busy, faults>>

----------------------------------------------------------------------------
(* The heartbeat task *)

Beat(r) ==
    /\ req[r].pc = "held"
    /\ ~req[r].lost
    /\ IF Holds(r) THEN gpu' = [gpu EXCEPT !.fresh = TRUE] /\ UNCHANGED req
                   ELSE req' = [req EXCEPT ![r].lost = TRUE] /\ UNCHANGED gpu
    /\ UNCHANGED <<waiter, line, thread, busy, faults>>

----------------------------------------------------------------------------
(* The handler: calls to the model server, each raced against lost *)

(* The upstream task is created before the race: also after a loss. *)
StartCall(r) ==
    /\ req[r].pc = "held"
    /\ r \notin busy
    /\ req[r].calls < Calls
    /\ req' = [req EXCEPT ![r].calls = @ + 1]
    /\ busy' = busy \cup {r}
    /\ UNCHANGED <<gpu, waiter, line, thread, faults>>

(* The server answers or fails; also a call whose request is gone. *)
EndCall(r) ==
    /\ r \in busy
    /\ busy' = busy \ {r}
    /\ \/ UNCHANGED req
       \/ req[r].pc = "held" /\ Goto(r, "leaving")
    /\ UNCHANGED <<gpu, waiter, line, thread, faults>>

Respond(r) ==
    /\ req[r].pc = "held"
    /\ r \notin busy
    /\ req[r].calls = Calls
    /\ Goto(r, "leaving")
    /\ UNCHANGED <<gpu, waiter, line, thread, busy, faults>>

(* accelerator_lease_lost: the call is cancelled. *)
StopOnLoss(r) ==
    /\ req[r].pc = "held"
    /\ req[r].lost
    /\ busy' = busy \ {r}
    /\ Goto(r, "leaving")
    /\ UNCHANGED <<gpu, waiter, line, thread, faults>>

(* /ready reads a snapshot, which sweeps. *)
Ready ==
    /\ gpu' = SweptGpu
    /\ waiter' = Swept
    /\ UNCHANGED <<line, req, thread, busy, faults>>

----------------------------------------------------------------------------
(* The clock *)

LeaseLapses ==
    /\ gpu.owner # NoOne
    /\ gpu.fresh
    /\ gpu' = [gpu EXCEPT !.fresh = FALSE]
    /\ UNCHANGED <<waiter, line, req, thread, busy, faults>>

WaiterOverdue(r) ==
    /\ waiter[r].status = "queued"
    /\ r \in Patient => req[r].pc = "done"
    /\ waiter' = [waiter EXCEPT ![r].overdue = TRUE]
    /\ UNCHANGED <<gpu, line, req, thread, busy, faults>>

----------------------------------------------------------------------------
(* Faults *)

Fault == faults < MaxFaults /\ faults' = faults + 1

(* The coroutine is cancelled, or the statement it awaits raises: before   *)
(* the try block nothing is cleaned up, in it the finally block runs with  *)
(* what the coroutine knows, and the upstream task is not cancelled.       *)
Withdraw(r) ==
    /\ Fault
    /\ req[r].pc \in {"entering", "waiting", "asking", "held"}
    /\ Goto(r, IF req[r].pc = "entering" THEN "done" ELSE "leaving")
    /\ UNCHANGED <<gpu, waiter, line, thread, busy>>

(* A heartbeat statement raises. *)
BeatFails(r) ==
    /\ Fault
    /\ req[r].pc = "held"
    /\ req' = [req EXCEPT ![r].lost = TRUE]
    /\ UNCHANGED <<gpu, waiter, line, thread, busy>>

(* The statement of the finally block raises. *)
LeaveFails(r) ==
    /\ Fault
    /\ req[r].pc = "leaving"
    /\ Goto(r, "done")
    /\ UNCHANGED <<gpu, waiter, line, thread, busy>>

(* The application restarts; the model server may still be busy. *)
Crash ==
    /\ Fault
    /\ req' = [r \in Requests |-> IF req[r].pc = "new" THEN req[r]
                                  ELSE [req[r] EXCEPT !.pc = "done"]]
    /\ thread' = [r \in Requests |-> Idle]
    /\ UNCHANGED <<gpu, waiter, line, busy>>

----------------------------------------------------------------------------
Step(r) ==
    \/ Entered(r) \/ Poll(r) \/ TryAcquire(r) \/ Answered(r)
    \/ Leave(r) \/ StartCall(r) \/ EndCall(r) \/ Respond(r) \/ StopOnLoss(r)

Next ==
    \/ \E r \in Requests :
           \/ Enqueue(r) \/ Step(r) \/ Deadline(r) \/ Beat(r)
           \/ WaiterOverdue(r)
           \/ Withdraw(r) \/ BeatFails(r) \/ LeaveFails(r)
    \/ Ready \/ LeaseLapses \/ Crash

Spec == Init /\ [][Next]_vars

(* The event loop and the threads keep running, upstream calls have        *)
(* timeouts, and time passes.  Nothing is assumed of arrivals, /ready,     *)
(* heartbeats, deadlines or faults.                                        *)
Fairness ==
    /\ \A r \in Requests : WF_vars(Step(r)) /\ WF_vars(WaiterOverdue(r))
    /\ WF_vars(LeaseLapses)

FairSpec == Spec /\ Fairness

----------------------------------------------------------------------------
(* Properties *)

(* The two tables agree: a waiter is 'acquired' exactly while the resource *)
(* row names it, through grants to threads nobody awaits any more, sweeps, *)
(* late heartbeats and releases.  Otherwise a waiter would stay 'acquired' *)
(* for ever or the GPU be owned by a settled one (repository.py:258).      *)
TablesAgree ==
    \A r \in Requests : waiter[r].status = "acquired" <=> gpu.owner = r

(* While a handler works, the GPU is its own unless the sweep took a lease *)
(* that had run out: nobody's release, cancellation or grant takes it      *)
(* (service.py:84).                                                        *)
HandlerOwnsGpu ==
    \A r \in Requests : req[r].pc = "held" =>
        Holds(r) \/ waiter[r].status = "expired"

(* A request that can wait is not starved by those that died: leases and   *)
(* waiters left behind by cancelled coroutines, failed releases and        *)
(* restarts are swept by its own polling (repository.py:244).              *)
PatientIsServed ==
    \A r \in Patient : req[r].pc = "waiting" ~>
                           req[r].pc \in {"held", "leaving", "done"}
=============================================================================
