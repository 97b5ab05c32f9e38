--------------------------- MODULE TaskWorkspace ---------------------------
(***************************************************************************)
(* The lifecycle of an agent task: the owner's requests of                 *)
(* app/tasks/service.py, the agent_tasks row of app/tasks/repository.py,   *)
(* its agent.task.v1 jobs and the workers of app/tasks/worker.py.          *)
(*                                                                         *)
(* Each repository method is one transaction and one action.  A service    *)
(* call makes several of them: call[p] holds what the process p has still  *)
(* to do, and is lost when the process dies.  A worker is the sequential   *)
(* program of run_once, wk[w].pc the statement it is at.                   *)
(*                                                                         *)
(* There is one job per task and generation (its idempotency key), so      *)
(* active_job_id is modelled by the generation of the job, 0 for NULL.     *)
(* What tools do besides ending the run, and their receipts, is left out.  *)
(***************************************************************************)
EXTENDS JobRows

CONSTANTS Tasks,
          Requests,      \* threads that serve the owner's requests
          MaxAttempts,   \* max_attempts of the task's jobs
          Decisions,     \* model decisions granted at creation, by continue
          Faults,        \* the failures of this instance
          MaxGen,        \* bound: generations of a task
          MaxSteer,      \* bound: steering revisions of a task
          MaxRequeues    \* bound: operator requeues of a task's jobs

ASSUME FaultsAssumption ==
    Faults \subseteq {"request", "worker", "lease", "operator"}
ASSUME ProcessesAssumption == Workers \cap Requests = {}
ASSUME LimitsAssumption ==
    /\ MaxAttempts \in Nat \ {0} /\ Decisions \in Nat \ {0}
    /\ MaxGen \in Nat \ {0} /\ MaxSteer \in Nat /\ MaxRequeues \in Nat

VARIABLES task,      \* agent_tasks
          job,       \* the agent.task.v1 rows of durable_jobs
          wk,        \* the run each worker is in
          call,      \* what each process has left of its service calls
          requeues   \* how often an operator requeued a job of each task

vars == <<task, job, wk, call, requeues>>

Gens == 1 .. MaxGen
Processes == Workers \cup Requests

Final   == {"completed", "cancelled"}
Resumed == {"waiting_input", "waiting_approval", "failed"}
Paused  == {"paused_user", "paused_budget"}
Live    == {"queued", "running"}
Gone    == {"absent", "deleted"}

Task == [status: Final \cup Resumed \cup Paused \cup Live \cup Gone,
         gen: 0 .. MaxGen, steer: Nat, active: 0 .. MaxGen,
         messages: Nat, used: Nat, limit: Nat, bound: BOOLEAN]

AbsentTask == [status |-> "absent", gen |-> 0, steer |-> 0, active |-> 0,
               messages |-> 0, used |-> 0, limit |-> 0, bound |-> FALSE]

Calls == [op: {"bind", "enqueue", "advance", "point", "cancel", "delete"},
          task: Tasks, gen: 0 .. MaxGen]

Executing == {"check", "budget", "charge", "prompt", "chat", "answer",
              "boundary", "tools", "pausing", "repause"}
Ending    == {"fail", "readback", "giveup", "complete", "acknowledge"}

(* steer is the steering_revision the run acts under, read how many of the *)
(* task's messages its last prompt held, lost the heartbeat's event.       *)
Run == [pc: {"idle", "begin"} \cup Executing \cup Ending,
        task: Tasks \cup {None}, gen: 0 .. MaxGen, token: Nat,
        steer: Nat, read: Nat, lost: BOOLEAN]

Idle == [pc |-> "idle", task |-> None, gen |-> 0, token |-> 0,
         steer |-> 0, read |-> 0, lost |-> FALSE]

TypeOK ==
    /\ task \in [Tasks -> Task]
    /\ \A t \in Tasks : task[t].used <= task[t].limit
    /\ job \in [Tasks -> [Gens -> Row]]
    /\ wk \in [Workers -> Run]
    /\ call \in [Processes -> SUBSET Calls]
    /\ requeues \in [Tasks -> 0 .. MaxRequeues]

Init ==
    /\ task = [t \in Tasks |-> AbsentTask]
    /\ job = [t \in Tasks |-> [g \in Gens |-> AbsentRow]]
    /\ wk = [w \in Workers |-> Idle]
    /\ call = [p \in Processes |-> {}]
    /\ requeues = [t \in Tasks |-> 0]

SetRow(t, g, r) == job' = [job EXCEPT ![t][g] = r]

ToDo(op, t, g) == [op |-> op, task |-> t, gen |-> g]
Done(p, c)     == call' = [call EXCEPT ![p] = @ \ {c}]
Then(p, c, d)  == call' = [call EXCEPT ![p] = (@ \ {c}) \cup {d}]

----------------------------------------------------------------------------
(* The statements of a service call after its first *)

(* set_workspace_ref; a conflict raises out of create_task. *)
Bind(p, c) ==
    /\ c.op = "bind"
    /\ LET t == c.task IN
       IF task[t].status = "queued" /\ task[t].active = 0
       THEN /\ task' = [task EXCEPT ![t].bound = TRUE]
            /\ Then(p, c, ToDo("enqueue", t, task[t].gen))
       ELSE Done(p, c) /\ UNCHANGED task
    /\ UNCHANGED <<job, wk, requeues>>

(* enqueue_job inserts the row or finds it. *)
Enqueue(p, c) ==
    /\ c.op = "enqueue"
    /\ LET r == job[c.task][c.gen] IN
       /\ SetRow(c.task, c.gen, Enqueued(r, TRUE))
       /\ Then(p, c, [c EXCEPT !.op = IF r.status \in Terminal
                                      THEN "advance" ELSE "point"])
    /\ UNCHANGED <<task, wk, requeues>>

(* recover_queued of a starting worker. *)
Recovery == {ToDo("enqueue", t, task[t].gen) :
                t \in {u \in Tasks : task[u].status = "queued"}}

(* advance_queued_generation; its conflict ends a request, and a worker    *)
(* process, which is started again.                                        *)
Advance(p, c) ==
    /\ c.op = "advance"
    /\ LET t == c.task IN
       IF task[t].status = "queued" /\ task[t].gen = c.gen
       THEN /\ c.gen < MaxGen
            /\ task' = [task EXCEPT ![t].gen = @ + 1, ![t].active = 0]
            /\ Then(p, c, ToDo("enqueue", t, c.gen + 1))
       ELSE /\ call' = [call EXCEPT ![p] = IF p \in Workers THEN Recovery
                                                            ELSE {}]
            /\ UNCHANGED task
    /\ UNCHANGED <<job, wk, requeues>>

(* Variant: set_active_job does not compare the generation. *)
PointAnyGeneration(p, c) ==
    /\ c.op = "point"
    /\ task' = IF task[c.task].status = "queued"
               THEN [task EXCEPT ![c.task].active = c.gen] ELSE task
    /\ Done(p, c)
    /\ UNCHANGED <<job, wk, requeues>>

(* set_active_job *)
Point(p, c) ==
    /\ c.op = "point"
    /\ task' = IF task[c.task].status = "queued" /\ task[c.task].gen = c.gen
               THEN [task EXCEPT ![c.task].active = c.gen] ELSE task
    /\ Done(p, c)
    /\ UNCHANGED <<job, wk, requeues>>

RequestCancel(p, c) ==
    /\ c.op = "cancel"
    /\ SetRow(c.task, c.gen, CancelRequested(job[c.task][c.gen]))
    /\ Done(p, c)
    /\ UNCHANGED <<task, wk, requeues>>

(* delete_task of the repository, which looks at the status again. *)
DeleteRow(p, c) ==
    /\ c.op = "delete"
    /\ task' = IF task[c.task].status \in Live \cup Gone THEN task
               ELSE [task EXCEPT ![c.task].status = "deleted"]
    /\ Done(p, c)
    /\ UNCHANGED <<job, wk, requeues>>

CallStep(p) ==
    \E c \in call[p] : \/ Bind(p, c) \/ Enqueue(p, c) \/ Advance(p, c)
                       \/ Point(p, c) \/ RequestCancel(p, c)
                       \/ DeleteRow(p, c)

----------------------------------------------------------------------------
(* The owner's requests: each names the revision of the task it has seen,  *)
(* so it acts on the present row or fails; a failed one changes nothing.   *)

Free(r) == call[r] = {}

NewTask == [status |-> "queued", gen |-> 1, steer |-> 0, active |-> 0,
            messages |-> 1, used |-> 0, limit |-> Decisions, bound |-> FALSE]

Create(r, t) ==
    /\ Free(r)
    /\ task[t].status = "absent"
    /\ task' = [task EXCEPT ![t] = NewTask]
    /\ call' = [call EXCEPT ![r] = {ToDo("bind", t, 1)}]
    /\ UNCHANGED <<job, wk, requeues>>

(* steering_revision + 1, within the bound *)
Steers(t) ==
    /\ task[t].status \notin Gone \cup Final
    /\ task[t].steer < MaxSteer

(* The next run: a generation without a job, and its enqueue. *)
NextRun(r, t, row) ==
    /\ task[t].gen < MaxGen
    /\ task' = [task EXCEPT ![t] = [row EXCEPT
           !.status = "queued", !.steer = @ + 1, !.gen = @ + 1,
           !.active = 0]]
    /\ call' = [call EXCEPT ![r] = {ToDo("enqueue", t, task[t].gen + 1)}]

(* add_message: the answer to a waiting or failed task starts its next     *)
(* run; any other task keeps its status, and is enqueued if it is queued.  *)
Message(r, t) ==
    /\ Free(r)
    /\ Steers(t)
    /\ LET row == [task[t] EXCEPT !.messages = @ + 1] IN
       \/ /\ task[t].status \in Resumed
          /\ NextRun(r, t, row)
       \/ /\ task[t].status \in Paused \cup Live
          /\ task' = [task EXCEPT ![t] = [row EXCEPT !.steer = @ + 1]]
          /\ call' = [call EXCEPT ![r] =
                IF task[t].status = "queued"
                THEN {ToDo("enqueue", t, task[t].gen)} ELSE {}]
    /\ UNCHANGED <<job, wk, requeues>>

(* Variant: the job of the earlier run serves the next one. *)
ContinueSameGeneration(r, t) ==
    /\ Free(r)
    /\ Steers(t)
    /\ task[t].status \in Paused \cup Resumed
    /\ task' = [task EXCEPT ![t].status = "queued", ![t].steer = @ + 1,
                            ![t].active = 0, ![t].limit = @ + Decisions]
    /\ call' = [call EXCEPT ![r] = {ToDo("enqueue", t, task[t].gen)}]
    /\ UNCHANGED <<job, wk, requeues>>

(* continue_task grants more budget with the next run. *)
Continue(r, t) ==
    /\ Free(r)
    /\ Steers(t)
    /\ task[t].status \in Paused \cup Resumed
    /\ NextRun(r, t, [task[t] EXCEPT !.limit = @ + Decisions])
    /\ UNCHANGED <<job, wk, requeues>>

CancelActiveJob(t) ==
    IF task[t].active = 0 THEN {} ELSE {ToDo("cancel", t, task[t].active)}

(* pause and cancel: _owner_transition, which leaves a finished task as it *)
(* is, then request_cancel of the job it names.                            *)
OwnerTransition(r, t, status) ==
    /\ Free(r)
    /\ \/ /\ Steers(t)
          /\ task' = [task EXCEPT ![t].status = status, ![t].steer = @ + 1]
       \/ /\ task[t].status \in Final
          /\ UNCHANGED task
    /\ call' = [call EXCEPT ![r] = CancelActiveJob(t)]
    /\ UNCHANGED <<job, wk, requeues>>

Pause(r, t)  == OwnerTransition(r, t, "paused_user")
Cancel(r, t) == OwnerTransition(r, t, "cancelled")

(* delete_task: refused while the job the task names may still run. *)
Delete(r, t) ==
    /\ Free(r)
    /\ task[t].status \notin Gone
    /\ task[t].active # 0 => job[t][task[t].active].status \in Terminal
    /\ call' = [call EXCEPT ![r] = {ToDo("delete", t, 0)}]
    /\ UNCHANGED <<task, job, wk, requeues>>

RequestDies(r) ==
    /\ "request" \in Faults
    /\ call[r] # {}
    /\ call' = [call EXCEPT ![r] = {}]
    /\ UNCHANGED <<task, job, wk, requeues>>

(* The operator's job controls know nothing of tasks. *)
OperatorCancel(t, g) ==
    /\ "operator" \in Faults
    /\ SetRow(t, g, CancelRequested(job[t][g]))
    /\ UNCHANGED <<task, wk, call, requeues>>

OperatorRequeue(t, g) ==
    /\ "operator" \in Faults
    /\ CanRequeue(job[t][g])
    /\ requeues[t] < MaxRequeues
    /\ SetRow(t, g, Requeued(job[t][g], TRUE))
    /\ requeues' = [requeues EXCEPT ![t] = @ + 1]
    /\ UNCHANGED <<task, wk, call>>

----------------------------------------------------------------------------
(* The worker: claiming and beginning a run *)

(* A run that settles its job keeps nothing but its claim. *)
Goto(w, pc) ==
    wk' = [wk EXCEPT ![w] =
              IF pc \in {"complete", "acknowledge"}
              THEN [@ EXCEPT !.pc = pc, !.steer = 0, !.read = 0,
                             !.lost = FALSE]
              ELSE [@ EXCEPT !.pc = pc]]

SweptJobs == [t \in Tasks |-> [g \in Gens |-> Swept(job[t][g], MaxAttempts)]]

RunOf(t, g, token) == [pc |-> "begin", task |-> t, gen |-> g,
                       token |-> token, steer |-> 0, read |-> 0,
                       lost |-> FALSE]

Claim(w) ==
    /\ wk[w].pc = "idle"
    /\ call[w] = {}
    /\ LET ready == {k \in Tasks \X Gens :
                        Claimable(SweptJobs[k[1]][k[2]], MaxAttempts)} IN
       \/ \E k \in ready : LET r == SweptJobs[k[1]][k[2]] IN
          /\ job' = [SweptJobs EXCEPT ![k[1]][k[2]] = Claimed(r, w)]
          /\ wk' = [wk EXCEPT ![w] = RunOf(k[1], k[2], r.token + 1)]
       \/ ready = {} /\ job' = SweptJobs /\ UNCHANGED wk
    /\ UNCHANGED <<task, call, requeues>>

Mine(w)  == task[wk[w].task]
MyJob(w) == job[wk[w].task][wk[w].gen]

(* begin_run's UPDATE starts the run, or finds it started; a task that is  *)
(* paused or cancelled but still names the job is returned as it is, and   *)
(* any other job is stale and completed.                                   *)
Starts(w) ==
    /\ Mine(w).gen = wk[w].gen
    /\ Mine(w).status \in Live
    /\ Mine(w).active \in {0, wk[w].gen}

(* Variant: the UPDATE does not ask for a queued or running task. *)
BeginAnyStatus(w) ==
    /\ wk[w].pc = "begin"
    /\ IF Mine(w).gen = wk[w].gen /\ Mine(w).active \in {0, wk[w].gen}
       THEN /\ task' = [task EXCEPT ![wk[w].task].status = "running",
                                    ![wk[w].task].active = wk[w].gen]
            /\ Goto(w, "check")
       ELSE Goto(w, "complete") /\ UNCHANGED task
    /\ UNCHANGED <<job, call, requeues>>

(* Variant: takes a task whose active_job_id is still NULL for stale. *)
BeginPointed(w) ==
    /\ wk[w].pc = "begin"
    /\ IF Starts(w) /\ Mine(w).active # 0
       THEN /\ task' = [task EXCEPT ![wk[w].task].status = "running"]
            /\ Goto(w, "check")
       ELSE Goto(w, "complete") /\ UNCHANGED task
    /\ UNCHANGED <<job, call, requeues>>

Begin(w) ==
    /\ wk[w].pc = "begin"
    /\ IF Starts(w)
       THEN /\ task' = [task EXCEPT ![wk[w].task].status = "running",
                                    ![wk[w].task].active = wk[w].gen]
            /\ Goto(w, "check")
       ELSE /\ Goto(w, IF /\ Mine(w).status \notin Gone
                          /\ Mine(w).active = wk[w].gen
                          /\ Mine(w).gen = wk[w].gen
                       THEN "check" ELSE "complete")
            /\ UNCHANGED task
    /\ UNCHANGED <<job, call, requeues>>

(* _LeaseHeartbeat, a thread beside the run: a refused renewal is its last *)
Heartbeat(w) ==
    /\ wk[w].pc \in Executing \cup {"fail", "readback", "giveup"}
    /\ ~wk[w].lost
    /\ IF CanRenew(MyJob(w), w, wk[w].token)
       THEN SetRow(wk[w].task, wk[w].gen, Renewed(MyJob(w))) /\ UNCHANGED wk
       ELSE wk' = [wk EXCEPT ![w].lost = TRUE] /\ UNCHANGED job
    /\ UNCHANGED <<task, call, requeues>>

----------------------------------------------------------------------------
(* The worker: _execute_task *)

(* Variant: looks at the job, not at the task. *)
CheckJobOnly(w) ==
    /\ wk[w].pc = "check"
    /\ Goto(w, IF MyJob(w).cancel THEN "acknowledge"
               ELSE IF wk[w].lost THEN "fail" ELSE "budget")
    /\ UNCHANGED <<task, job, call, requeues>>

(* The top of the loop: get_task, get_job and the heartbeat's event; the   *)
(* loop's step limit leads to a budget pause.                              *)
Check(w) ==
    /\ wk[w].pc = "check"
    /\ \/ /\ Mine(w).status \in Gone
          /\ Goto(w, "fail")
       \/ /\ Mine(w).status \notin Gone
          /\ Mine(w).status = "cancelled" \/ MyJob(w).cancel
          /\ Goto(w, "acknowledge")
       \/ /\ Mine(w).status \notin Gone \cup {"running", "cancelled"}
          /\ ~MyJob(w).cancel
          /\ Goto(w, "complete")
       \/ /\ Mine(w).status = "running" /\ ~MyJob(w).cancel
          /\ Goto(w, IF wk[w].lost THEN "fail" ELSE "budget")
    /\ UNCHANGED <<task, job, call, requeues>>

StepLimit(w) ==
    /\ wk[w].pc = "check"
    /\ Mine(w).status \notin Gone
    /\ wk' = [wk EXCEPT ![w].pc = "pausing", ![w].steer = Mine(w).steer]
    /\ UNCHANGED <<task, job, call, requeues>>

(* budget_available reads the row again.  The active seconds are not       *)
(* counted: they may be exhausted at any time.                             *)
Budget(w) ==
    /\ wk[w].pc = "budget"
    /\ IF Mine(w).status \in Gone THEN Goto(w, "fail")
       ELSE \E timeLeft \in BOOLEAN :
            wk' = [wk EXCEPT ![w].steer = Mine(w).steer,
                     ![w].pc = IF timeLeft /\ Mine(w).used < Mine(w).limit
                               THEN "charge" ELSE "pausing"]
    /\ UNCHANGED <<task, job, call, requeues>>

(* expected_steering_revision, of the statements that ask for it *)
AsSteered(w) ==
    Mine(w).status = "running" /\ Mine(w).steer = wk[w].steer

(* Variant: the allowance is not compared in the transaction. *)
ChargeUnchecked(w) ==
    /\ wk[w].pc = "charge"
    /\ IF AsSteered(w)
       THEN /\ task' = [task EXCEPT ![wk[w].task].used = @ + 1]
            /\ Goto(w, "prompt")
       ELSE /\ Goto(w, IF Mine(w).status \in Gone THEN "fail" ELSE "check")
            /\ UNCHANGED task
    /\ UNCHANGED <<job, call, requeues>>

(* consume_usage of one model decision *)
Charge(w) ==
    /\ wk[w].pc = "charge"
    /\ \/ /\ AsSteered(w)
          /\ Mine(w).used < Mine(w).limit
          /\ task' = [task EXCEPT ![wk[w].task].used = @ + 1]
          /\ Goto(w, "prompt")
       \/ /\ AsSteered(w)
          /\ Mine(w).used = Mine(w).limit
          /\ Goto(w, "pausing")
          /\ UNCHANGED task
       \/ /\ ~AsSteered(w)
          /\ Goto(w, IF Mine(w).status \in Gone THEN "fail" ELSE "check")
          /\ UNCHANGED task
    /\ UNCHANGED <<job, call, requeues>>

(* _model_messages reads the conversation. *)
Prompt(w) ==
    /\ wk[w].pc = "prompt"
    /\ wk' = [wk EXCEPT ![w].pc = "chat", ![w].read = Mine(w).messages]
    /\ UNCHANGED <<task, job, call, requeues>>

(* The model answers with a text, with tool calls or with nothing, or the  *)
(* call raises.                                                            *)
Chat(w) ==
    /\ wk[w].pc = "chat"
    /\ \E pc \in {"answer", "boundary", "check", "fail"} : Goto(w, pc)
    /\ UNCHANGED <<task, job, call, requeues>>

(* worker_transition by run w under a condition on the steering *)
MayTransition(w, steered) ==
    Mine(w).status = "running" /\ steered

Transitioned(w, status) ==
    task' = [task EXCEPT ![wk[w].task].status = status,
                         ![wk[w].task].active = 0]

(* Variant: the transition does not name the steering revision. *)
EndRunUnsteered(w, status) ==
    /\ IF MayTransition(w, TRUE)
       THEN Transitioned(w, status) /\ Goto(w, "complete")
       ELSE Goto(w, "check") /\ UNCHANGED task
    /\ UNCHANGED <<job, call, requeues>>

(* A transition that conflicts sends the run back to the top of the loop.  *)
EndRun(w, status) ==
    /\ IF MayTransition(w, AsSteered(w))
       THEN Transitioned(w, status) /\ Goto(w, "complete")
       ELSE Goto(w, "check") /\ UNCHANGED task
    /\ UNCHANGED <<job, call, requeues>>

Answer(w) ==
    /\ wk[w].pc = "answer"
    /\ EndRun(w, "completed")

(* The row is read again before the first tool starts. *)
Boundary(w) ==
    /\ wk[w].pc = "boundary"
    /\ Goto(w, IF AsSteered(w) THEN "tools" ELSE "check")
    /\ UNCHANGED <<task, job, call, requeues>>

(* The tool calls of one answer: finish_task, ask_user and a capability    *)
(* that needs an approval end the run; the batch may end, or raise.        *)
Tools(w) ==
    /\ wk[w].pc = "tools"
    /\ \/ \E s \in {"completed", "waiting_input", "waiting_approval"} :
              EndRun(w, s)
       \/ /\ \E pc \in {"check", "fail"} : Goto(w, pc)
          /\ UNCHANGED <<task, job, call, requeues>>

(* _pause_budget: asks for the steering it read, then for a running task.  *)
PauseBudget(w) ==
    /\ wk[w].pc = "pausing"
    /\ IF MayTransition(w, AsSteered(w))
       THEN Transitioned(w, "paused_budget") /\ Goto(w, "complete")
       ELSE Goto(w, "repause") /\ UNCHANGED task
    /\ UNCHANGED <<job, call, requeues>>

PauseAnyway(w) ==
    /\ wk[w].pc = "repause"
    /\ IF MayTransition(w, TRUE)
       THEN Transitioned(w, "paused_budget") /\ Goto(w, "complete")
       ELSE /\ Goto(w, IF Mine(w).status = "cancelled" THEN "acknowledge"
                                                       ELSE "complete")
            /\ UNCHANGED task
    /\ UNCHANGED <<job, call, requeues>>

----------------------------------------------------------------------------
(* The worker: settling the job.  Whether the row matched is ignored. *)

Settle(w, may, row) ==
    /\ IF may THEN SetRow(wk[w].task, wk[w].gen, row) ELSE UNCHANGED job
    /\ wk' = [wk EXCEPT ![w] = Idle]
    /\ UNCHANGED <<task, call, requeues>>

CompleteJob(w) ==
    /\ wk[w].pc = "complete"
    /\ Settle(w, CanComplete(MyJob(w), w, wk[w].token), Completed(MyJob(w)))

AcknowledgeCancel(w) ==
    /\ wk[w].pc = "acknowledge"
    /\ Settle(w, CanAcknowledgeCancel(MyJob(w), w, wk[w].token),
              CancelAcknowledged(MyJob(w)))

(* An exception: retry_job, then the row is read back, and a run whose job *)
(* has no attempt left fails its task, whatever its steering.              *)
RetryJob(w) ==
    /\ wk[w].pc = "fail"
    /\ IF CanRetry(MyJob(w), w, wk[w].token)
       THEN SetRow(wk[w].task, wk[w].gen,
                   Retried(MyJob(w), MaxAttempts, TRUE))
       ELSE UNCHANGED job
    /\ Goto(w, "readback")
    /\ UNCHANGED <<task, call, requeues>>

ReadBack(w) ==
    /\ wk[w].pc = "readback"
    /\ IF MyJob(w).status = "dead_letter" THEN Goto(w, "giveup")
       ELSE wk' = [wk EXCEPT ![w] = Idle]
    /\ UNCHANGED <<task, job, call, requeues>>

GiveUp(w) ==
    /\ wk[w].pc = "giveup"
    /\ IF MayTransition(w, TRUE) THEN Transitioned(w, "failed")
       ELSE UNCHANGED task
    /\ wk' = [wk EXCEPT ![w] = Idle]
    /\ UNCHANGED <<job, call, requeues>>

(* The process dies and is started again: recover_queued, then polling.    *)
Restart(w) ==
    /\ "worker" \in Faults
    /\ wk' = [wk EXCEPT ![w] = Idle]
    /\ call' = [call EXCEPT ![w] = Recovery]
    /\ UNCHANGED <<task, job, requeues>>

Abandoned(t, g) ==
    ~\E w \in Workers : /\ wk[w].task = t /\ wk[w].gen = g
                        /\ wk[w].token = job[t][g].token

(* lease_expires_at passes: of a dead worker's claim, or of a slow one's.  *)
Expire(t, g) ==
    /\ job[t][g].status = "running"
    /\ ~job[t][g].expired
    /\ "lease" \in Faults \/ Abandoned(t, g)
    /\ SetRow(t, g, [job[t][g] EXCEPT !.expired = TRUE])
    /\ UNCHANGED <<task, wk, call, requeues>>

----------------------------------------------------------------------------
Executes(w) == \/ Check(w) \/ StepLimit(w) \/ Budget(w) \/ Charge(w)
           \/ Prompt(w) \/ Chat(w) \/ Answer(w) \/ Boundary(w) \/ Tools(w)
           \/ PauseBudget(w) \/ PauseAnyway(w)

Work(w) == \/ CallStep(w) \/ Claim(w) \/ Begin(w) \/ Executes(w)
           \/ CompleteJob(w) \/ AcknowledgeCancel(w)
           \/ RetryJob(w) \/ ReadBack(w) \/ GiveUp(w)

Owner(r, t) == \/ Create(r, t) \/ Message(r, t) \/ Continue(r, t)
               \/ Pause(r, t) \/ Cancel(r, t) \/ Delete(r, t)

Next ==
    \/ \E r \in Requests : \/ CallStep(r) \/ RequestDies(r)
                           \/ \E t \in Tasks : Owner(r, t)
    \/ \E w \in Workers : Work(w) \/ Heartbeat(w) \/ Restart(w)
    \/ \E t \in Tasks, g \in Gens :
           OperatorCancel(t, g) \/ OperatorRequeue(t, g) \/ Expire(t, g)

Spec == Init /\ [][Next]_vars

(* The loops the code runs by itself: a request is served, a worker goes   *)
(* on and polls again, and the lease of a dead claim runs out.  Nothing is *)
(* said of owners, operators, heartbeats and failures.                     *)
Fairness == /\ \A r \in Requests : WF_vars(CallStep(r))
            /\ \A w \in Workers : WF_vars(Work(w))
            /\ \A t \in Tasks, g \in Gens :
                   WF_vars(Abandoned(t, g) /\ Expire(t, g))

FairSpec == Spec /\ Fairness

----------------------------------------------------------------------------
(* Properties *)

(* Only the owner takes a task out of a pause, and nobody out of an end:   *)
(* a worker that began, charged or decided before pause and cancel (their  *)
(* transaction in _owner_transition) cannot write over them afterwards.    *)
OwnerIsObeyed ==
    [][\A t \in Tasks :
        LET old == task[t]
            new == task'[t]
        IN  /\ old.status \in Final \cup {"deleted"}
               => new.status \in {old.status, "deleted"}
            /\ old.status = "paused_user"
               => \/ new.status \in {old.status, "deleted"}
                  \/ new.steer > old.steer]_vars

(* A run ends its task, or asks the owner, only on an answer of the model  *)
(* to a prompt that held every message of the owner: a direction that      *)
(* arrives during inference is read before the task may complete.          *)
DecidesOnAllMessages ==
    [][\A t \in Tasks :
        /\ task[t].status = "running"
        /\ task'[t].status \in Final \cup {"waiting_input", "waiting_approval"}
        /\ task'[t].steer = task[t].steer
        => \E w \in Workers : /\ wk[w].task = t
                              /\ wk[w].pc \in {"answer", "tools"}
                              /\ wk'[w].pc = "complete"
                              /\ wk[w].read = task[t].messages]_vars

(* A task never names the job of an earlier run, however the enqueue of    *)
(* one request and the generation change of another interleave.            *)
ActiveJobIsCurrent == \A t \in Tasks : task[t].active \in {0, task[t].gen}

(* The job of a queued or running task is not completed under it: every    *)
(* worker that completes a job has ended the run it was for, or leaves it  *)
(* to a later generation.                                                  *)
LiveTaskKeepsItsJob ==
    \A t \in Tasks : task[t].status \in Live
                     => job[t][task[t].gen].status # "completed"

(* What holds beside the types, for the proofs: rows are filled only by an *)
(* enqueue, and one of a present or earlier generation; a run or a call    *)
(* belongs to such a generation too.                                       *)
RowsOK ==
    \A t \in Tasks, g \in Gens :
        /\ job[t][g].status = "absent" => job[t][g] = AbsentRow
        /\ g > task[t].gen => job[t][g].status = "absent"

TasksOK == \A t \in Tasks : task[t].gen = 0 <=> task[t].status = "absent"

CallOK(c) ==
    /\ c.gen <= task[c.task].gen
    /\ c.op \notin {"bind", "delete"} => c.gen \in Gens

CallsOK == \A p \in Processes : \A c \in call[p] : CallOK(c)

(* A run never finds its task queued again under its own generation, and   *)
(* completes its job only when that generation is over.                    *)
RunOK(w) ==
    wk[w].pc # "idle" =>
        /\ wk[w].task \in Tasks
        /\ wk[w].gen \in Gens
        /\ wk[w].gen <= Mine(w).gen
        /\ wk[w].pc \in Executing
             => ~(Mine(w).status = "queued" /\ Mine(w).gen = wk[w].gen)
        /\ wk[w].pc = "complete"
             => ~(Mine(w).status \in Live /\ Mine(w).gen = wk[w].gen)

RunsOK == \A w \in Workers : RunOK(w)

IInv == /\ TypeOK /\ RowsOK /\ TasksOK /\ CallsOK /\ RunsOK
        /\ ActiveJobIsCurrent /\ LiveTaskKeepsItsJob

HasLease(w) ==
    HeldBy(MyJob(w), w, wk[w].token) /\ ~MyJob(w).cancel /\ ~MyJob(w).expired

(* docs/JARVIS-TASK-WORKSPACE-IMPLEMENTATION-PLAN.md:72: the leases ensure *)
(* that one worker owns a task.  The code does not keep this: a lease      *)
(* covers one generation's job (README).                                   *)
OneWorkerOwnsTask ==
    \A v, w \in Workers :
        /\ wk[v].pc \in Executing /\ HasLease(v)
        /\ wk[w].pc \in Executing /\ HasLease(w)
        /\ wk[v].task = wk[w].task
        => v = w

(* app/tasks/service.py:104: the final workspace is bound before any       *)
(* worker can claim the job.  The code does not keep this: recover_queued  *)
(* may enqueue the task before (README).                                   *)
BoundBeforeClaim ==
    \A t \in Tasks : task[t].status = "running" => task[t].bound

(* A stopped task is left alone at last: also when the process dies        *)
(* between pause or cancel and request_cancel, or when the job's lease is  *)
(* lost, no worker keeps coming back to it.                                *)
StopEndsTheRun ==
    \A t \in Tasks :
        <>[](task[t].status \in {"cancelled", "deleted"}
             => \A w \in Workers : wk[w].task # t)

(* A queued task is run, withdrawn by its owner, or its job is out of      *)
(* attempts or cancelled by the operator: the generations and the enqueue  *)
(* of concurrent requests and of recover_queued leave it a job.            *)
QueuedTaskIsTaken ==
    \A t \in Tasks :
        task[t].status = "queued"
        ~> \/ task[t].status # "queued"
           \/ job[t][task[t].gen].status \in {"dead_letter", "cancelled"}

(* The agent.task.v1 rows of durable_jobs, one per task and generation,    *)
(* keep the promises of JobLedger, whatever owners, operators, lost leases *)
(* and restarted workers do to them (app/tasks/worker.py settles its jobs  *)
(* by the methods of the same repository).                                 *)
JobKeys == Tasks \X Gens

JobsView == [k \in JobKeys |-> LedgerEntry(job[k[1]][k[2]])]

Ledger == INSTANCE JobLedger WITH Jobs <- JobKeys, ledger <- JobsView

LedgerSpec == Ledger!Spec
=============================================================================
