------------------------ MODULE TaskWorkspace_proofs ------------------------
(***************************************************************************)
(* The inductive invariant of TaskWorkspace, that a task never names or    *)
(* loses the job of its present generation, that what the owner paused or  *)
(* cancelled stays so, and that a run decides on all the owner said: for   *)
(* any set of tasks, workers and requests, any bounds and all failures.    *)
(***************************************************************************)
EXTENDS TaskWorkspace, JobRows_proofs

(* The two moves of a task: within its generation, where only a live task  *)
(* is live afterwards, and on to the next generation.                      *)
WithinGen(r, s) ==
    /\ s \in Task
    /\ s.used <= s.limit
    /\ s.gen = r.gen
    /\ s.active \in {0, r.active, r.gen}
    /\ \/ s.status = r.status
       \/ s.status \notin Live \cup Gone
       \/ s.status = "running" /\ r.status \in Live
       \/ s.status = "deleted"
    /\ r.status = "absent" => s = r

NextGen(r, s) ==
    /\ s \in Task
    /\ s.used <= s.limit
    /\ s.gen = r.gen + 1
    /\ s.active = 0
    /\ s.status = "queued"

TaskMoves(t) ==
    WithinGen(task[t], task'[t]) \/ NextGen(task[t], task'[t])

(* A row keeps its type, is filled for a generation the task has reached,  *)
(* and completed when that generation is over.                             *)
RowMoves(t, g) ==
    /\ Sound(job'[t][g])
    /\ job[t][g].status = "absent" /\ g > task[t].gen
         => job'[t][g].status = "absent"
    /\ job'[t][g].status = "completed"
         => \/ job[t][g].status = "completed"
            \/ /\ g <= task[t].gen
               /\ ~(task[t].status \in Live /\ task[t].gen = g)

TasksMove ==
    /\ task' = [t \in Tasks |-> task'[t]]
    /\ \A t \in Tasks : TaskMoves(t)

RowsMove ==
    /\ job' = [t \in Tasks |-> [g \in Gens |-> job'[t][g]]]
    /\ \A t \in Tasks, g \in Gens : RowMoves(t, g)

TablesMove ==
    TasksMove /\ RowsMove /\ requeues' \in [Tasks -> 0 .. MaxRequeues]

CallsMove ==
    /\ call' \in [Processes -> SUBSET Calls]
    /\ \A p \in Processes : \A c \in call'[p] : c \in call[p] \/ CallOK(c)'

RunsMove ==
    /\ wk' \in [Workers -> Run]
    /\ \A w \in Workers : wk'[w] = wk[w] \/ RunOK(w)'

----------------------------------------------------------------------------
(* What the moves preserve *)

LEMMA TaskFacts ==
    ASSUME IInv, NEW t \in Tasks
    PROVE  /\ task[t] \in Task
           /\ task[t].used <= task[t].limit
           /\ task[t].gen \in 0 .. MaxGen
           /\ task[t].active \in {0, task[t].gen}
           /\ task[t].gen = 0 <=> task[t].status = "absent"
BY DEF IInv, TypeOK, TasksOK, ActiveJobIsCurrent, Task

LEMMA RowFacts ==
    ASSUME IInv, NEW t \in Tasks, NEW g \in Gens
    PROVE  /\ job[t][g] \in Row
           /\ Sound(job[t][g])
           /\ g > task[t].gen => job[t][g].status = "absent"
           /\ task[t].status \in Live /\ task[t].gen = g
                => job[t][g].status # "completed"
BY DEF IInv, TypeOK, RowsOK, LiveTaskKeepsItsJob, Sound

LEMMA TablesKeepTheirInvariants ==
    ASSUME IInv, TablesMove
    PROVE  /\ task' \in [Tasks -> Task]
           /\ \A t \in Tasks : task'[t].used <= task'[t].limit
           /\ job' \in [Tasks -> [Gens -> Row]]
           /\ TasksOK' /\ ActiveJobIsCurrent'
           /\ RowsOK' /\ LiveTaskKeepsItsJob'
<1>1. /\ task' \in [Tasks -> Task]
      /\ \A t \in Tasks : task'[t].used <= task'[t].limit
  BY DEF TablesMove, TasksMove, RowsMove, TaskMoves, WithinGen, NextGen
<1>2. job' \in [Tasks -> [Gens -> Row]]
  BY DEF TablesMove, TasksMove, RowsMove, RowMoves, Sound
<1>3. TasksOK' /\ ActiveJobIsCurrent'
  <2> SUFFICES ASSUME NEW t \in Tasks
               PROVE  /\ task'[t].gen = 0 <=> task'[t].status = "absent"
                      /\ task'[t].active \in {0, task'[t].gen}
    BY DEF TasksOK, ActiveJobIsCurrent
  <2>1. TaskMoves(t)
    BY DEF TablesMove, TasksMove, RowsMove
  <2>2. CASE WithinGen(task[t], task'[t])
    BY <2>2, TaskFacts DEF WithinGen, Gone
  <2>3. CASE NextGen(task[t], task'[t])
    BY <2>3, TaskFacts DEF NextGen
  <2>4. QED  BY <2>1, <2>2, <2>3 DEF TaskMoves
<1>4. RowsOK'
  <2> SUFFICES ASSUME NEW t \in Tasks, NEW g \in Gens
               PROVE  /\ job'[t][g].status = "absent"
                           => job'[t][g] = AbsentRow
                      /\ g > task'[t].gen => job'[t][g].status = "absent"
    BY DEF RowsOK
  <2>1. TaskMoves(t) /\ RowMoves(t, g)
    BY DEF TablesMove, TasksMove, RowsMove
  <2>2. g > task'[t].gen => g > task[t].gen
    BY <2>1, TaskFacts, <1>1 DEF TaskMoves, WithinGen, NextGen, Gens, Task
  <2>3. QED  BY <2>1, <2>2, RowFacts DEF RowMoves, Sound
<1>5. LiveTaskKeepsItsJob'
  <2> SUFFICES ASSUME NEW t \in Tasks, task'[t].status \in Live
               PROVE  job'[t][task'[t].gen].status # "completed"
    BY DEF LiveTaskKeepsItsJob
  <2> DEFINE g == task'[t].gen
  <2>1. TaskMoves(t)
    BY DEF TablesMove, TasksMove, RowsMove
  <2>2. CASE WithinGen(task[t], task'[t])
    <3>1. task[t].status \in Live /\ g = task[t].gen /\ g \in Gens
      BY <2>2, TaskFacts, LimitsAssumption
      DEF WithinGen, Live, Gone, Gens
    <3>2. QED
      BY <3>1, RowFacts DEF TablesMove, TasksMove, RowsMove, RowMoves
  <2>3. CASE NextGen(task[t], task'[t])
    <3>1. g \in Gens /\ g > task[t].gen
      BY <2>3, <1>1, TaskFacts, LimitsAssumption DEF NextGen, Task, Gens
    <3>2. job[t][g].status = "absent"
      BY <3>1, RowFacts
    <3>3. QED
      BY <3>1, <3>2, TaskFacts DEF TablesMove, TasksMove, RowsMove, RowMoves, Gens
  <2>4. QED  BY <2>1, <2>2, <2>3 DEF TaskMoves
<1>6. QED  BY <1>1, <1>2, <1>3, <1>4, <1>5

(* A call or a run that a step leaves alone stays sound. *)
LEMMA CallsStay ==
    ASSUME IInv, TablesMove, CallsMove
    PROVE  CallsOK'
<1> SUFFICES ASSUME NEW p \in Processes, NEW c \in call'[p]
             PROVE  CallOK(c)'
  BY DEF CallsOK
<1>1. CASE c \in call[p]
  <2>1. CallOK(c) /\ c \in Calls
    BY <1>1 DEF IInv, CallsOK, TypeOK
  <2>2. c.task \in Tasks /\ c.gen \in 0 .. MaxGen
    BY <2>1 DEF Calls
  <2>3. task[c.task].gen <= task'[c.task].gen
    BY <2>2, TaskFacts DEF TablesMove, TasksMove, RowsMove, TaskMoves, WithinGen, NextGen
  <2>4. task'[c.task].gen \in 0 .. MaxGen
    BY <2>2, TablesKeepTheirInvariants DEF Task
  <2>5. QED
    BY <2>1, <2>2, <2>3, <2>4, TaskFacts, LimitsAssumption DEF CallOK, Gens
<1>2. QED  BY <1>1 DEF CallsMove

LEMMA RunsStay ==
    ASSUME IInv, TablesMove, NEW w \in Workers, wk'[w] = wk[w]
    PROVE  RunOK(w)'
<1> SUFFICES ASSUME wk[w].pc # "idle"
             PROVE  RunOK(w)'
  BY DEF RunOK
<1> DEFINE t == wk[w].task
<1>1. RunOK(w) /\ wk[w] \in Run
  BY DEF IInv, RunsOK, TypeOK
<1>2. t \in Tasks /\ wk[w].gen \in Gens /\ wk[w].gen <= task[t].gen
  BY <1>1 DEF RunOK, Mine
<1>3. TaskMoves(t)
  BY <1>2 DEF TablesMove, TasksMove, RowsMove
<1>4. task[t].gen \in 0 .. MaxGen /\ wk[w].gen \in 0 .. MaxGen
  BY <1>2, TaskFacts, LimitsAssumption DEF Gens
<1>5. CASE WithinGen(task[t], task'[t])
  <2>1. /\ task'[t].gen = task[t].gen
        /\ task'[t].status = "queued" => task[t].status = "queued"
        /\ task'[t].status \in Live => task[t].status \in Live
    BY <1>5 DEF WithinGen, Live, Gone
  <2>2. QED
    BY <1>1, <1>2, <2>1 DEF RunOK, Mine
<1>6. CASE NextGen(task[t], task'[t])
  <2>1. task'[t].gen = task[t].gen + 1
    BY <1>6 DEF NextGen
  <2>2. wk[w].gen # task'[t].gen /\ wk[w].gen <= task'[t].gen
    BY <1>2, <1>4, <2>1
  <2>3. QED
    BY <1>2, <2>2 DEF RunOK, Mine
<1>7. QED  BY <1>3, <1>5, <1>6 DEF TaskMoves

LEMMA MovesKeepIInv ==
    ASSUME IInv, TablesMove, CallsMove, RunsMove
    PROVE  IInv'
<1>1. RunsOK'
  BY RunsStay DEF RunsMove, RunsOK
<1>2. TypeOK'
  BY TablesKeepTheirInvariants DEF TypeOK, TablesMove, CallsMove, RunsMove
<1>3. QED
  BY <1>1, <1>2, CallsStay, TablesKeepTheirInvariants DEF IInv

----------------------------------------------------------------------------
(* The moves of one row of each table *)

LEMMA TasksStay ==
    ASSUME IInv, task' = task
    PROVE  TasksMove
BY TaskFacts DEF TasksMove, TaskMoves, WithinGen, IInv, TypeOK

LEMMA OneTaskMoves ==
    ASSUME IInv, NEW t \in Tasks, NEW r, task' = [task EXCEPT ![t] = r],
           WithinGen(task[t], r) \/ NextGen(task[t], r)
    PROVE  TasksMove
<1>1. \A u \in Tasks : task'[u] = IF u = t THEN r ELSE task[u]
  BY DEF IInv, TypeOK
<1>2. \A u \in Tasks : WithinGen(task[u], task[u])
  BY TaskFacts DEF WithinGen
<1>3. QED
  BY <1>1, <1>2 DEF TasksMove, TaskMoves, IInv, TypeOK

LEMMA RowStays ==
    ASSUME IInv, NEW t \in Tasks, NEW g \in Gens, job'[t][g] = job[t][g]
    PROVE  RowMoves(t, g)
BY RowFacts DEF RowMoves

LEMMA RowsStay ==
    ASSUME IInv, job' = job
    PROVE  RowsMove
BY RowStays DEF RowsMove, IInv, TypeOK

LEMMA OneRowMoves ==
    ASSUME IInv, NEW t \in Tasks, NEW g \in Gens, NEW r,
           job' = [job EXCEPT ![t][g] = r],
           Sound(r),
           job[t][g].status = "absent" =>
               r.status = "absent" \/ g <= task[t].gen,
           r.status = "completed" =>
               \/ job[t][g].status = "completed"
               \/ g <= task[t].gen
                  /\ ~(task[t].status \in Live /\ task[t].gen = g)
    PROVE  RowsMove
<1>1. job \in [Tasks -> [Gens -> Row]]
  BY DEF IInv, TypeOK
<1>2. \A u \in Tasks, h \in Gens :
         job'[u][h] = IF u = t /\ h = g THEN r ELSE job[u][h]
  BY <1>1
<1>3. RowMoves(t, g)
  <2>1. g \in Int /\ task[t].gen \in Int
    BY TaskFacts, LimitsAssumption DEF Gens
  <2>2. QED
    BY <1>2, <2>1 DEF RowMoves
<1>4. \A u \in Tasks, h \in Gens : RowMoves(u, h)
  BY <1>2, <1>3, RowStays
<1>5. job' = [u \in Tasks |-> [h \in Gens |-> job'[u][h]]]
  BY <1>1
<1>6. QED  BY <1>4, <1>5 DEF RowsMove

LEMMA RequeuesStay ==
    ASSUME IInv, requeues' = requeues
    PROVE  requeues' \in [Tasks -> 0 .. MaxRequeues]
BY DEF IInv, TypeOK

LEMMA CallsUnchanged ==
    ASSUME IInv, call' = call
    PROVE  CallsMove
BY DEF CallsMove, IInv, TypeOK

LEMMA OneCallMoves ==
    ASSUME IInv, NEW p \in Processes, NEW S \in SUBSET Calls,
           call' = [call EXCEPT ![p] = S],
           \A c \in S : c \in call[p] \/ CallOK(c)'
    PROVE  CallsMove
<1>1. \A q \in Processes : call'[q] = IF q = p THEN S ELSE call[q]
  BY DEF IInv, TypeOK
<1>2. QED
  BY <1>1 DEF CallsMove, IInv, TypeOK

LEMMA RunsUnchanged ==
    ASSUME IInv, wk' = wk
    PROVE  RunsMove
BY DEF RunsMove, IInv, TypeOK

LEMMA OneRunMoves ==
    ASSUME IInv, NEW w \in Workers, NEW r \in Run,
           wk' = [wk EXCEPT ![w] = r], RunOK(w)'
    PROVE  RunsMove
BY DEF RunsMove, IInv, TypeOK

----------------------------------------------------------------------------
(* Service calls *)

LEMMA CallFacts ==
    ASSUME IInv, NEW p \in Processes, NEW c \in call[p]
    PROVE  /\ c \in Calls /\ c.task \in Tasks
           /\ c.gen \in 0 .. MaxGen
           /\ CallOK(c)
           /\ c.op \notin {"bind", "delete"} => c.gen \in Gens
           /\ call[p] \in SUBSET Calls
           /\ call[p] \ {c} \in SUBSET Calls
<1>1. c \in Calls /\ call[p] \in SUBSET Calls /\ CallOK(c)
  BY DEF IInv, TypeOK, CallsOK
<1>2. QED
  BY <1>1 DEF Calls, CallOK

LEMMA DoneMoves ==
    ASSUME IInv, NEW p \in Processes, NEW c \in call[p], Done(p, c)
    PROVE  CallsMove
<1> DEFINE S == call[p] \ {c}
<1>1. S \in SUBSET Calls /\ call' = [call EXCEPT ![p] = S]
  BY CallFacts DEF Done
<1>2. \A e \in S : e \in call[p]
  OBVIOUS
<1> HIDE DEF S
<1>3. QED
  BY <1>1, <1>2, OneCallMoves

LEMMA ThenMoves ==
    ASSUME IInv, NEW p \in Processes, NEW c \in call[p], NEW d \in Calls,
           Then(p, c, d), CallOK(d)'
    PROVE  CallsMove
<1>1. (call[p] \ {c}) \cup {d} \in SUBSET Calls
  BY CallFacts
<1>2. QED
  BY <1>1, OneCallMoves DEF Then

LEMMA BoundTask ==
    ASSUME NEW r \in Task, r.used <= r.limit, r.status # "absent"
    PROVE  WithinGen(r, [r EXCEPT !.bound = TRUE])
BY DEF WithinGen, Task

LEMMA AdvancedTask ==
    ASSUME NEW r \in Task, r.used <= r.limit, r.status = "queued",
           r.gen < MaxGen
    PROVE  NextGen(r, [r EXCEPT !.gen = r.gen + 1, !.active = 0])
<1>1. r.gen + 1 \in 0 .. MaxGen /\ 0 \in 0 .. MaxGen
  BY LimitsAssumption DEF Task
<1>2. QED
  BY <1>1 DEF NextGen, Task

LEMMA BindMoves ==
    ASSUME IInv, NEW p \in Processes, NEW c \in call[p], Bind(p, c)
    PROVE  TablesMove /\ CallsMove /\ RunsMove
<1> DEFINE t == c.task
           r == [task[t] EXCEPT !.bound = TRUE]
           d == ToDo("enqueue", t, task[t].gen)
<1>1. t \in Tasks /\ wk' = wk /\ job' = job /\ requeues' = requeues
  BY CallFacts DEF Bind
<1>2. CASE task[t].status = "queued" /\ task[t].active = 0
  <2>1. task' = [task EXCEPT ![t] = r] /\ Then(p, c, d)
    BY <1>2 DEF Bind
  <2>2. WithinGen(task[t], r)
    BY <1>1, <1>2, TaskFacts, BoundTask
  <2>3. TasksMove
    BY <1>1, <2>1, <2>2, OneTaskMoves
  <2>4. d \in Calls /\ CallOK(d)'
    <3>1. task[t].gen \in Gens /\ task'[t].gen = task[t].gen
      BY <1>1, <1>2, <2>1, <2>2, TaskFacts, LimitsAssumption
      DEF Gens, WithinGen, IInv, TypeOK
    <3>2. QED
      BY <1>1, <3>1, LimitsAssumption DEF ToDo, Calls, CallOK, Gens
  <2>5. CallsMove
    BY <2>1, <2>4, ThenMoves
  <2>6. QED
    BY <1>1, <2>3, <2>5, RowsStay, RequeuesStay, RunsUnchanged DEF TablesMove
<1>3. CASE ~(task[t].status = "queued" /\ task[t].active = 0)
  BY <1>1, <1>3, DoneMoves, TasksStay, RowsStay, RequeuesStay, RunsUnchanged
  DEF Bind, TablesMove
<1>4. QED  BY <1>2, <1>3

LEMMA EnqueuedRow ==
    ASSUME NEW r, Sound(r)
    PROVE  /\ Sound(Enqueued(r, TRUE))
           /\ Enqueued(r, TRUE).status = "completed"
                => r.status = "completed"
<1>1. Sound(Enqueued(r, TRUE))
  BY RequestsAreSteady DEF Steady
<1>2. Enqueued(r, TRUE).status = "completed" => r.status = "completed"
  BY DEF Enqueued, AbsentRow
<1>3. QED  BY <1>1, <1>2

LEMMA EnqueueMoves ==
    ASSUME IInv, NEW p \in Processes, NEW c \in call[p], Enqueue(p, c)
    PROVE  TablesMove /\ CallsMove /\ RunsMove
<1> DEFINE t == c.task
           g == c.gen
<1>0. PICK op \in {"advance", "point"} : Then(p, c, [c EXCEPT !.op = op])
  BY DEF Enqueue
<1> DEFINE d == [c EXCEPT !.op = op]
<1>1. /\ t \in Tasks /\ g \in Gens /\ c \in Calls /\ CallOK(c)
      /\ wk' = wk /\ task' = task /\ requeues' = requeues
      /\ job' = [job EXCEPT ![t][g] = Enqueued(job[t][g], TRUE)]
      /\ Then(p, c, d)
  BY <1>0, CallFacts DEF Enqueue, SetRow
<1>2. RowsMove
  <2>1. g <= task[t].gen
    BY <1>1 DEF CallOK
  <2>2. QED
    BY <1>1, <2>1, EnqueuedRow, RowFacts, OneRowMoves
<1>3. d \in Calls /\ d.gen = g /\ d.task = t
  BY <1>1 DEF Calls
<1>4. CallOK(d)'
  BY <1>1, <1>3 DEF CallOK
<1>5. CallsMove
  BY <1>1, <1>3, <1>4, ThenMoves
<1>6. QED
  BY <1>1, <1>2, <1>5, TasksStay, RequeuesStay, RunsUnchanged DEF TablesMove

(* recover_queued finds only tasks that have a generation. *)
LEMMA RecoveryIsSound ==
    ASSUME IInv
    PROVE  /\ Recovery \in SUBSET Calls
           /\ task' = task => \A c \in Recovery : CallOK(c)'
<1> SUFFICES ASSUME NEW c \in Recovery
             PROVE  c \in Calls /\ (task' = task => CallOK(c)')
  OBVIOUS
<1>1. PICK t \in Tasks : /\ task[t].status = "queued"
                         /\ c = ToDo("enqueue", t, task[t].gen)
  BY DEF Recovery
<1>2. task[t].gen \in Gens
  BY <1>1, TaskFacts, LimitsAssumption DEF Gens
<1>3. QED
  BY <1>1, <1>2, LimitsAssumption DEF ToDo, Calls, CallOK, Gens

LEMMA AdvanceMoves ==
    ASSUME IInv, NEW p \in Processes, NEW c \in call[p], Advance(p, c)
    PROVE  TablesMove /\ CallsMove /\ RunsMove
<1> DEFINE t == c.task
           r == [task[t] EXCEPT !.gen = task[t].gen + 1, !.active = 0]
           d == ToDo("enqueue", t, c.gen + 1)
<1>1. /\ t \in Tasks /\ c.gen \in Gens
      /\ wk' = wk /\ job' = job /\ requeues' = requeues
  BY CallFacts DEF Advance
<1>2. CASE task[t].status = "queued" /\ task[t].gen = c.gen
  <2>1. /\ task' = [task EXCEPT ![t] = r] /\ Then(p, c, d)
        /\ c.gen < MaxGen
    BY <1>1, <1>2 DEF Advance
  <2>2. NextGen(task[t], r)
    BY <1>1, <1>2, <2>1, TaskFacts, AdvancedTask
  <2>3. TasksMove
    BY <1>1, <2>1, <2>2, OneTaskMoves
  <2>4. d \in Calls /\ CallOK(d)'
    <3>1. c.gen + 1 \in Gens /\ task'[t].gen = c.gen + 1
      BY <1>1, <1>2, <2>1, <2>2, LimitsAssumption
      DEF Gens, NextGen, IInv, TypeOK
    <3>2. QED
      BY <1>1, <3>1, LimitsAssumption DEF ToDo, Calls, CallOK, Gens
  <2>5. CallsMove
    BY <2>1, <2>4, ThenMoves
  <2>6. QED
    BY <1>1, <2>3, <2>5, RowsStay, RequeuesStay, RunsUnchanged DEF TablesMove
<1>3. CASE ~(task[t].status = "queued" /\ task[t].gen = c.gen)
  <2> DEFINE S == IF p \in Workers THEN Recovery ELSE {}
  <2>1. task' = task /\ call' = [call EXCEPT ![p] = S]
    BY <1>3 DEF Advance
  <2>2. S \in SUBSET Calls /\ \A e \in S : CallOK(e)'
    BY <2>1, RecoveryIsSound
  <2>3. CallsMove
    BY <2>1, <2>2, OneCallMoves
  <2>4. QED
    BY <1>1, <2>1, <2>3, TasksStay, RowsStay, RequeuesStay, RunsUnchanged
    DEF TablesMove
<1>4. QED  BY <1>2, <1>3

LEMMA PointedTask ==
    ASSUME NEW r \in Task, r.used <= r.limit, r.status # "absent"
    PROVE  WithinGen(r, [r EXCEPT !.active = r.gen])
BY DEF WithinGen, Task

LEMMA PointMoves ==
    ASSUME IInv, NEW p \in Processes, NEW c \in call[p], Point(p, c)
    PROVE  TablesMove /\ CallsMove /\ RunsMove
<1> DEFINE t == c.task
<1>1. /\ t \in Tasks /\ wk' = wk /\ job' = job /\ requeues' = requeues
      /\ Done(p, c)
  BY CallFacts DEF Point
<1>2. TasksMove
  <2>1. CASE task[t].status = "queued" /\ task[t].gen = c.gen
    <3> DEFINE r == [task[t] EXCEPT !.active = task[t].gen]
    <3>1. task' = [task EXCEPT ![t] = r]
      BY <2>1 DEF Point
    <3>2. WithinGen(task[t], r)
      BY <1>1, <2>1, TaskFacts, PointedTask
    <3>3. QED  BY <1>1, <3>1, <3>2, OneTaskMoves
  <2>2. CASE ~(task[t].status = "queued" /\ task[t].gen = c.gen)
    BY <2>2, TasksStay DEF Point
  <2>3. QED  BY <2>1, <2>2
<1>3. QED
  BY <1>1, <1>2, DoneMoves, RowsStay, RequeuesStay, RunsUnchanged
  DEF TablesMove

(* request_cancel of the service and of the operator *)
LEMMA CancelRequestedRow ==
    ASSUME NEW r, Sound(r)
    PROVE  /\ Sound(CancelRequested(r))
           /\ CancelRequested(r).status = "completed"
                => r.status = "completed"
           /\ r.status = "absent" => CancelRequested(r).status = "absent"
<1>1. Sound(CancelRequested(r))
  BY RequestsAreSteady DEF Steady
<1>2. /\ CancelRequested(r).status = "completed" => r.status = "completed"
      /\ r.status = "absent" => CancelRequested(r).status = "absent"
  BY DEF CancelRequested, Sound, Row, Unleased
<1>3. QED  BY <1>1, <1>2

LEMMA CancelRequestMoves ==
    ASSUME IInv, NEW t \in Tasks, NEW g \in Gens,
           SetRow(t, g, CancelRequested(job[t][g]))
    PROVE  RowsMove
BY CancelRequestedRow, RowFacts, OneRowMoves DEF SetRow

LEMMA RequestCancelMoves ==
    ASSUME IInv, NEW p \in Processes, NEW c \in call[p], RequestCancel(p, c)
    PROVE  TablesMove /\ CallsMove /\ RunsMove
<1>1. c.task \in Tasks /\ c.gen \in Gens
  BY CallFacts DEF RequestCancel
<1>2. QED
  BY <1>1, CancelRequestMoves, DoneMoves, TasksStay, RequeuesStay,
     RunsUnchanged
  DEF RequestCancel, TablesMove

LEMMA DeletedTask ==
    ASSUME NEW r \in Task, r.used <= r.limit, r.status # "absent"
    PROVE  WithinGen(r, [r EXCEPT !.status = "deleted"])
BY DEF WithinGen, Task, Gone

LEMMA DeleteRowMoves ==
    ASSUME IInv, NEW p \in Processes, NEW c \in call[p], DeleteRow(p, c)
    PROVE  TablesMove /\ CallsMove /\ RunsMove
<1> DEFINE t == c.task
           r == [task[t] EXCEPT !.status = "deleted"]
<1>1. /\ t \in Tasks /\ wk' = wk /\ job' = job /\ requeues' = requeues
      /\ Done(p, c)
  BY CallFacts DEF DeleteRow
<1>2. TasksMove
  <2>1. CASE task[t].status \in Live \cup Gone
    BY <2>1, TasksStay DEF DeleteRow
  <2>2. CASE task[t].status \notin Live \cup Gone
    <3>1. task' = [task EXCEPT ![t] = r]
      BY <2>2 DEF DeleteRow
    <3>2. WithinGen(task[t], r)
      BY <1>1, <2>2, TaskFacts, DeletedTask DEF Gone
    <3>3. QED  BY <1>1, <3>1, <3>2, OneTaskMoves
  <2>3. QED  BY <2>1, <2>2
<1>3. QED
  BY <1>1, <1>2, DoneMoves, RowsStay, RequeuesStay, RunsUnchanged
  DEF TablesMove

LEMMA CallStepMoves ==
    ASSUME IInv, NEW p \in Processes, CallStep(p)
    PROVE  TablesMove /\ CallsMove /\ RunsMove
BY BindMoves, EnqueueMoves, AdvanceMoves, PointMoves, RequestCancelMoves,
   DeleteRowMoves
DEF CallStep

----------------------------------------------------------------------------
(* The owner's requests *)

(* A request that leaves the other tables alone. *)
LEMMA RequestMoves ==
    ASSUME IInv, TasksMove, CallsMove, UNCHANGED <<job, wk, requeues>>
    PROVE  TablesMove /\ CallsMove /\ RunsMove
BY RowsStay, RequeuesStay, RunsUnchanged DEF TablesMove

LEMMA RequestCalls ==
    ASSUME IInv, NEW r \in Requests, NEW S \in SUBSET Calls,
           call' = [call EXCEPT ![r] = S], \A c \in S : CallOK(c)'
    PROVE  CallsMove
BY OneCallMoves DEF Processes

LEMMA CreatedTask ==
    ASSUME NEW r \in Task, r.gen = 0
    PROVE  NextGen(r, NewTask) /\ NewTask.gen = 1 /\ 1 \in Gens
BY LimitsAssumption DEF NewTask, NextGen, Task, Live, Gens

LEMMA CreateMoves ==
    ASSUME IInv, NEW r \in Requests, NEW t \in Tasks, Create(r, t)
    PROVE  TablesMove /\ CallsMove /\ RunsMove
<1> DEFINE d == ToDo("bind", t, 1)
<1>1. /\ task' = [task EXCEPT ![t] = NewTask]
      /\ call' = [call EXCEPT ![r] = {d}]
      /\ UNCHANGED <<job, wk, requeues>>
      /\ task[t].gen = 0
  BY TaskFacts DEF Create
<1>2. TasksMove
  BY <1>1, CreatedTask, TaskFacts, OneTaskMoves
<1>3. task'[t].gen = 1
  BY <1>1, CreatedTask, TaskFacts DEF IInv, TypeOK
<1>4. d \in Calls /\ CallOK(d)'
  BY <1>3, LimitsAssumption DEF ToDo, Calls, CallOK
<1>5. QED
  BY <1>1, <1>2, <1>4, RequestCalls, RequestMoves

(* What a request may do to the status of a task within its generation. *)
LEMMA SteeredTask ==
    ASSUME NEW r \in Task, r.used <= r.limit, r.status \notin Gone,
           NEW s \in Final \cup Paused \cup {r.status},
           NEW m \in {r.messages, r.messages + 1}
    PROVE  WithinGen(r, [r EXCEPT !.messages = m, !.steer = r.steer + 1,
                                  !.status = s])
<1>1. m \in Nat /\ r.steer + 1 \in Nat
  BY DEF Task
<1>2. s \in Final \cup Resumed \cup Paused \cup Live \cup Gone
  BY DEF Task
<1>3. s = r.status \/ s \notin Live \cup Gone
  BY DEF Final, Paused, Live, Gone
<1>4. QED
  BY <1>1, <1>2, <1>3 DEF WithinGen, Task, Gone

LEMMA NextRunTask ==
    ASSUME NEW r \in Task, r.used <= r.limit, r.gen < MaxGen,
           NEW m \in Nat, NEW l \in Nat, r.used <= l
    PROVE  NextGen(r, [r EXCEPT !.messages = m, !.limit = l,
                         !.status = "queued", !.steer = r.steer + 1,
                         !.gen = r.gen + 1, !.active = 0])
<1>1. r.steer + 1 \in Nat /\ r.gen + 1 \in 0 .. MaxGen /\ 0 \in 0 .. MaxGen
  BY LimitsAssumption DEF Task
<1>2. "queued" \in Live
  BY DEF Live
<1>3. QED
  BY <1>1, <1>2 DEF NextGen, Task

LEMMA NextRunMoves ==
    ASSUME IInv, NEW r \in Requests, NEW t \in Tasks,
           NEW m \in Nat, NEW l \in Nat, task[t].used <= l,
           NextRun(r, t, [task[t] EXCEPT !.messages = m, !.limit = l]),
           UNCHANGED <<job, wk, requeues>>
    PROVE  TablesMove /\ CallsMove /\ RunsMove
<1> DEFINE n == [task[t] EXCEPT !.messages = m, !.limit = l,
                   !.status = "queued", !.steer = task[t].steer + 1,
                   !.gen = task[t].gen + 1, !.active = 0]
<1>1. task[t] \in Task /\ task[t].used <= task[t].limit
  BY TaskFacts
<1>a. PICK g : g = task[t].gen + 1
  OBVIOUS
<1> DEFINE d == ToDo("enqueue", t, g)
<1>2. /\ task[t].gen < MaxGen
      /\ task' = [task EXCEPT ![t] = n]
      /\ call' = [call EXCEPT ![r] = {d}]
  BY <1>1, <1>a DEF NextRun, Task
<1>3. NextGen(task[t], n)
  BY <1>1, <1>2, NextRunTask
<1>4. TasksMove
  BY <1>2, <1>3, OneTaskMoves
<1>5. g \in Gens /\ task'[t].gen = g
  <2>1. task'[t] = n
    BY <1>2 DEF IInv, TypeOK
  <2>2. QED
    <3>1. n.gen = task[t].gen + 1 /\ n \in Task
      BY <1>3 DEF NextGen
    <3>2. n.gen \in 0 .. MaxGen /\ task[t].gen \in 0 .. MaxGen
      BY <1>1, <3>1 DEF Task
    <3> HIDE DEF n
    <3>3. QED
      BY <1>a, <2>1, <3>1, <3>2, LimitsAssumption DEF Gens
<1>6. d \in Calls /\ CallOK(d)'
  BY <1>5, LimitsAssumption DEF ToDo, Calls, CallOK, Gens
<1>7. QED
  BY <1>2, <1>4, <1>6, RequestCalls, RequestMoves

LEMMA MessageMoves ==
    ASSUME IInv, NEW r \in Requests, NEW t \in Tasks, Message(r, t)
    PROVE  TablesMove /\ CallsMove /\ RunsMove
<1> DEFINE m == task[t].messages + 1
           row == [task[t] EXCEPT !.messages = @ + 1]
<1>1. /\ task[t] \in Task /\ task[t].used <= task[t].limit
      /\ task[t].gen \in 0 .. MaxGen
      /\ m \in Nat /\ task[t].limit \in Nat /\ task[t].messages \in Nat
      /\ task[t].status \notin Gone
      /\ UNCHANGED <<job, wk, requeues>>
  BY TaskFacts DEF Message, Steers, Task
<1>2. CASE NextRun(r, t, row)
  <2>1. row = [task[t] EXCEPT !.messages = m, !.limit = task[t].limit]
    BY <1>1 DEF Task
  <2>2. QED
    BY <1>1, <1>2, <2>1, NextRunMoves
<1>3. CASE /\ task' = [task EXCEPT ![t] = [row EXCEPT !.steer = @ + 1]]
           /\ call' = [call EXCEPT ![r] =
                IF task[t].status = "queued"
                THEN {ToDo("enqueue", t, task[t].gen)} ELSE {}]
  <2> DEFINE n == [task[t] EXCEPT !.messages = m,
                     !.steer = task[t].steer + 1, !.status = task[t].status]
  <2>a. PICK g : g = task[t].gen
    OBVIOUS
  <2> DEFINE d == ToDo("enqueue", t, g)
             S == IF task[t].status = "queued" THEN {d} ELSE {}
  <2>1. [row EXCEPT !.steer = @ + 1] = n
    BY <1>1 DEF Task
  <2>2. WithinGen(task[t], n)
    BY <1>1, SteeredTask
  <2>3. task' = [task EXCEPT ![t] = n]
    BY <1>3, <2>1
  <2>4. TasksMove
    BY <2>2, <2>3, OneTaskMoves
  <2>5. task'[t].gen = g
    BY <2>a, <2>2, <2>3 DEF WithinGen, IInv, TypeOK
  <2>6. g # 0 /\ g \in 0 .. MaxGen
    BY <1>1, <2>a, TaskFacts DEF Gone
  <2>7. d \in Calls /\ CallOK(d)'
    BY <2>5, <2>6, LimitsAssumption DEF ToDo, Calls, CallOK, Gens
  <2>8. S \in SUBSET Calls /\ \A c \in S : CallOK(c)'
    BY <2>7
  <2>9. call' = [call EXCEPT ![r] = S]
    BY <1>3, <2>a
  <2> HIDE DEF S
  <2>10. QED
    BY <1>1, <2>4, <2>8, <2>9, RequestCalls, RequestMoves
<1>4. QED  BY <1>2, <1>3 DEF Message

LEMMA ContinueMoves ==
    ASSUME IInv, NEW r \in Requests, NEW t \in Tasks, Continue(r, t)
    PROVE  TablesMove /\ CallsMove /\ RunsMove
<1> DEFINE l == task[t].limit + Decisions
           row == [task[t] EXCEPT !.limit = @ + Decisions]
<1>1. /\ task[t] \in Task /\ task[t].used <= task[t].limit
      /\ l \in Nat /\ task[t].messages \in Nat /\ task[t].used <= l
  BY TaskFacts, LimitsAssumption DEF Task
<1>2. row = [task[t] EXCEPT !.messages = task[t].messages, !.limit = l]
  BY <1>1 DEF Task
<1>3. NextRun(r, t, row) /\ UNCHANGED <<job, wk, requeues>>
  BY DEF Continue
<1>4. QED
  BY <1>1, <1>2, <1>3, NextRunMoves

LEMMA OwnerTransitionMoves ==
    ASSUME IInv, NEW r \in Requests, NEW t \in Tasks,
           NEW status \in {"paused_user", "cancelled"},
           OwnerTransition(r, t, status)
    PROVE  TablesMove /\ CallsMove /\ RunsMove
<1> DEFINE n == [task[t] EXCEPT !.messages = task[t].messages,
                   !.steer = task[t].steer + 1, !.status = status]
<1>1. /\ task[t] \in Task /\ task[t].used <= task[t].limit
      /\ task[t].active \in {0, task[t].gen} /\ task[t].gen \in 0 .. MaxGen
      /\ UNCHANGED <<job, wk, requeues>>
      /\ call' = [call EXCEPT ![r] = CancelActiveJob(t)]
  BY TaskFacts DEF OwnerTransition
<1>2. TasksMove /\ task'[t].gen = task[t].gen
  <2>1. CASE task' = task
    BY <2>1, TasksStay
  <2>2. CASE /\ Steers(t)
             /\ task' = [task EXCEPT ![t].status = status,
                                     ![t].steer = @ + 1]
    <3>1. task' = [task EXCEPT ![t] = n]
      BY <1>1, <2>2 DEF Task
    <3>2. WithinGen(task[t], n)
      BY <1>1, <2>2, SteeredTask DEF Steers, Final, Paused
    <3>3. QED
      BY <3>1, <3>2, OneTaskMoves DEF WithinGen, IInv, TypeOK
  <2>3. QED  BY <2>1, <2>2 DEF OwnerTransition
<1>3. /\ CancelActiveJob(t) \in SUBSET Calls
      /\ \A c \in CancelActiveJob(t) : CallOK(c)'
  BY <1>1, <1>2, LimitsAssumption
  DEF CancelActiveJob, ToDo, Calls, CallOK, Gens
<1>4. QED
  BY <1>1, <1>2, <1>3, RequestCalls, RequestMoves

LEMMA OwnerMoves ==
    ASSUME IInv, NEW r \in Requests, NEW t \in Tasks, Owner(r, t)
    PROVE  TablesMove /\ CallsMove /\ RunsMove
<1>1. CASE Delete(r, t)
  <2> DEFINE S == {ToDo("delete", t, 0)}
  <2>1. task' = task /\ UNCHANGED <<job, wk, requeues>>
        /\ call' = [call EXCEPT ![r] = S]
    BY <1>1 DEF Delete
  <2>2. S \in SUBSET Calls /\ \A c \in S : CallOK(c)'
    BY <2>1, TaskFacts, LimitsAssumption DEF ToDo, Calls, CallOK
  <2> HIDE DEF S
  <2>3. QED
    BY <2>1, <2>2, TasksStay, RequestCalls, RequestMoves
<1>2. QED
  BY <1>1, CreateMoves, MessageMoves, ContinueMoves, OwnerTransitionMoves
  DEF Owner, Pause, Cancel

LEMMA RequestDiesMoves ==
    ASSUME IInv, NEW r \in Requests, RequestDies(r)
    PROVE  TablesMove /\ CallsMove /\ RunsMove
<1>1. task' = task /\ UNCHANGED <<job, wk, requeues>>
      /\ call' = [call EXCEPT ![r] = {}]
  BY DEF RequestDies
<1>2. {} \in SUBSET Calls /\ \A c \in {} : CallOK(c)'
  OBVIOUS
<1>3. QED
  BY <1>1, <1>2, TasksStay, RequestCalls, RequestMoves

----------------------------------------------------------------------------
(* Failures and the operator *)

(* A step that changes no task, call or run. *)
LEMMA RowsOnly ==
    ASSUME IInv, RowsMove, UNCHANGED <<task, wk, call>>,
           requeues' \in [Tasks -> 0 .. MaxRequeues]
    PROVE  TablesMove /\ CallsMove /\ RunsMove
BY TasksStay, CallsUnchanged, RunsUnchanged DEF TablesMove

LEMMA OperatorCancelMoves ==
    ASSUME IInv, NEW t \in Tasks, NEW g \in Gens, OperatorCancel(t, g)
    PROVE  TablesMove /\ CallsMove /\ RunsMove
BY CancelRequestMoves, RequeuesStay, RowsOnly DEF OperatorCancel

LEMMA OperatorRequeueMoves ==
    ASSUME IInv, NEW t \in Tasks, NEW g \in Gens, OperatorRequeue(t, g)
    PROVE  TablesMove /\ CallsMove /\ RunsMove
<1> DEFINE r == Requeued(job[t][g], TRUE)
<1>1. /\ job' = [job EXCEPT ![t][g] = r]
      /\ requeues' = [requeues EXCEPT ![t] = @ + 1]
      /\ requeues[t] < MaxRequeues
      /\ job[t][g].status # "absent"
      /\ UNCHANGED <<task, wk, call>>
  BY DEF OperatorRequeue, SetRow, CanRequeue
<1>2. Sound(r)
  BY RowFacts, RequeuedIsSteady DEF Steady
<1>3. r.status # "completed"
  BY RowFacts DEF Requeued, Unleased, Row
<1>4. RowsMove
  BY <1>1, <1>2, <1>3, OneRowMoves
<1>5. requeues' \in [Tasks -> 0 .. MaxRequeues]
  BY <1>1, LimitsAssumption DEF IInv, TypeOK
<1>6. QED
  BY <1>1, <1>4, <1>5, RowsOnly

LEMMA ExpireMoves ==
    ASSUME IInv, NEW t \in Tasks, NEW g \in Gens, Expire(t, g)
    PROVE  TablesMove /\ CallsMove /\ RunsMove
<1> DEFINE r == [job[t][g] EXCEPT !.expired = TRUE]
<1>1. /\ job' = [job EXCEPT ![t][g] = r]
      /\ job[t][g].status = "running"
      /\ UNCHANGED <<task, wk, call, requeues>>
  BY DEF Expire, SetRow
<1>2. Sound(r)
  BY <1>1, RowFacts, ExpiryIsSteady DEF Steady
<1>3. r.status = "running"
  BY <1>1, RowFacts DEF Row
<1>4. RowsMove
  BY <1>1, <1>2, <1>3, OneRowMoves
<1>5. QED
  BY <1>1, <1>4, RowsOnly, RequeuesStay

LEMMA IdleRun == Idle \in Run
BY LimitsAssumption DEF Idle, Run

LEMMA GoesIdle ==
    ASSUME IInv, NEW w \in Workers, wk' = [wk EXCEPT ![w] = Idle]
    PROVE  RunsMove
<1>1. wk'[w].pc = "idle"
  BY DEF IInv, TypeOK, Idle
<1>2. QED
  BY <1>1, IdleRun, OneRunMoves DEF RunOK

LEMMA RestartMoves ==
    ASSUME IInv, NEW w \in Workers, Restart(w)
    PROVE  TablesMove /\ CallsMove /\ RunsMove
<1>1. PICK S : S = Recovery
  OBVIOUS
<1>2. /\ call' = [call EXCEPT ![w] = S]
      /\ S \in SUBSET Calls /\ \A c \in S : CallOK(c)'
      /\ w \in Processes
  BY <1>1, RecoveryIsSound DEF Restart, Processes
<1>3. QED
  BY <1>2, OneCallMoves, TasksStay, RowsStay, RequeuesStay, GoesIdle
  DEF Restart, TablesMove

----------------------------------------------------------------------------
(* The workers *)

LEMMA RunFacts ==
    ASSUME IInv, NEW w \in Workers, wk[w].pc # "idle"
    PROVE  /\ wk[w] \in Run /\ wk[w].task \in Tasks
           /\ wk[w].gen \in Gens /\ wk[w].gen \in 0 .. MaxGen
           /\ wk[w].gen <= task[wk[w].task].gen
           /\ Mine(w) = task[wk[w].task]
           /\ MyJob(w) = job[wk[w].task][wk[w].gen]
           /\ Mine(w) \in Task /\ Mine(w).used <= Mine(w).limit
           /\ Mine(w).gen \in 0 .. MaxGen
           /\ Mine(w).status # "absent"
           /\ MyJob(w) \in Row /\ Sound(MyJob(w))
           /\ RunOK(w)
<1>1. RunOK(w) /\ wk[w] \in Run
  BY DEF IInv, RunsOK, TypeOK
<1>2. wk[w].task \in Tasks /\ wk[w].gen \in Gens
      /\ wk[w].gen <= task[wk[w].task].gen
  BY <1>1 DEF RunOK, Mine
<1>3. wk[w].gen \in 1 .. MaxGen /\ task[wk[w].task].gen \in 0 .. MaxGen
  BY <1>2, TaskFacts DEF Gens
<1>4. task[wk[w].task].status # "absent"
  BY <1>2, <1>3, TaskFacts, LimitsAssumption
<1>5. QED
  BY <1>1, <1>2, <1>3, <1>4, TaskFacts, RowFacts, LimitsAssumption
  DEF Mine, MyJob

(* A step of a run that changes no table. *)
LEMMA RunOnly ==
    ASSUME IInv, UNCHANGED <<task, job, call, requeues>>, RunsMove
    PROVE  TablesMove /\ CallsMove /\ RunsMove
BY TasksStay, RowsStay, RequeuesStay, CallsUnchanged DEF TablesMove

(* A run that keeps its task and generation, where it goes to pc: not      *)
(* among the tools of a task that is queued again, and to the completion   *)
(* of its job only when its generation is over.                            *)
LEMMA RunGoesOn ==
    ASSUME IInv, NEW w \in Workers, wk[w].pc # "idle", TasksMove,
           NEW n \in Run, wk' = [wk EXCEPT ![w] = n],
           n.task = wk[w].task, n.gen = wk[w].gen,
           n.pc \in Executing =>
               wk[w].pc \in Executing \/ task'[wk[w].task].status # "queued",
           n.pc = "complete" =>
               ~(task'[wk[w].task].status \in Live
                 /\ task'[wk[w].task].gen = wk[w].gen)
    PROVE  RunsMove
<1> DEFINE t == wk[w].task
           g == wk[w].gen
<1>0. PICK u, h : u = t /\ h = g
  OBVIOUS
<1>1. wk'[w] = n /\ wk'[w].task = u /\ wk'[w].gen = h
  BY <1>0 DEF IInv, TypeOK
<1>2. /\ u \in Tasks /\ h \in Gens /\ h <= task[u].gen
      /\ task[u].gen \in 0 .. MaxGen /\ h \in 0 .. MaxGen
      /\ wk[w].pc \in Executing
           => ~(task[u].status = "queued" /\ task[u].gen = h)
  BY <1>0, RunFacts DEF RunOK
<1>3. TaskMoves(u)
  BY <1>2 DEF TasksMove
<1>4. h <= task'[u].gen
  BY <1>2, <1>3 DEF TaskMoves, WithinGen, NextGen
<1>5. wk[w].pc \in Executing
        => ~(task'[u].status = "queued" /\ task'[u].gen = h)
  <2>1. CASE WithinGen(task[u], task'[u])
    BY <1>2, <2>1 DEF WithinGen, Live, Gone
  <2>2. CASE NextGen(task[u], task'[u])
    BY <1>2, <2>2 DEF NextGen
  <2>3. QED  BY <1>3, <2>1, <2>2 DEF TaskMoves
<1>6. RunOK(w)'
  BY <1>0, <1>1, <1>2, <1>4, <1>5 DEF RunOK, Mine
<1>7. QED  BY <1>6, OneRunMoves

(* What Goto leaves of a run. *)
WentOn(r, pc) ==
    IF pc \in {"complete", "acknowledge"}
    THEN [r EXCEPT !.pc = pc, !.steer = 0, !.read = 0, !.lost = FALSE]
    ELSE [r EXCEPT !.pc = pc]

LEMMA GotoRun ==
    ASSUME NEW r \in Run, NEW pc \in Executing \cup Ending
    PROVE  /\ WentOn(r, pc) \in Run
           /\ WentOn(r, pc).task = r.task
           /\ WentOn(r, pc).gen = r.gen
           /\ WentOn(r, pc).pc = pc
<1>1. CASE pc \in {"complete", "acknowledge"}
  BY <1>1 DEF Run, WentOn
<1>2. CASE pc \notin {"complete", "acknowledge"}
  BY <1>2 DEF Run, WentOn
<1>3. QED  BY <1>1, <1>2

LEMMA GotoMoves ==
    ASSUME IInv, NEW w \in Workers, wk[w].pc # "idle", TasksMove,
           NEW pc \in Executing \cup Ending, Goto(w, pc),
           pc \in Executing =>
               wk[w].pc \in Executing \/ task'[wk[w].task].status # "queued",
           pc = "complete" =>
               ~(task'[wk[w].task].status \in Live
                 /\ task'[wk[w].task].gen = wk[w].gen)
    PROVE  RunsMove
<1>1. wk[w] \in Run
  BY RunFacts
<1>2. PICK n : n = WentOn(wk[w], pc)
  OBVIOUS
<1>3. wk' = [wk EXCEPT ![w] = n]
  BY <1>1, <1>2 DEF Goto, WentOn
<1>4. n \in Run /\ n.task = wk[w].task /\ n.gen = wk[w].gen /\ n.pc = pc
  BY <1>1, <1>2, GotoRun, Zenon
<1>5. QED  BY <1>3, <1>4, RunGoesOn

(* A statement of the run that leaves the tables alone and goes on. *)
LEMMA GotoOnly ==
    ASSUME IInv, NEW w \in Workers, wk[w].pc \in Executing,
           NEW pc \in Executing \cup {"fail", "acknowledge"}, Goto(w, pc),
           UNCHANGED <<task, job, call, requeues>>
    PROVE  TablesMove /\ CallsMove /\ RunsMove
<1>1. wk[w].pc # "idle" /\ pc \in Executing \cup Ending /\ pc # "complete"
  BY DEF Executing, Ending
<1>2. RunsMove
  BY <1>1, TasksStay, GotoMoves
<1>3. QED
  BY <1>2, RunOnly

(* A run that gives up its task completes the job of a generation in which *)
(* nothing is left to do.                                                  *)
LEMMA StartedTask ==
    ASSUME NEW r \in Task, r.used <= r.limit, r.status \in Live
    PROVE  WithinGen(r, [r EXCEPT !.status = "running", !.active = r.gen])
BY DEF WithinGen, Task, Live

LEMMA BeginMoves ==
    ASSUME IInv, NEW w \in Workers, Begin(w)
    PROVE  TablesMove /\ CallsMove /\ RunsMove
<1>1. PICK t, g : t = wk[w].task /\ g = wk[w].gen
  OBVIOUS
<1>2. /\ wk[w].pc # "idle" /\ t \in Tasks /\ g \in Gens
      /\ Mine(w) = task[t] /\ task[t] \in Task
      /\ task[t].used <= task[t].limit
      /\ task[t].active \in {0, task[t].gen}
      /\ UNCHANGED <<job, call, requeues>>
  BY <1>1, RunFacts, TaskFacts DEF Begin
<1>3. CASE Starts(w)
  <2> DEFINE r == [task[t] EXCEPT !.status = "running",
                                  !.active = task[t].gen]
  <2>1. /\ task' = [task EXCEPT ![t] = r] /\ Goto(w, "check")
        /\ task[t].status \in Live
    BY <1>1, <1>2, <1>3 DEF Begin, Starts
  <2>2. WithinGen(task[t], r)
    BY <1>2, <2>1, StartedTask
  <2>3. TasksMove
    BY <1>2, <2>1, <2>2, OneTaskMoves
  <2>4. task'[t].status = "running"
    BY <1>2, <2>1 DEF IInv, TypeOK, Task
  <2>5. RunsMove
    BY <1>1, <1>2, <2>1, <2>3, <2>4, GotoMoves DEF Executing
  <2>6. QED
    BY <1>2, <2>3, <2>5, RowsStay, RequeuesStay, CallsUnchanged DEF TablesMove
<1>4. CASE ~Starts(w)
  <2>1. task' = task /\ TasksMove
    BY <1>4, TasksStay DEF Begin
  <2>2. ~(task[t].status \in Live /\ task[t].gen = g)
    BY <1>1, <1>2, <1>4 DEF Starts
  <2>3. PICK pc \in {"check", "complete"} :
            /\ Goto(w, pc)
            /\ pc = "check" => task[t].gen = g
    BY <1>1, <1>2, <1>4 DEF Begin
  <2>4. RunsMove
    BY <1>1, <1>2, <2>1, <2>2, <2>3, GotoMoves DEF Executing, Ending, Live
  <2>5. QED
    BY <1>2, <2>1, <2>4, RunOnly
<1>5. QED  BY <1>3, <1>4

LEMMA HeartbeatMoves ==
    ASSUME IInv, NEW w \in Workers, Heartbeat(w)
    PROVE  TablesMove /\ CallsMove /\ RunsMove
<1>1. PICK t, g : t = wk[w].task /\ g = wk[w].gen
  OBVIOUS
<1>2. /\ wk[w].pc # "idle" /\ wk[w].pc # "complete"
      /\ UNCHANGED <<task, call, requeues>>
  BY DEF Heartbeat, Executing
<1>3. /\ t \in Tasks /\ g \in Gens /\ MyJob(w) = job[t][g]
      /\ job[t][g] \in Row /\ wk[w] \in Run
  BY <1>1, <1>2, RunFacts
<1>4. CASE CanRenew(MyJob(w), w, wk[w].token)
  <2> DEFINE r == Renewed(job[t][g])
  <2>1. /\ job' = [job EXCEPT ![t][g] = r] /\ wk' = wk
        /\ job[t][g].status = "running"
    BY <1>1, <1>3, <1>4 DEF Heartbeat, SetRow, CanRenew, HeldBy
  <2>2. Sound(r) /\ r.status = "running"
    BY <1>3, <2>1 DEF Renewed, Sound, Row
  <2>3. RowsMove
    BY <1>3, <2>1, <2>2, OneRowMoves
  <2>4. QED
    BY <1>2, <2>1, <2>3, RowsOnly, RequeuesStay
<1>5. CASE ~CanRenew(MyJob(w), w, wk[w].token)
  <2> DEFINE n == [wk[w] EXCEPT !.lost = TRUE]
  <2>1. job' = job /\ wk' = [wk EXCEPT ![w] = n]
    BY <1>5 DEF Heartbeat
  <2>2. /\ n \in Run /\ n.task = wk[w].task /\ n.gen = wk[w].gen
        /\ n.pc = wk[w].pc
    BY <1>3 DEF Run
  <2>3. RunsMove
    BY <1>2, <2>1, <2>2, TasksStay, RunGoesOn
  <2>4. QED
    BY <1>2, <2>1, <2>3, RunOnly
<1>6. QED  BY <1>4, <1>5

LEMMA CheckMoves ==
    ASSUME IInv, NEW w \in Workers, Check(w)
    PROVE  TablesMove /\ CallsMove /\ RunsMove
<1>1. wk[w].pc # "idle" /\ wk[w].pc \in Executing
      /\ UNCHANGED <<task, job, call, requeues>>
  BY DEF Check, Executing
<1>2. CASE \E pc \in {"fail", "acknowledge", "budget"} : Goto(w, pc)
  BY <1>1, <1>2, GotoOnly DEF Executing
<1>3. CASE Goto(w, "complete") /\ Mine(w).status # "running"
  <2>1. RunOK(w) /\ Mine(w) = task[wk[w].task]
    BY <1>1, RunFacts
  <2>2. ~(Mine(w).status \in Live /\ Mine(w).gen = wk[w].gen)
    BY <1>1, <1>3, <2>1 DEF RunOK, Live
  <2>3. RunsMove
    BY <1>1, <1>3, <2>1, <2>2, TasksStay, GotoMoves DEF Ending
  <2>4. QED
    BY <1>1, <2>3, RunOnly
<1>4. QED
  BY <1>2, <1>3 DEF Check

(* The run under another steering revision. *)
LEMMA SteerMoves ==
    ASSUME IInv, NEW w \in Workers, wk[w].pc \in Executing,
           NEW pc \in Executing, NEW n \in Nat,
           wk' = [wk EXCEPT ![w].pc = pc, ![w].steer = n],
           UNCHANGED <<task, job, call, requeues>>
    PROVE  TablesMove /\ CallsMove /\ RunsMove
<1> DEFINE r == [wk[w] EXCEPT !.pc = pc, !.steer = n]
<1>1. wk[w].pc # "idle" /\ wk[w] \in Run /\ pc # "complete"
  BY RunFacts DEF Executing
<1>2. wk' = [wk EXCEPT ![w] = r]
  OBVIOUS
<1>3. r \in Run /\ r.task = wk[w].task /\ r.gen = wk[w].gen /\ r.pc = pc
  BY <1>1 DEF Run
<1>4. RunsMove
  BY <1>1, <1>2, <1>3, TasksStay, RunGoesOn
<1>5. QED  BY <1>4, RunOnly

LEMMA StepLimitMoves ==
    ASSUME IInv, NEW w \in Workers, StepLimit(w)
    PROVE  TablesMove /\ CallsMove /\ RunsMove
<1>1. wk[w].pc \in Executing /\ wk[w].pc # "idle" /\ "pausing" \in Executing
  BY DEF StepLimit, Executing
<1>2. PICK n : n = Mine(w).steer
  OBVIOUS
<1>3. n \in Nat
  BY <1>1, <1>2, RunFacts DEF Task
<1>4. QED
  BY <1>1, <1>2, <1>3, SteerMoves DEF StepLimit

LEMMA BudgetMoves ==
    ASSUME IInv, NEW w \in Workers, Budget(w)
    PROVE  TablesMove /\ CallsMove /\ RunsMove
<1>1. /\ wk[w].pc \in Executing /\ wk[w].pc # "idle"
      /\ UNCHANGED <<task, job, call, requeues>>
  BY DEF Budget, Executing
<1>2. CASE Mine(w).status \in Gone
  BY <1>1, <1>2, GotoOnly DEF Budget
<1>3. CASE Mine(w).status \notin Gone
  <2>1. PICK n, pc : /\ n = Mine(w).steer
                     /\ pc \in {"charge", "pausing"}
                     /\ wk' = [wk EXCEPT ![w].steer = n, ![w].pc = pc]
    BY <1>3 DEF Budget
  <2>2. n \in Nat /\ pc \in Executing
    BY <1>1, <2>1, RunFacts DEF Task, Executing
  <2>3. wk' = [wk EXCEPT ![w].pc = pc, ![w].steer = n]
    <3>1. wk[w] \in Run
      BY <1>1, RunFacts
    <3>2. [wk[w] EXCEPT !.steer = n, !.pc = pc]
            = [wk[w] EXCEPT !.pc = pc, !.steer = n]
      BY <3>1 DEF Run
    <3>3. QED  BY <2>1, <3>2
  <2>4. QED
    BY <1>1, <2>2, <2>3, SteerMoves
<1>4. QED  BY <1>2, <1>3

LEMMA ChargedTask ==
    ASSUME NEW r \in Task, r.used < r.limit, r.status # "absent"
    PROVE  WithinGen(r, [r EXCEPT !.used = r.used + 1])
<1>1. r.used + 1 \in Nat /\ r.used + 1 <= r.limit
  BY DEF Task
<1>2. QED
  BY <1>1 DEF WithinGen, Task

LEMMA ChargeMoves ==
    ASSUME IInv, NEW w \in Workers, Charge(w)
    PROVE  TablesMove /\ CallsMove /\ RunsMove
<1>1. /\ wk[w].pc \in Executing /\ wk[w].pc # "idle"
      /\ UNCHANGED <<job, call, requeues>>
  BY DEF Charge, Executing
<1>2. CASE task' = task
            /\ \E pc \in {"pausing", "fail", "check"} : Goto(w, pc)
  BY <1>1, <1>2, GotoOnly DEF Executing
<1>3. CASE /\ Mine(w).used < Mine(w).limit
           /\ task' = [task EXCEPT ![wk[w].task].used = @ + 1]
           /\ Goto(w, "prompt")
  <2>1. PICK t : t = wk[w].task
    OBVIOUS
  <2> DEFINE r == [task[t] EXCEPT !.used = task[t].used + 1]
  <2>2. /\ t \in Tasks /\ task[t] \in Task /\ task[t].used < task[t].limit
        /\ task[t].status # "absent"
        /\ task' = [task EXCEPT ![t] = r]
    BY <1>1, <1>3, <2>1, RunFacts DEF Task
  <2>3. TasksMove
    BY <2>2, ChargedTask, OneTaskMoves
  <2>4. RunsMove
    BY <1>1, <1>3, <2>3, GotoMoves DEF Executing
  <2>5. QED
    BY <1>1, <2>3, <2>4, RowsStay, RequeuesStay, CallsUnchanged DEF TablesMove
<1>4. QED  BY <1>2, <1>3 DEF Charge

LEMMA PromptMoves ==
    ASSUME IInv, NEW w \in Workers, Prompt(w)
    PROVE  TablesMove /\ CallsMove /\ RunsMove
<1>1. /\ wk[w].pc \in Executing /\ wk[w].pc # "idle"
      /\ UNCHANGED <<task, job, call, requeues>>
  BY DEF Prompt, Executing
<1>2. PICK n : n = Mine(w).messages
  OBVIOUS
<1> DEFINE r == [wk[w] EXCEPT !.pc = "chat", !.read = n]
<1>3. wk[w] \in Run /\ n \in Nat /\ wk' = [wk EXCEPT ![w] = r]
  BY <1>1, <1>2, RunFacts DEF Prompt, Task
<1>4. /\ r \in Run /\ r.task = wk[w].task /\ r.gen = wk[w].gen
      /\ r.pc = "chat"
  BY <1>3 DEF Run, Executing
<1>5. RunsMove
  BY <1>1, <1>3, <1>4, TasksStay, RunGoesOn
<1>6. QED  BY <1>1, <1>5, RunOnly

LEMMA ChatMoves ==
    ASSUME IInv, NEW w \in Workers, Chat(w)
    PROVE  TablesMove /\ CallsMove /\ RunsMove
BY GotoOnly DEF Chat, Executing

LEMMA BoundaryMoves ==
    ASSUME IInv, NEW w \in Workers, Boundary(w)
    PROVE  TablesMove /\ CallsMove /\ RunsMove
BY GotoOnly DEF Boundary, Executing

(* worker_transition *)
LEMMA TransitionedTask ==
    ASSUME NEW r \in Task, r.used <= r.limit, r.status # "absent",
           NEW s \in Resumed \cup {"completed", "paused_budget"}
    PROVE  WithinGen(r, [r EXCEPT !.status = s, !.active = 0])
<1>1. s \notin Live \cup Gone
  BY DEF Resumed, Live, Gone
<1>2. s \in Final \cup Resumed \cup Paused \cup Live \cup Gone
  BY DEF Final, Paused
<1>3. 0 \in 0 .. MaxGen
  BY LimitsAssumption
<1>4. QED
  BY <1>1, <1>2, <1>3 DEF WithinGen, Task

LEMMA TransitionMoves ==
    ASSUME IInv, NEW w \in Workers, wk[w].pc # "idle",
           NEW s \in Resumed \cup {"completed", "paused_budget"},
           Transitioned(w, s)
    PROVE  TasksMove /\ task'[wk[w].task].status = s /\ s \notin Live
<1>1. PICK t : t = wk[w].task
  OBVIOUS
<1> DEFINE r == [task[t] EXCEPT !.status = s, !.active = 0]
<1>2. /\ t \in Tasks /\ task[t] \in Task /\ task[t].used <= task[t].limit
      /\ task[t].status # "absent"
      /\ task' = [task EXCEPT ![t] = r]
  BY <1>1, RunFacts DEF Transitioned
<1>3. TasksMove
  BY <1>2, TransitionedTask, OneTaskMoves
<1>4. task'[t].status = s
  BY <1>2 DEF IInv, TypeOK, Task
<1>5. s \notin Live
  BY DEF Resumed, Live
<1>6. QED  BY <1>1, <1>3, <1>4, <1>5

LEMMA TransitionEndsRun ==
    ASSUME IInv, NEW w \in Workers, wk[w].pc # "idle",
           NEW s \in Resumed \cup {"completed", "paused_budget"},
           Transitioned(w, s), Goto(w, "complete"),
           UNCHANGED <<job, call, requeues>>
    PROVE  TablesMove /\ CallsMove /\ RunsMove
<1>1. TasksMove /\ task'[wk[w].task].status \notin Live
  BY TransitionMoves
<1>2. RunsMove
  BY <1>1, GotoMoves DEF Executing, Ending
<1>3. QED
  BY <1>1, <1>2, RowsStay, RequeuesStay, CallsUnchanged DEF TablesMove

LEMMA EndRunMoves ==
    ASSUME IInv, NEW w \in Workers, wk[w].pc \in Executing,
           NEW s \in {"completed", "waiting_input", "waiting_approval"},
           EndRun(w, s)
    PROVE  TablesMove /\ CallsMove /\ RunsMove
<1>1. wk[w].pc # "idle" /\ UNCHANGED <<job, call, requeues>>
  BY DEF EndRun, Executing
<1>2. CASE Transitioned(w, s) /\ Goto(w, "complete")
  BY <1>1, <1>2, TransitionEndsRun DEF Resumed
<1>3. CASE Goto(w, "check") /\ task' = task
  BY <1>1, <1>3, GotoOnly DEF Executing
<1>4. QED  BY <1>2, <1>3 DEF EndRun

LEMMA PauseBudgetMoves ==
    ASSUME IInv, NEW w \in Workers, PauseBudget(w)
    PROVE  TablesMove /\ CallsMove /\ RunsMove
<1>1. /\ wk[w].pc # "idle" /\ wk[w].pc \in Executing
      /\ UNCHANGED <<job, call, requeues>>
  BY DEF PauseBudget, Executing
<1>2. CASE Transitioned(w, "paused_budget") /\ Goto(w, "complete")
  BY <1>1, <1>2, TransitionEndsRun
<1>3. CASE Goto(w, "repause") /\ task' = task
  BY <1>1, <1>3, GotoOnly DEF Executing
<1>4. QED  BY <1>2, <1>3 DEF PauseBudget

LEMMA PauseAnywayMoves ==
    ASSUME IInv, NEW w \in Workers, PauseAnyway(w)
    PROVE  TablesMove /\ CallsMove /\ RunsMove
<1>1. /\ wk[w].pc # "idle" /\ wk[w].pc \in Executing
      /\ UNCHANGED <<job, call, requeues>>
  BY DEF PauseAnyway, Executing
<1>2. CASE Transitioned(w, "paused_budget") /\ Goto(w, "complete")
  BY <1>1, <1>2, TransitionEndsRun
<1>3. CASE task' = task /\ Goto(w, "acknowledge")
  BY <1>1, <1>3, GotoOnly
<1>4. CASE task' = task /\ Mine(w).status # "running" /\ Goto(w, "complete")
  <2>1. RunOK(w) /\ Mine(w) = task[wk[w].task]
    BY <1>1, RunFacts
  <2>2. ~(Mine(w).status \in Live /\ Mine(w).gen = wk[w].gen)
    BY <1>1, <1>4, <2>1 DEF RunOK, Live
  <2>3. RunsMove
    BY <1>1, <1>4, <2>1, <2>2, TasksStay, GotoMoves DEF Ending
  <2>4. QED
    BY <1>1, <1>4, <2>3, RunOnly
<1>5. QED  BY <1>2, <1>3, <1>4 DEF PauseAnyway, MayTransition

LEMMA ExecutesMoves ==
    ASSUME IInv, NEW w \in Workers, Executes(w)
    PROVE  TablesMove /\ CallsMove /\ RunsMove
<1>1. CASE Answer(w)
  BY <1>1, EndRunMoves DEF Answer, Executing
<1>2. CASE Tools(w)
  BY <1>2, EndRunMoves, GotoOnly DEF Tools, Executing
<1>3. QED
  BY <1>1, <1>2, CheckMoves, StepLimitMoves, BudgetMoves, ChargeMoves,
     PromptMoves, ChatMoves, BoundaryMoves, PauseBudgetMoves,
     PauseAnywayMoves
  DEF Executes

----------------------------------------------------------------------------
(* Settling and claiming jobs *)

LEMMA SettleMoves ==
    ASSUME IInv, NEW w \in Workers, wk[w].pc # "idle", NEW may, NEW row,
           Settle(w, may, row),
           may => /\ MyJob(w).status = "running"
                  /\ Sound(row)
                  /\ row.status = "completed" => wk[w].pc = "complete"
    PROVE  TablesMove /\ CallsMove /\ RunsMove
<1>1. PICK t, g : t = wk[w].task /\ g = wk[w].gen
  OBVIOUS
<1>2. /\ t \in Tasks /\ g \in Gens /\ MyJob(w) = job[t][g]
      /\ g <= task[t].gen
      /\ wk[w].pc = "complete" => ~(task[t].status \in Live
                                    /\ task[t].gen = g)
      /\ wk' = [wk EXCEPT ![w] = Idle]
      /\ UNCHANGED <<task, call, requeues>>
  BY <1>1, RunFacts DEF Settle, RunOK, Mine
<1>3. RowsMove
  <2>1. CASE may
    <3>1. job' = [job EXCEPT ![t][g] = row]
      BY <1>1, <2>1 DEF Settle, SetRow
    <3>2. QED  BY <1>2, <2>1, <3>1, OneRowMoves
  <2>2. CASE ~may
    BY <2>2, RowsStay DEF Settle
  <2>3. QED  BY <2>1, <2>2
<1>4. QED
  BY <1>2, <1>3, TasksStay, RequeuesStay, CallsUnchanged, GoesIdle
  DEF TablesMove

LEMMA CompleteJobMoves ==
    ASSUME IInv, NEW w \in Workers, CompleteJob(w)
    PROVE  TablesMove /\ CallsMove /\ RunsMove
<1>1. wk[w].pc # "idle" /\ wk[w].pc = "complete"
  BY DEF CompleteJob
<1>2. Sound(Completed(MyJob(w)))
  BY <1>1, RunFacts, LimitsAssumption, SettledIsSteady DEF Steady
<1>3. QED
  BY <1>1, <1>2, SettleMoves DEF CompleteJob, CanComplete, HeldBy

LEMMA AcknowledgeCancelMoves ==
    ASSUME IInv, NEW w \in Workers, AcknowledgeCancel(w)
    PROVE  TablesMove /\ CallsMove /\ RunsMove
<1>1. wk[w].pc # "idle"
  BY DEF AcknowledgeCancel
<1> DEFINE r == CancelAcknowledged(MyJob(w))
<1>2. MyJob(w) \in Row
  BY <1>1, RunFacts
<1>3. Sound(r)
  BY <1>2, EndedLeaseIsSteady DEF Steady, CancelAcknowledged, Terminal
<1>4. r.status # "completed"
  BY <1>2 DEF CancelAcknowledged, Unleased, Row
<1>5. QED
  BY <1>1, <1>3, <1>4, SettleMoves
  DEF AcknowledgeCancel, CanAcknowledgeCancel, HeldBy

LEMMA RetryJobMoves ==
    ASSUME IInv, NEW w \in Workers, RetryJob(w)
    PROVE  TablesMove /\ CallsMove /\ RunsMove
<1>1. PICK t, g : t = wk[w].task /\ g = wk[w].gen
  OBVIOUS
<1>2. /\ wk[w].pc # "idle" /\ wk[w].pc # "complete"
      /\ Goto(w, "readback")
      /\ UNCHANGED <<task, call, requeues>>
  BY DEF RetryJob
<1>3. /\ t \in Tasks /\ g \in Gens /\ MyJob(w) = job[t][g]
      /\ g <= task[t].gen /\ job[t][g] \in Row
  BY <1>1, <1>2, RunFacts
<1> DEFINE r == Retried(job[t][g], MaxAttempts, TRUE)
<1>4. Sound(r)
  BY <1>3, LimitsAssumption, SettledIsSteady DEF Steady
<1>5. r.status # "completed"
  BY <1>3 DEF Retried, Unleased, ExpiredStatus, Row
<1>6. RowsMove
  <2>1. CASE job' = job
    BY <2>1, RowsStay
  <2>2. CASE job' = [job EXCEPT ![t][g] = r]
    BY <1>3, <1>4, <1>5, <2>2, OneRowMoves
  <2>3. QED
    BY <1>1, <1>3, <2>1, <2>2 DEF RetryJob, SetRow
<1>7. RunsMove
  BY <1>2, TasksStay, GotoMoves DEF Executing, Ending
<1>8. QED
  BY <1>2, <1>6, <1>7, TasksStay, RequeuesStay, CallsUnchanged
  DEF TablesMove

LEMMA ReadBackMoves ==
    ASSUME IInv, NEW w \in Workers, ReadBack(w)
    PROVE  TablesMove /\ CallsMove /\ RunsMove
<1>1. wk[w].pc # "idle" /\ UNCHANGED <<task, job, call, requeues>>
  BY DEF ReadBack
<1>2. CASE Goto(w, "giveup")
  <2>1. RunsMove
    BY <1>1, <1>2, TasksStay, GotoMoves DEF Executing, Ending
  <2>2. QED  BY <1>1, <2>1, RunOnly
<1>3. CASE wk' = [wk EXCEPT ![w] = Idle]
  BY <1>1, <1>3, GoesIdle, RunOnly
<1>4. QED  BY <1>2, <1>3 DEF ReadBack

LEMMA GiveUpMoves ==
    ASSUME IInv, NEW w \in Workers, GiveUp(w)
    PROVE  TablesMove /\ CallsMove /\ RunsMove
<1>1. /\ wk[w].pc # "idle" /\ wk' = [wk EXCEPT ![w] = Idle]
      /\ UNCHANGED <<job, call, requeues>>
  BY DEF GiveUp
<1>2. TasksMove
  BY <1>1, TransitionMoves, TasksStay DEF GiveUp, Resumed
<1>3. QED
  BY <1>1, <1>2, GoesIdle, RowsStay, RequeuesStay, CallsUnchanged
  DEF TablesMove

(* The sweeps neither fill a row nor complete one. *)
LEMMA SweptRow ==
    ASSUME NEW r, Sound(r)
    PROVE  /\ Sound(Swept(r, MaxAttempts))
           /\ r.status = "absent" => Swept(r, MaxAttempts).status = "absent"
           /\ Swept(r, MaxAttempts).status = "completed"
                => r.status = "completed"
<1>1. Sound(Swept(r, MaxAttempts))
  BY SweptIsSteady, LimitsAssumption DEF Steady
<1> DEFINE a == SweepCancelRequested(r)
           b == SweepOverdue(a)
           c == SweepExpiredLease(b, MaxAttempts)
<1>2. /\ a.status \in {r.status, "cancelled"}
      /\ r.status = "absent" => a.status = "absent"
  BY DEF SweepCancelRequested, Unleased, Waiting, Sound, Row
<1>3. a \in Row
  BY EndedLeaseIsSteady DEF SweepCancelRequested, Steady, Sound, Terminal
<1> HIDE DEF a
<1>4. /\ b.status \in {a.status, "dead_letter"}
      /\ a.status = "absent" => b.status = "absent"
  BY <1>3 DEF SweepOverdue, Unleased, Waiting, Row
<1>5. b \in Row
  BY <1>3, EndedLeaseIsSteady DEF SweepOverdue, Steady, Sound, Terminal
<1> HIDE DEF b
<1>6. /\ c.status \in {b.status, "cancelled", "dead_letter", "retry"}
      /\ b.status = "absent" => c.status = "absent"
  BY <1>5 DEF SweepExpiredLease, ExpiredStatus, Unleased, Row
<1>7. Swept(r, MaxAttempts) = c
  BY DEF Swept, a, b
<1>8. QED  BY <1>1, <1>2, <1>4, <1>6, <1>7

LEMMA ClaimMoves ==
    ASSUME IInv, NEW w \in Workers, Claim(w)
    PROVE  TablesMove /\ CallsMove /\ RunsMove
<1>1. UNCHANGED <<task, call, requeues>>
  BY DEF Claim
<1>2. \A t \in Tasks, g \in Gens :
         /\ SweptJobs[t][g] = Swept(job[t][g], MaxAttempts)
         /\ Sound(SweptJobs[t][g])
         /\ job[t][g].status = "absent" => SweptJobs[t][g].status = "absent"
         /\ SweptJobs[t][g].status = "completed"
              => job[t][g].status = "completed"
  BY RowFacts, SweptRow DEF SweptJobs
<1>3. CASE job' = SweptJobs /\ wk' = wk
  <2>1. RowsMove
    BY <1>2, <1>3 DEF RowsMove, RowMoves, SweptJobs
  <2>2. QED
    BY <1>1, <1>3, <2>1, RowsOnly, RequeuesStay
<1>4. CASE \E k \in Tasks \X Gens :
             LET r == SweptJobs[k[1]][k[2]] IN
             /\ Claimable(r, MaxAttempts)
             /\ job' = [SweptJobs EXCEPT ![k[1]][k[2]] = Claimed(r, w)]
             /\ wk' = [wk EXCEPT ![w] = RunOf(k[1], k[2], r.token + 1)]
  <2>1. PICK t, g, r :
             /\ t \in Tasks /\ g \in Gens /\ r = SweptJobs[t][g]
             /\ Claimable(r, MaxAttempts)
             /\ job' = [SweptJobs EXCEPT ![t][g] = Claimed(r, w)]
             /\ wk' = [wk EXCEPT ![w] = RunOf(t, g, r.token + 1)]
    <3>1. PICK k \in Tasks \X Gens :
             LET r == SweptJobs[k[1]][k[2]] IN
             /\ Claimable(r, MaxAttempts)
             /\ job' = [SweptJobs EXCEPT ![k[1]][k[2]] = Claimed(r, w)]
             /\ wk' = [wk EXCEPT ![w] = RunOf(k[1], k[2], r.token + 1)]
      BY <1>4, Zenon
    <3>2. k[1] \in Tasks /\ k[2] \in Gens
      OBVIOUS
    <3>3. QED  BY <3>1, <3>2, Zenon
  <2> t \in Tasks /\ g \in Gens
    BY <2>1
  <2>2. r \in Row /\ Sound(Claimed(r, w)) /\ Claimed(r, w).status = "running"
    BY <1>2, <2>1, ClaimedAdvances DEF Sound
  <2>3. job[t][g].status # "absent"
    BY <1>2, <2>1 DEF Claimable, Waiting
  <2>4. \A u \in Tasks, h \in Gens :
           job'[u][h] = IF u = t /\ h = g THEN Claimed(r, w)
                                          ELSE SweptJobs[u][h]
    BY <2>1 DEF SweptJobs
  <2>5. job' = [u \in Tasks |-> [h \in Gens |-> job'[u][h]]]
    BY <2>1 DEF SweptJobs
  <2>6. RowsMove
    <3> SUFFICES ASSUME NEW u \in Tasks, NEW h \in Gens
                 PROVE  RowMoves(u, h)
      BY <2>5 DEF RowsMove
    <3>1. CASE u = t /\ h = g
      BY <2>2, <2>3, <2>4, <3>1 DEF RowMoves
    <3>2. CASE ~(u = t /\ h = g)
      BY <1>2, <2>4, <3>2 DEF RowMoves
    <3>3. QED  BY <3>1, <3>2
  <2>7. RunsMove
    <3> DEFINE n == RunOf(t, g, r.token + 1)
    <3>2. r.token + 1 \in Nat /\ g \in 0 .. MaxGen /\ g \in Int
      BY <2>2, LimitsAssumption DEF Row, Gens
    <3>3. n \in Run
      BY <3>2 DEF RunOf, Run
    <3>4. g <= task[t].gen /\ task' = task
      BY <1>1, <2>3, <3>2, RowFacts, TaskFacts
    <3>5. wk' = [wk EXCEPT ![w] = n]
      BY <2>1
    <3>6. wk'[w] = n
      BY <3>5 DEF IInv, TypeOK
    <3>7. RunOK(w)'
      BY <3>4, <3>6 DEF RunOf, RunOK, Mine, Executing
    <3>8. QED
      BY <3>3, <3>5, <3>7, OneRunMoves
  <2>8. QED
    BY <1>1, <2>6, <2>7, TasksStay, RequeuesStay, CallsUnchanged
    DEF TablesMove
<1>5. QED
  BY <1>3, <1>4 DEF Claim

LEMMA WorkMoves ==
    ASSUME IInv, NEW w \in Workers, Work(w)
    PROVE  TablesMove /\ CallsMove /\ RunsMove
BY CallStepMoves, ClaimMoves, BeginMoves, ExecutesMoves, CompleteJobMoves,
   AcknowledgeCancelMoves, RetryJobMoves, ReadBackMoves, GiveUpMoves
DEF Work, Processes

----------------------------------------------------------------------------
(* The inductive invariant *)

LEMMA InitIInv == Init => IInv
<1> SUFFICES ASSUME Init PROVE IInv
  OBVIOUS
<1>1. AbsentTask \in Task /\ AbsentTask.used <= AbsentTask.limit
      /\ AbsentTask.gen = 0 /\ AbsentTask.active = 0
      /\ AbsentTask.status = "absent"
  BY LimitsAssumption DEF AbsentTask, Task, Gone
<1>2. AbsentRow \in Row /\ AbsentRow.status = "absent"
  BY WorkersAssumption DEF AbsentRow, Row, Statuses
<1>3. TypeOK
  BY <1>1, <1>2, IdleRun, LimitsAssumption DEF Init, TypeOK
<1>4. RowsOK /\ TasksOK /\ CallsOK /\ ActiveJobIsCurrent
  BY <1>1, <1>2 DEF Init, RowsOK, TasksOK, CallsOK, ActiveJobIsCurrent
<1>5. RunsOK
  BY DEF Init, RunsOK, RunOK, Idle
<1>6. LiveTaskKeepsItsJob
  BY <1>1 DEF Init, LiveTaskKeepsItsJob, Live
<1>7. QED  BY <1>3, <1>4, <1>5, <1>6 DEF IInv

LEMMA NextMoves ==
    ASSUME IInv, Next
    PROVE  TablesMove /\ CallsMove /\ RunsMove
BY CallStepMoves, RequestDiesMoves, OwnerMoves, WorkMoves, HeartbeatMoves,
   RestartMoves, OperatorCancelMoves, OperatorRequeueMoves, ExpireMoves
DEF Next, Processes

LEMMA NextKeepsIInv == IInv /\ [Next]_vars => IInv'
<1> SUFFICES ASSUME IInv, [Next]_vars PROVE IInv'
  OBVIOUS
<1>1. CASE Next
  BY <1>1, NextMoves, MovesKeepIInv
<1>2. CASE UNCHANGED vars
  BY <1>2, TasksStay, RowsStay, RequeuesStay, CallsUnchanged, RunsUnchanged,
     MovesKeepIInv
  DEF vars, TablesMove
<1>3. QED  BY <1>1, <1>2

(* The strengthened invariant of the task workspace, for any tasks,        *)
(* requests and workers and any failures.                                  *)
THEOREM Invariant == Spec => []IInv
BY InitIInv, NextKeepsIInv, PTL DEF Spec

(* Every row, run and outstanding call has its type, and no task is        *)
(* charged more model decisions than it was granted (consume_usage).       *)
THEOREM TypeCorrect == Spec => []TypeOK
<1>1. IInv => TypeOK
  BY DEF IInv
<1>2. QED  BY <1>1, Invariant, PTL

(* active_job_id names no job but that of the task's present generation:   *)
(* set_active_job, continue_task and add_user_message in any order.        *)
THEOREM ActiveJobAlwaysCurrent == Spec => []ActiveJobIsCurrent
<1>1. IInv => ActiveJobIsCurrent
  BY DEF IInv
<1>2. QED  BY <1>1, Invariant, PTL

(* No worker completes the job of a task that is queued or running under   *)
(* it (_execute_task and begin_run).                                       *)
THEOREM LiveTaskAlwaysKeepsItsJob == Spec => []LiveTaskKeepsItsJob
<1>1. IInv => LiveTaskKeepsItsJob
  BY DEF IInv
<1>2. QED  BY <1>1, Invariant, PTL

----------------------------------------------------------------------------
(* The owner's word *)

Obeys(old, new) ==
    /\ old.status \in Final \cup {"deleted"}
         => new.status \in {old.status, "deleted"}
    /\ old.status = "paused_user"
         => \/ new.status \in {old.status, "deleted"}
            \/ new.steer > old.steer

AllObey == \A t \in Tasks : Obeys(task[t], task'[t])

LEMMA UnchangedObeys ==
    ASSUME task' = task
    PROVE  AllObey
BY DEF AllObey, Obeys

LEMMA OneObeys ==
    ASSUME IInv, NEW t \in Tasks, NEW r, task' = [task EXCEPT ![t] = r],
           Obeys(task[t], r)
    PROVE  AllObey
<1>1. \A u \in Tasks : task'[u] = IF u = t THEN r ELSE task[u]
  BY DEF IInv, TypeOK
<1>2. QED
  BY <1>1 DEF AllObey, Obeys

(* A statement whose WHERE clause asks for another status obeys. *)
LEMMA GuardedObeys ==
    ASSUME IInv, NEW t \in Tasks, NEW r, task' = [task EXCEPT ![t] = r],
           task[t].status \in Live \cup Resumed \cup {"absent"}
    PROVE  AllObey
BY OneObeys DEF Obeys, Live, Resumed, Final

LEMMA CallStepObeys ==
    ASSUME IInv, NEW p \in Processes, CallStep(p)
    PROVE  AllObey
<1>1. PICK c \in call[p] : \/ Bind(p, c) \/ Enqueue(p, c) \/ Advance(p, c)
                           \/ Point(p, c) \/ RequestCancel(p, c)
                           \/ DeleteRow(p, c)
  BY DEF CallStep
<1>2. PICK t : t = c.task
  OBVIOUS
<1>3. t \in Tasks /\ task[t] \in Task
  BY <1>2, CallFacts, TaskFacts
<1>4. CASE task' = task
  BY <1>4, UnchangedObeys
<1>5. CASE /\ task[t].status \in Live
           /\ \E r : task' = [task EXCEPT ![t] = r]
  BY <1>3, <1>5, GuardedObeys
<1>6. CASE task' = [task EXCEPT ![t].status = "deleted"]
  <2> DEFINE r == [task[t] EXCEPT !.status = "deleted"]
  <2>1. r.status = "deleted"
    BY <1>3 DEF Task
  <2>2. Obeys(task[t], r)
    BY <2>1 DEF Obeys
  <2>3. QED  BY <1>3, <1>6, <2>2, OneObeys
<1>7. QED
  <2>1. CASE Bind(p, c)
    BY <1>2, <1>4, <1>5, <2>1 DEF Bind, Live
  <2>2. CASE Advance(p, c)
    BY <1>2, <1>4, <1>5, <2>2 DEF Advance, Live
  <2>3. CASE Point(p, c)
    BY <1>2, <1>4, <1>5, <2>3 DEF Point, Live
  <2>4. CASE DeleteRow(p, c)
    BY <1>2, <1>4, <1>6, <2>4 DEF DeleteRow
  <2>5. CASE Enqueue(p, c) \/ RequestCancel(p, c)
    BY <1>4, <2>5 DEF Enqueue, RequestCancel
  <2>6. QED  BY <1>1, <2>1, <2>2, <2>3, <2>4, <2>5

(* A request that advances the steering obeys, unless the task has ended.  *)
LEMMA SteeringObeys ==
    ASSUME IInv, NEW t \in Tasks, NEW r, task' = [task EXCEPT ![t] = r],
           task[t].status \notin Final \cup Gone,
           r.steer = task[t].steer + 1
    PROVE  AllObey
<1>1. task[t].steer \in Nat
  BY TaskFacts DEF Task
<1>2. Obeys(task[t], r)
  BY <1>1 DEF Obeys, Gone
<1>3. QED  BY <1>2, OneObeys

LEMMA OwnerObeys ==
    ASSUME IInv, NEW r \in Requests, NEW t \in Tasks, Owner(r, t)
    PROVE  AllObey
<1>1. task[t] \in Task
  BY TaskFacts
<1>2. CASE task' = task
  BY <1>2, UnchangedObeys
<1>3. CASE /\ task[t].status \notin Final \cup Gone
           /\ \E n : /\ task' = [task EXCEPT ![t] = n]
                     /\ n.steer = task[t].steer + 1
  BY <1>3, SteeringObeys
<1>4. CASE Create(r, t)
  BY <1>4, GuardedObeys DEF Create
<1>5. CASE Message(r, t)
  <2> DEFINE row == [task[t] EXCEPT !.messages = @ + 1]
             n == [row EXCEPT !.status = "queued", !.steer = @ + 1,
                              !.gen = @ + 1, !.active = 0]
             o == [row EXCEPT !.steer = @ + 1]
  <2>1. n.steer = task[t].steer + 1 /\ o.steer = task[t].steer + 1
    BY <1>1 DEF Task
  <2>2. task' = [task EXCEPT ![t] = n] \/ task' = [task EXCEPT ![t] = o]
    BY <1>5 DEF Message, NextRun
  <2>3. QED
    BY <1>3, <1>5, <2>1, <2>2 DEF Message, Steers
<1>6. CASE Continue(r, t)
  <2> DEFINE row == [task[t] EXCEPT !.limit = @ + Decisions]
             n == [row EXCEPT !.status = "queued", !.steer = @ + 1,
                              !.gen = @ + 1, !.active = 0]
  <2>1. n.steer = task[t].steer + 1
    BY <1>1 DEF Task
  <2>2. task' = [task EXCEPT ![t] = n]
    BY <1>6 DEF Continue, NextRun
  <2>3. QED
    BY <1>3, <1>6, <2>1, <2>2 DEF Continue, Steers
<1>7. ASSUME NEW s \in {"paused_user", "cancelled"}, OwnerTransition(r, t, s)
      PROVE  AllObey
  <2> DEFINE n == [task[t] EXCEPT !.status = s, !.steer = @ + 1]
  <2>1. n.steer = task[t].steer + 1
    BY <1>1 DEF Task
  <2>2. \/ task' = task
        \/ Steers(t) /\ task' = [task EXCEPT ![t] = n]
    BY <1>7 DEF OwnerTransition
  <2>3. QED
    BY <1>2, <1>3, <2>1, <2>2 DEF Steers
<1>8. CASE Delete(r, t)
  BY <1>2, <1>8 DEF Delete
<1>9. QED
  BY <1>4, <1>5, <1>6, <1>7, <1>8 DEF Owner, Pause, Cancel

LEMMA RunObeys ==
    ASSUME IInv, NEW w \in Workers, Begin(w) \/ Executes(w) \/ GiveUp(w)
    PROVE  AllObey
<1>1. PICK t : t = wk[w].task
  OBVIOUS
<1>2. wk[w].pc # "idle"
  BY DEF Begin, Executes, GiveUp, Check, StepLimit, Budget, Charge, Prompt,
         Chat, Answer, Boundary, Tools, PauseBudget, PauseAnyway
<1>3. t \in Tasks /\ Mine(w) = task[t]
  BY <1>1, <1>2, RunFacts
<1>4. CASE task' = task
  BY <1>4, UnchangedObeys
<1>5. CASE /\ Mine(w).status \in Live
           /\ \E r : task' = [task EXCEPT ![t] = r]
  BY <1>3, <1>5, GuardedObeys
<1>6. ASSUME NEW s, NEW steered, MayTransition(w, steered), Transitioned(w, s)
      PROVE  AllObey
  BY <1>1, <1>5, <1>6 DEF MayTransition, Transitioned, Live
<1>7. CASE Begin(w)
  BY <1>1, <1>4, <1>5, <1>7 DEF Begin, Starts
<1>8. CASE Charge(w)
  BY <1>1, <1>4, <1>5, <1>8 DEF Charge, AsSteered, Live
<1>9. CASE GiveUp(w)
  BY <1>4, <1>6, <1>9 DEF GiveUp
<1>10. ASSUME NEW s, EndRun(w, s)
       PROVE  AllObey
  BY <1>4, <1>6, <1>10 DEF EndRun
<1>11. CASE Answer(w) \/ Tools(w)
  BY <1>4, <1>10, <1>11 DEF Answer, Tools
<1>12. CASE PauseBudget(w) \/ PauseAnyway(w)
  BY <1>4, <1>6, <1>12 DEF PauseBudget, PauseAnyway
<1>13. CASE \/ Check(w) \/ StepLimit(w) \/ Budget(w) \/ Prompt(w) \/ Chat(w)
            \/ Boundary(w)
  BY <1>4, <1>13 DEF Check, StepLimit, Budget, Prompt, Chat, Boundary
<1>14. QED
  BY <1>7, <1>8, <1>9, <1>11, <1>12, <1>13 DEF Executes

LEMMA NextObeys ==
    ASSUME IInv, [Next]_vars
    PROVE  AllObey
<1>1. CASE task' = task
  BY <1>1, UnchangedObeys
<1>2. ASSUME NEW r \in Requests,
             CallStep(r) \/ RequestDies(r) \/ \E t \in Tasks : Owner(r, t)
      PROVE  AllObey
  BY <1>1, <1>2, CallStepObeys, OwnerObeys DEF RequestDies, Processes
<1>3. ASSUME NEW w \in Workers, Work(w) \/ Heartbeat(w) \/ Restart(w)
      PROVE  AllObey
  <2>1. CASE CallStep(w)
    BY <2>1, CallStepObeys DEF Processes
  <2>2. CASE Begin(w) \/ Executes(w) \/ GiveUp(w)
    BY <2>2, RunObeys
  <2>3. QED
    BY <1>1, <1>3, <2>1, <2>2
    DEF Work, Claim, CompleteJob, AcknowledgeCancel, Settle, RetryJob,
        ReadBack, Heartbeat, Restart
<1>4. ASSUME NEW t \in Tasks, NEW g \in Gens,
             OperatorCancel(t, g) \/ OperatorRequeue(t, g) \/ Expire(t, g)
      PROVE  AllObey
  BY <1>1, <1>4 DEF OperatorCancel, OperatorRequeue, Expire
<1>5. QED
  BY <1>1, <1>2, <1>3, <1>4 DEF Next, vars

(* No worker, however late its transition, charge or begin_run, writes     *)
(* over what the owner paused or cancelled, nor anyone over a finished or  *)
(* deleted task.                                                           *)
THEOREM OwnerAlwaysObeyed == Spec => OwnerIsObeyed
<1>1. IInv /\ [Next]_vars =>
        [\A t \in Tasks :
            LET old == task[t]
                new == task'[t]
            IN  /\ old.status \in Final \cup {"deleted"}
                   => new.status \in {old.status, "deleted"}
                /\ old.status = "paused_user"
                   => \/ new.status \in {old.status, "deleted"}
                      \/ new.steer > old.steer]_vars
  BY NextObeys DEF AllObey, Obeys
<1>2. QED  BY <1>1, Invariant, PTL DEF Spec, OwnerIsObeyed

----------------------------------------------------------------------------
(* What the owner said and what the model read *)

Deciding == {"chat", "answer", "boundary", "tools"}

(* A run never acts under a direction the task has not reached, and one    *)
(* that waits for the model's decision, or carries it out, has read every  *)
(* message there is under its direction.                                   *)
Attentive(w) ==
    wk[w].pc # "idle" =>
        /\ wk[w].steer <= Mine(w).steer
        /\ wk[w].pc \in Deciding /\ wk[w].steer = Mine(w).steer
             => wk[w].read = Mine(w).messages

AllAttentive == \A w \in Workers : Attentive(w)

(* Messages arrive only with a new direction. *)
Heard(old, new) ==
    \/ old.status = "absent"
    \/ new.steer > old.steer
    \/ new.steer = old.steer /\ new.messages = old.messages

(* The task ends, or asks, by itself. *)
Ends(old, new) ==
    /\ old.status = "running"
    /\ new.status \in Final \cup {"waiting_input", "waiting_approval"}
    /\ new.steer = old.steer

(* What DecidesOnAllMessages asks of the step. *)
WellInformed(t) ==
    \E w \in Workers : /\ wk[w].task = t
                       /\ wk[w].pc \in {"answer", "tools"}
                       /\ wk'[w].pc = "complete"
                       /\ wk[w].read = task[t].messages

AllHeard == \A t \in Tasks : Heard(task[t], task'[t])
AllInformed ==
    \A t \in Tasks : Ends(task[t], task'[t]) => WellInformed(t)

LEMMA UnchangedListens ==
    ASSUME task' = task
    PROVE  AllHeard /\ AllInformed
BY DEF AllHeard, AllInformed, Heard, Ends, Final

LEMMA OneListens ==
    ASSUME IInv, NEW t \in Tasks, NEW r, task' = [task EXCEPT ![t] = r],
           Heard(task[t], r), Ends(task[t], r) => WellInformed(t)
    PROVE  AllHeard /\ AllInformed
<1>1. \A u \in Tasks : task'[u] = IF u = t THEN r ELSE task[u]
  BY DEF IInv, TypeOK
<1>2. \A u \in Tasks : Heard(task[u], task[u]) /\ ~Ends(task[u], task[u])
  BY DEF Heard, Ends, Final
<1>3. QED
  BY <1>1, <1>2 DEF AllHeard, AllInformed

(* A statement that adds no message and gives no direction. *)
LEMMA QuietListens ==
    ASSUME IInv, NEW t \in Tasks, NEW r, task' = [task EXCEPT ![t] = r],
           r.steer = task[t].steer, r.messages = task[t].messages,
           \/ task[t].status # "running"
           \/ r.status \notin Final \cup {"waiting_input",
                                          "waiting_approval"}
    PROVE  AllHeard /\ AllInformed
BY OneListens DEF Heard, Ends

(* A request that advances the steering. *)
LEMMA SteeringListens ==
    ASSUME IInv, NEW t \in Tasks, NEW r, task' = [task EXCEPT ![t] = r],
           r.steer = task[t].steer + 1
    PROVE  AllHeard /\ AllInformed
<1>1. task[t].steer \in Nat
  BY TaskFacts DEF Task
<1>2. r.steer > task[t].steer /\ r.steer # task[t].steer
  BY <1>1
<1>3. Heard(task[t], r) /\ ~Ends(task[t], r)
  BY <1>2 DEF Heard, Ends
<1>4. QED  BY <1>3, OneListens

LEMMA CallStepListens ==
    ASSUME IInv, NEW p \in Processes, CallStep(p)
    PROVE  AllHeard /\ AllInformed
<1>1. PICK c \in call[p] : \/ Bind(p, c) \/ Enqueue(p, c) \/ Advance(p, c)
                           \/ Point(p, c) \/ RequestCancel(p, c)
                           \/ DeleteRow(p, c)
  BY DEF CallStep
<1>2. PICK t : t = c.task
  OBVIOUS
<1>3. t \in Tasks /\ task[t] \in Task
  BY <1>2, CallFacts, TaskFacts
<1>4. CASE task' = task
  BY <1>4, UnchangedListens
<1>5. CASE /\ task[t].status = "queued"
           /\ \E r : /\ task' = [task EXCEPT ![t] = r]
                     /\ r.steer = task[t].steer
                     /\ r.messages = task[t].messages
  BY <1>3, <1>5, QuietListens
<1>6. CASE Bind(p, c)
  <2> DEFINE r == [task[t] EXCEPT !.bound = TRUE]
  <2>1. r.steer = task[t].steer /\ r.messages = task[t].messages
    BY <1>3 DEF Task
  <2>2. \/ task' = task
        \/ task[t].status = "queued" /\ task' = [task EXCEPT ![t] = r]
    BY <1>2, <1>6 DEF Bind
  <2>3. QED  BY <1>4, <1>5, <2>1, <2>2
<1>7. CASE Advance(p, c)
  <2> DEFINE r == [task[t] EXCEPT !.gen = @ + 1, !.active = 0]
  <2>1. r.steer = task[t].steer /\ r.messages = task[t].messages
    BY <1>3 DEF Task
  <2>2. \/ task' = task
        \/ task[t].status = "queued" /\ task' = [task EXCEPT ![t] = r]
    BY <1>2, <1>7 DEF Advance
  <2>3. QED  BY <1>4, <1>5, <2>1, <2>2
<1>8. CASE Point(p, c)
  <2> DEFINE r == [task[t] EXCEPT !.active = c.gen]
  <2>1. r.steer = task[t].steer /\ r.messages = task[t].messages
    BY <1>3 DEF Task
  <2>2. \/ task' = task
        \/ task[t].status = "queued" /\ task' = [task EXCEPT ![t] = r]
    BY <1>2, <1>8 DEF Point
  <2>3. QED  BY <1>4, <1>5, <2>1, <2>2
<1>9. CASE DeleteRow(p, c)
  <2> DEFINE r == [task[t] EXCEPT !.status = "deleted"]
  <2>1. /\ r.steer = task[t].steer /\ r.messages = task[t].messages
        /\ r.status = "deleted"
    BY <1>3 DEF Task
  <2>2. task' = task \/ task' = [task EXCEPT ![t] = r]
    BY <1>2, <1>9 DEF DeleteRow
  <2> HIDE DEF r
  <2>3. QED  BY <1>3, <1>4, <2>1, <2>2, QuietListens DEF Final
<1>10. CASE Enqueue(p, c) \/ RequestCancel(p, c)
  BY <1>4, <1>10 DEF Enqueue, RequestCancel
<1>11. QED  BY <1>1, <1>6, <1>7, <1>8, <1>9, <1>10

LEMMA OwnerListens ==
    ASSUME IInv, NEW r \in Requests, NEW t \in Tasks, Owner(r, t)
    PROVE  AllHeard /\ AllInformed
<1>1. task[t] \in Task
  BY TaskFacts
<1>2. CASE task' = task
  BY <1>2, UnchangedListens
<1>3. CASE \E n : /\ task' = [task EXCEPT ![t] = n]
                  /\ n.steer = task[t].steer + 1
  BY <1>3, SteeringListens
<1>4. CASE Create(r, t)
  <2>1. Heard(task[t], NewTask) /\ ~Ends(task[t], NewTask)
    BY <1>4 DEF Create, Heard, Ends
  <2>2. QED  BY <1>4, <2>1, OneListens DEF Create
<1>5. CASE Message(r, t)
  <2> DEFINE row == [task[t] EXCEPT !.messages = @ + 1]
             n == [row EXCEPT !.status = "queued", !.steer = @ + 1,
                              !.gen = @ + 1, !.active = 0]
             o == [row EXCEPT !.steer = @ + 1]
  <2>1. n.steer = task[t].steer + 1 /\ o.steer = task[t].steer + 1
    BY <1>1 DEF Task
  <2>2. task' = [task EXCEPT ![t] = n] \/ task' = [task EXCEPT ![t] = o]
    BY <1>5 DEF Message, NextRun
  <2>3. QED  BY <1>3, <2>1, <2>2
<1>6. CASE Continue(r, t)
  <2> DEFINE row == [task[t] EXCEPT !.limit = @ + Decisions]
             n == [row EXCEPT !.status = "queued", !.steer = @ + 1,
                              !.gen = @ + 1, !.active = 0]
  <2>1. n.steer = task[t].steer + 1
    BY <1>1 DEF Task
  <2>2. task' = [task EXCEPT ![t] = n]
    BY <1>6 DEF Continue, NextRun
  <2>3. QED  BY <1>3, <2>1, <2>2
<1>7. ASSUME NEW s, OwnerTransition(r, t, s)
      PROVE  AllHeard /\ AllInformed
  <2> DEFINE n == [task[t] EXCEPT !.status = s, !.steer = @ + 1]
  <2>1. n.steer = task[t].steer + 1
    BY <1>1 DEF Task
  <2>2. task' = task \/ task' = [task EXCEPT ![t] = n]
    BY <1>7 DEF OwnerTransition
  <2>3. QED  BY <1>2, <1>3, <2>1, <2>2
<1>8. CASE Delete(r, t)
  BY <1>2, <1>8 DEF Delete
<1>9. QED
  BY <1>4, <1>5, <1>6, <1>7, <1>8 DEF Owner, Pause, Cancel

(* A run's transition of its task, and the other statements of a worker. *)
LEMMA TransitionListens ==
    ASSUME IInv, NEW w \in Workers, wk[w].pc # "idle", NEW s, NEW steered,
           MayTransition(w, steered), Transitioned(w, s),
           s \in Final \cup {"waiting_input", "waiting_approval"}
               => WellInformed(wk[w].task)
    PROVE  AllHeard /\ AllInformed
<1>1. PICK t : t = wk[w].task
  OBVIOUS
<1> DEFINE r == [task[t] EXCEPT !.status = s, !.active = 0]
<1>2. t \in Tasks /\ task[t] \in Task
  BY <1>1, RunFacts
<1>3. /\ r.steer = task[t].steer /\ r.messages = task[t].messages
      /\ r.status = s
  BY <1>2 DEF Task
<1>4. task' = [task EXCEPT ![t] = r]
  BY <1>1 DEF Transitioned
<1> HIDE DEF r
<1>5. Heard(task[t], r) /\ (Ends(task[t], r) => WellInformed(t))
  BY <1>1, <1>3 DEF Heard, Ends
<1>6. QED  BY <1>2, <1>4, <1>5, OneListens

(* EndRun asks for the direction the run has seen, so its answer rests on  *)
(* every message.                                                          *)
LEMMA EndRunListens ==
    ASSUME IInv, AllAttentive, NEW w \in Workers,
           wk[w].pc \in {"answer", "tools"}, NEW s, EndRun(w, s)
    PROVE  AllHeard /\ AllInformed
<1>1. CASE task' = task
  BY <1>1, UnchangedListens
<1>2. CASE /\ MayTransition(w, AsSteered(w))
           /\ Transitioned(w, s) /\ Goto(w, "complete")
  <2>1. wk[w].pc # "idle" /\ wk[w].pc \in Deciding
    BY DEF Deciding
  <2>2. wk[w].steer = Mine(w).steer
    BY <1>2 DEF MayTransition, AsSteered
  <2>3. wk[w].read = task[wk[w].task].messages
    BY <2>1, <2>2 DEF AllAttentive, Attentive, Mine
  <2>4. wk'[w].pc = "complete"
    BY <1>2, <2>1, RunFacts DEF Goto, Run, IInv, TypeOK
  <2>5. WellInformed(wk[w].task)
    BY <2>3, <2>4 DEF WellInformed
  <2>6. QED  BY <1>2, <2>1, <2>5, TransitionListens
<1>3. QED  BY <1>1, <1>2 DEF EndRun

LEMMA RunListens ==
    ASSUME IInv, AllAttentive, NEW w \in Workers,
           Begin(w) \/ Executes(w) \/ GiveUp(w)
    PROVE  AllHeard /\ AllInformed
<1>1. PICK t : t = wk[w].task
  OBVIOUS
<1>2. wk[w].pc # "idle"
  BY DEF Begin, Executes, GiveUp, Check, StepLimit, Budget, Charge, Prompt,
         Chat, Answer, Boundary, Tools, PauseBudget, PauseAnyway
<1>3. t \in Tasks /\ task[t] \in Task /\ Mine(w) = task[t]
  BY <1>1, <1>2, RunFacts
<1>4. CASE task' = task
  BY <1>4, UnchangedListens
<1>5. ASSUME NEW s \in {"failed", "paused_budget"}, NEW steered,
             MayTransition(w, steered), Transitioned(w, s)
      PROVE  AllHeard /\ AllInformed
  BY <1>2, <1>5, TransitionListens DEF Final
<1>6. CASE Begin(w)
  <2> DEFINE r == [task[t] EXCEPT !.status = "running",
                                  !.active = wk[w].gen]
  <2>1. /\ r.steer = task[t].steer /\ r.messages = task[t].messages
        /\ r.status = "running"
    BY <1>3 DEF Task
  <2>2. task' = task \/ task' = [task EXCEPT ![t] = r]
    BY <1>1, <1>6 DEF Begin
  <2> HIDE DEF r
  <2>3. QED  BY <1>3, <1>4, <2>1, <2>2, QuietListens DEF Final
<1>7. CASE Charge(w)
  <2> DEFINE r == [task[t] EXCEPT !.used = @ + 1]
  <2>1. /\ r.steer = task[t].steer /\ r.messages = task[t].messages
        /\ r.status = task[t].status
    BY <1>3 DEF Task
  <2>2. \/ task' = task
        \/ task[t].status = "running" /\ task' = [task EXCEPT ![t] = r]
    BY <1>1, <1>3, <1>7 DEF Charge, AsSteered
  <2> HIDE DEF r
  <2>3. QED  BY <1>3, <1>4, <2>1, <2>2, QuietListens DEF Final
<1>8. CASE GiveUp(w)
  BY <1>4, <1>5, <1>8 DEF GiveUp
<1>9. CASE Answer(w) \/ Tools(w)
  BY <1>4, <1>9, EndRunListens DEF Answer, Tools
<1>10. CASE PauseBudget(w) \/ PauseAnyway(w)
  BY <1>4, <1>5, <1>10 DEF PauseBudget, PauseAnyway
<1>11. CASE \/ Check(w) \/ StepLimit(w) \/ Budget(w) \/ Prompt(w) \/ Chat(w)
            \/ Boundary(w)
  BY <1>4, <1>11 DEF Check, StepLimit, Budget, Prompt, Chat, Boundary
<1>12. QED
  BY <1>6, <1>7, <1>8, <1>9, <1>10, <1>11 DEF Executes

LEMMA NextListens ==
    ASSUME IInv, AllAttentive, [Next]_vars
    PROVE  AllHeard /\ AllInformed
<1>1. CASE task' = task
  BY <1>1, UnchangedListens
<1>2. ASSUME NEW r \in Requests,
             CallStep(r) \/ RequestDies(r) \/ \E t \in Tasks : Owner(r, t)
      PROVE  AllHeard /\ AllInformed
  BY <1>1, <1>2, CallStepListens, OwnerListens DEF RequestDies, Processes
<1>3. ASSUME NEW w \in Workers, Work(w) \/ Heartbeat(w) \/ Restart(w)
      PROVE  AllHeard /\ AllInformed
  <2>1. CASE CallStep(w)
    BY <2>1, CallStepListens DEF Processes
  <2>2. CASE Begin(w) \/ Executes(w) \/ GiveUp(w)
    BY <2>2, RunListens
  <2>3. QED
    BY <1>1, <1>3, <2>1, <2>2
    DEF Work, Claim, CompleteJob, AcknowledgeCancel, Settle, RetryJob,
        ReadBack, Heartbeat, Restart
<1>4. ASSUME NEW t \in Tasks, NEW g \in Gens,
             OperatorCancel(t, g) \/ OperatorRequeue(t, g) \/ Expire(t, g)
      PROVE  AllHeard /\ AllInformed
  BY <1>1, <1>4 DEF OperatorCancel, OperatorRequeue, Expire
<1>5. QED
  BY <1>1, <1>2, <1>3, <1>4 DEF Next, vars

----------------------------------------------------------------------------
(* What a step makes of a run: it drops it, starts one, goes on with what  *)
(* was read, takes the direction of the row, or reads its messages.        *)
Attends(w, n) ==
    \/ n.pc = "idle"
    \/ n.steer = 0 /\ n.pc \notin Deciding
    \/ /\ wk[w].pc # "idle"
       /\ n.task = wk[w].task
       /\ \/ /\ n.steer = wk[w].steer
             /\ n.pc \in Deciding
                  => wk[w].pc \in Deciding /\ n.read = wk[w].read
          \/ /\ task' = task
             /\ n.steer = Mine(w).steer
             /\ n.pc \notin Deciding
          \/ /\ task' = task
             /\ n.steer = wk[w].steer
             /\ n.read = Mine(w).messages

RunsAttend == \A w \in Workers : Attends(w, wk'[w])

LEMMA RunsKept ==
    ASSUME wk' = wk
    PROVE  RunsAttend
BY DEF RunsAttend, Attends

LEMMA OneAttends ==
    ASSUME IInv, NEW w \in Workers, NEW n, wk' = [wk EXCEPT ![w] = n],
           Attends(w, n)
    PROVE  RunsAttend
<1>1. \A v \in Workers : wk'[v] = IF v = w THEN n ELSE wk[v]
  BY DEF IInv, TypeOK
<1>2. \A v \in Workers : Attends(v, wk[v])
  BY DEF Attends
<1>3. QED  BY <1>1, <1>2 DEF RunsAttend

LEMMA AttentiveKept ==
    ASSUME IInv, IInv', AllAttentive, AllHeard, RunsAttend
    PROVE  AllAttentive'
<1> SUFFICES ASSUME NEW w \in Workers, wk'[w].pc # "idle"
             PROVE  /\ wk'[w].steer <= Mine(w)'.steer
                    /\ wk'[w].pc \in Deciding
                       /\ wk'[w].steer = Mine(w)'.steer
                         => wk'[w].read = Mine(w)'.messages
  BY DEF AllAttentive, Attentive
<1>1. PICK u : u = wk'[w].task
  OBVIOUS
<1>2. /\ u \in Tasks /\ task'[u] \in Task /\ Mine(w)' = task'[u]
      /\ task'[u].steer \in Nat
  BY <1>1 DEF IInv, RunsOK, RunOK, TypeOK, Mine, Task
<1>3. task[u].steer \in Nat /\ Heard(task[u], task'[u])
  BY <1>2, TaskFacts DEF AllHeard, Task
<1>4. Attends(w, wk'[w])
  BY DEF RunsAttend
<1>5. CASE wk'[w].steer = 0 /\ wk'[w].pc \notin Deciding
  BY <1>2, <1>5
<1>6. CASE wk[w].pc # "idle" /\ wk[w].task = u
  <2>1. /\ Mine(w) = task[u] /\ wk[w].steer \in Nat
        /\ task[u].status # "absent"
    BY <1>6, RunFacts DEF Run
  <2>2. /\ wk[w].steer <= task[u].steer
        /\ wk[w].pc \in Deciding /\ wk[w].steer = task[u].steer
             => wk[w].read = task[u].messages
    BY <1>6, <2>1 DEF AllAttentive, Attentive
  <2>3. \/ task'[u].steer > task[u].steer
        \/ /\ task'[u].steer = task[u].steer
           /\ task'[u].messages = task[u].messages
    BY <1>3, <2>1 DEF Heard
  <2>4. CASE /\ wk'[w].steer = wk[w].steer
             /\ wk'[w].pc \in Deciding
                  => wk[w].pc \in Deciding /\ wk'[w].read = wk[w].read
    <3>1. wk'[w].steer <= task'[u].steer
      BY <1>2, <1>3, <2>1, <2>2, <2>3, <2>4
    <3>2. wk'[w].steer = task'[u].steer => task'[u].steer = task[u].steer
      BY <1>2, <1>3, <2>1, <2>2, <2>3, <2>4
    <3>3. wk'[w].steer = task'[u].steer
            => task'[u].messages = task[u].messages
      BY <1>2, <1>3, <2>3, <3>2
    <3>4. QED  BY <1>2, <2>2, <2>4, <3>1, <3>2, <3>3
  <2>5. CASE /\ task' = task /\ wk'[w].steer = task[u].steer
             /\ wk'[w].pc \notin Deciding
    BY <1>2, <1>3, <2>5
  <2>6. CASE /\ task' = task /\ wk'[w].steer = wk[w].steer
             /\ wk'[w].read = task[u].messages
    BY <1>2, <2>2, <2>6
  <2>7. QED
    BY <1>1, <1>4, <1>5, <2>1, <2>4, <2>5, <2>6 DEF Attends
<1>7. QED
  BY <1>1, <1>4, <1>5, <1>6 DEF Attends

LEMMA GotoAttends ==
    ASSUME IInv, NEW w \in Workers, wk[w].pc # "idle", NEW pc, Goto(w, pc),
           pc \in Deciding => wk[w].pc \in Deciding
    PROVE  RunsAttend
<1>1. wk[w] \in Run
  BY RunFacts
<1>2. PICK n : n = WentOn(wk[w], pc)
  OBVIOUS
<1>3. wk' = [wk EXCEPT ![w] = n]
  BY <1>1, <1>2 DEF Goto, WentOn
<1>4. CASE pc \in {"complete", "acknowledge"}
  <2>1. n.steer = 0 /\ n.pc = pc
    BY <1>1, <1>2, <1>4 DEF WentOn, Run
  <2>2. Attends(w, n)
    BY <1>4, <2>1 DEF Attends, Deciding
  <2>3. QED  BY <1>3, <2>2, OneAttends
<1>5. CASE pc \notin {"complete", "acknowledge"}
  <2>1. /\ n.steer = wk[w].steer /\ n.pc = pc /\ n.read = wk[w].read
        /\ n.task = wk[w].task
    BY <1>1, <1>2, <1>5 DEF WentOn, Run
  <2>2. Attends(w, n)
    BY <2>1 DEF Attends
  <2>3. QED  BY <1>3, <2>2, OneAttends
<1>6. QED  BY <1>4, <1>5

(* The run is dropped. *)
LEMMA IdleAttends ==
    ASSUME IInv, NEW w \in Workers, wk' = [wk EXCEPT ![w] = Idle]
    PROVE  RunsAttend
BY OneAttends DEF Attends, Idle

(* The statements that read the direction, and the one that reads the      *)
(* conversation.                                                           *)
LEMMA SteerAttends ==
    ASSUME IInv, NEW w \in Workers, wk[w].pc # "idle", task' = task,
           NEW pc \in {"charge", "pausing"},
           wk' = [wk EXCEPT ![w].steer = Mine(w).steer, ![w].pc = pc]
    PROVE  RunsAttend
<1> DEFINE n == [wk[w] EXCEPT !.steer = Mine(w).steer, !.pc = pc]
<1>1. wk[w] \in Run
  BY RunFacts
<1>2. wk' = [wk EXCEPT ![w] = n]
  BY <1>1 DEF Run, IInv, TypeOK
<1>3. n.task = wk[w].task /\ n.steer = Mine(w).steer /\ n.pc = pc
  BY <1>1 DEF Run
<1> HIDE DEF n
<1>4. Attends(w, n)
  BY <1>3 DEF Attends, Deciding
<1>5. QED  BY <1>2, <1>4, OneAttends

LEMMA StepLimitAttends ==
    ASSUME IInv, NEW w \in Workers, StepLimit(w)
    PROVE  RunsAttend
<1>1. /\ wk[w].pc # "idle" /\ task' = task
      /\ wk' = [wk EXCEPT ![w].pc = "pausing", ![w].steer = Mine(w).steer]
  BY DEF StepLimit
<1>2. wk[w] \in Run
  BY <1>1, RunFacts
<1>3. wk' = [wk EXCEPT ![w].steer = Mine(w).steer, ![w].pc = "pausing"]
  BY <1>1, <1>2 DEF Run, IInv, TypeOK
<1>4. QED  BY <1>1, <1>3, SteerAttends

LEMMA BudgetAttends ==
    ASSUME IInv, NEW w \in Workers, Budget(w)
    PROVE  RunsAttend
<1>1. wk[w].pc # "idle" /\ task' = task
  BY DEF Budget
<1>2. CASE Goto(w, "fail")
  BY <1>1, <1>2, GotoAttends DEF Deciding
<1>3. CASE \E pc \in {"charge", "pausing"} :
             wk' = [wk EXCEPT ![w].steer = Mine(w).steer, ![w].pc = pc]
  BY <1>1, <1>3, SteerAttends
<1>4. QED  BY <1>2, <1>3 DEF Budget

LEMMA PromptAttends ==
    ASSUME IInv, NEW w \in Workers, Prompt(w)
    PROVE  RunsAttend
<1> DEFINE n == [wk[w] EXCEPT !.pc = "chat", !.read = Mine(w).messages]
<1>1. /\ wk[w].pc # "idle" /\ task' = task
      /\ wk' = [wk EXCEPT ![w].pc = "chat", ![w].read = Mine(w).messages]
  BY DEF Prompt
<1>2. wk[w] \in Run
  BY <1>1, RunFacts
<1>3. wk' = [wk EXCEPT ![w] = n]
  BY <1>1, <1>2 DEF Run, IInv, TypeOK
<1>4. /\ n.task = wk[w].task /\ n.steer = wk[w].steer
      /\ n.read = Mine(w).messages
  BY <1>2 DEF Run
<1> HIDE DEF n
<1>5. Attends(w, n)
  BY <1>1, <1>4 DEF Attends
<1>6. QED  BY <1>3, <1>5, OneAttends

LEMMA ExecutesAttends ==
    ASSUME IInv, NEW w \in Workers, Executes(w)
    PROVE  RunsAttend
<1>1. wk[w].pc # "idle"
  BY DEF Executes, Check, StepLimit, Budget, Charge, Prompt, Chat, Answer,
         Boundary, Tools, PauseBudget, PauseAnyway
<1>2. ASSUME NEW pc, pc \notin Deciding, Goto(w, pc)
      PROVE  RunsAttend
  BY <1>1, <1>2, GotoAttends
<1>3. CASE Check(w)
  BY <1>2, <1>3 DEF Check, Deciding
<1>4. CASE Charge(w)
  BY <1>2, <1>4 DEF Charge, Deciding
<1>5. CASE Chat(w) \/ Boundary(w) \/ Tools(w) \/ Answer(w)
  <2>1. wk[w].pc \in Deciding
    BY <1>5 DEF Chat, Boundary, Tools, Answer, Deciding
  <2>2. \E pc : Goto(w, pc)
    BY <1>5 DEF Chat, Boundary, Tools, Answer, EndRun
  <2>3. QED  BY <1>1, <2>1, <2>2, GotoAttends
<1>6. CASE PauseBudget(w) \/ PauseAnyway(w)
  BY <1>2, <1>6 DEF PauseBudget, PauseAnyway, Deciding
<1>7. QED
  BY <1>3, <1>4, <1>5, <1>6, StepLimitAttends, BudgetAttends, PromptAttends
  DEF Executes

LEMMA ClaimAttends ==
    ASSUME IInv, NEW w \in Workers, Claim(w)
    PROVE  RunsAttend
<1>1. CASE wk' = wk
  BY <1>1, RunsKept
<1>2. ASSUME NEW k \in Tasks \X Gens, NEW STATE n,
             n = RunOf(k[1], k[2], SweptJobs[k[1]][k[2]].token + 1),
             wk' = [wk EXCEPT ![w] = n]
      PROVE  RunsAttend
  <2>1. n.steer = 0 /\ n.pc = "begin"
    BY <1>2 DEF RunOf
  <2>2. Attends(w, n)
    BY <2>1 DEF Attends, Deciding
  <2>3. QED  BY <1>2, <2>2, OneAttends
<1>3. CASE \E k \in Tasks \X Gens :
             wk' = [wk EXCEPT ![w] =
                       RunOf(k[1], k[2], SweptJobs[k[1]][k[2]].token + 1)]
  BY <1>2, <1>3
<1>4. QED
  BY <1>1, <1>3, Zenon DEF Claim

LEMMA WorkAttends ==
    ASSUME IInv, NEW w \in Workers, Work(w) \/ Heartbeat(w) \/ Restart(w)
    PROVE  RunsAttend
<1>1. CASE CallStep(w)
  <2>1. wk' = wk
    BY <1>1
    DEF CallStep, Bind, Enqueue, Advance, Point, RequestCancel, DeleteRow
  <2>2. QED  BY <2>1, RunsKept
<1>2. CASE Begin(w)
  BY <1>2, GotoAttends DEF Begin, Deciding
<1>3. CASE CompleteJob(w) \/ AcknowledgeCancel(w) \/ GiveUp(w) \/ Restart(w)
  BY <1>3, IdleAttends
  DEF CompleteJob, AcknowledgeCancel, Settle, GiveUp, Restart
<1>4. CASE RetryJob(w)
  BY <1>4, GotoAttends DEF RetryJob, Deciding
<1>5. CASE ReadBack(w)
  BY <1>5, GotoAttends, IdleAttends DEF ReadBack, Deciding
<1>6. CASE Heartbeat(w)
  <2> DEFINE n == [wk[w] EXCEPT !.lost = TRUE]
  <2>1. wk[w].pc # "idle"
    BY <1>6 DEF Heartbeat, Executing
  <2>2. wk[w] \in Run
    BY <2>1, RunFacts
  <2>3. wk' = wk \/ wk' = [wk EXCEPT ![w] = n]
    BY <1>6, <2>2 DEF Heartbeat, Run, IInv, TypeOK
  <2>4. /\ n.task = wk[w].task /\ n.steer = wk[w].steer
        /\ n.read = wk[w].read /\ n.pc = wk[w].pc
    BY <2>2 DEF Run
  <2> HIDE DEF n
  <2>5. Attends(w, n)
    BY <2>1, <2>4 DEF Attends
  <2>6. QED  BY <2>3, <2>5, RunsKept, OneAttends
<1>7. QED
  BY <1>1, <1>2, <1>3, <1>4, <1>5, <1>6, ClaimAttends, ExecutesAttends
  DEF Work

LEMMA NextAttends ==
    ASSUME IInv, [Next]_vars
    PROVE  RunsAttend
<1>1. CASE wk' = wk
  BY <1>1, RunsKept
<1>2. ASSUME NEW r \in Requests,
             CallStep(r) \/ RequestDies(r) \/ \E t \in Tasks : Owner(r, t)
      PROVE  wk' = wk
  BY <1>2
  DEF CallStep, Bind, Enqueue, Advance, Point, RequestCancel, DeleteRow,
      RequestDies, Owner, Create, Message, Continue, Pause, Cancel,
      OwnerTransition, Delete
<1>3. ASSUME NEW t \in Tasks, NEW g \in Gens,
             OperatorCancel(t, g) \/ OperatorRequeue(t, g) \/ Expire(t, g)
      PROVE  wk' = wk
  BY <1>3 DEF OperatorCancel, OperatorRequeue, Expire
<1>4. QED
  BY <1>1, <1>2, <1>3, WorkAttends DEF Next, vars

LEMMA AlwaysAttentive == Spec => []AllAttentive
<1>1. Init => AllAttentive
  BY DEF Init, AllAttentive, Attentive, Idle
<1>2. IInv /\ IInv' /\ AllAttentive /\ [Next]_vars => AllAttentive'
  BY NextListens, NextAttends, AttentiveKept
<1>3. QED  BY <1>1, <1>2, Invariant, PTL DEF Spec

(* No run completes its task, or asks the owner, on an answer to a prompt  *)
(* that lacked a message: worker_transition names the steering revision    *)
(* read before the prompt, and add_message advances it.                    *)
THEOREM DecisionsHearTheOwner == Spec => DecidesOnAllMessages
<1>1. IInv /\ AllAttentive /\ [Next]_vars =>
        [\A t \in Tasks :
            /\ task[t].status = "running"
            /\ task'[t].status \in Final \cup {"waiting_input",
                                               "waiting_approval"}
            /\ task'[t].steer = task[t].steer
            => \E w \in Workers : /\ wk[w].task = t
                                  /\ wk[w].pc \in {"answer", "tools"}
                                  /\ wk'[w].pc = "complete"
                                  /\ wk[w].read = task[t].messages]_vars
  BY NextListens DEF AllInformed, Ends, WellInformed
<1>2. QED
  BY <1>1, Invariant, AlwaysAttentive, PTL DEF Spec, DecidesOnAllMessages

----------------------------------------------------------------------------
(* The jobs of the tasks implement the abstract ledger.                    *)
JobsBooked == \A t \in Tasks, g \in Gens : Booked(job[t][g])
JobsAbide == \A t \in Tasks, g \in Gens : Abides(job[t][g], job'[t][g])

LEMMA SameJobsAbide ==
    ASSUME JobsBooked, UNCHANGED job
    PROVE  JobsAbide
BY CallersAbide DEF JobsBooked, JobsAbide

LEMMA RowAbides ==
    ASSUME IInv, JobsBooked, NEW t \in Tasks, NEW g \in Gens, NEW r,
           SetRow(t, g, r), Abides(job[t][g], r)
    PROVE  JobsAbide
<1>1. \A u \in Tasks, h \in Gens :
         job'[u][h] = IF u = t /\ h = g THEN r ELSE job[u][h]
  BY DEF SetRow, IInv, TypeOK
<1> QED BY <1>1, CallersAbide DEF JobsBooked, JobsAbide

LEMMA RequestAbides ==
    ASSUME IInv, JobsBooked, NEW t \in Tasks, NEW g \in Gens,
           \/ SetRow(t, g, Enqueued(job[t][g], TRUE))
           \/ SetRow(t, g, CancelRequested(job[t][g]))
           \/ OperatorRequeue(t, g)
           \/ Expire(t, g)
    PROVE  JobsAbide
<1>1. Booked(job[t][g])
  BY DEF JobsBooked
<1>2. CASE Expire(t, g)
  BY <1>1, <1>2, ColumnsAbide, RowAbides DEF Expire
<1>3. CASE OperatorRequeue(t, g)
  BY <1>1, <1>3, CallersAbide, RowAbides DEF OperatorRequeue
<1> QED BY <1>1, <1>2, <1>3, CallersAbide, RowAbides

LEMMA CallAbides ==
    ASSUME IInv, JobsBooked, NEW p \in Processes, CallStep(p)
    PROVE  JobsAbide
<1>1. PICK c \in call[p] : \/ Bind(p, c) \/ Enqueue(p, c) \/ Advance(p, c)
                           \/ Point(p, c) \/ RequestCancel(p, c)
                           \/ DeleteRow(p, c)
  BY DEF CallStep
<1>2. c.task \in Tasks /\ (c.op \notin {"bind", "delete"} => c.gen \in Gens)
  BY CallFacts
<1>3. CASE Enqueue(p, c)
  BY <1>2, <1>3, RequestAbides DEF Enqueue
<1>4. CASE RequestCancel(p, c)
  BY <1>2, <1>4, RequestAbides DEF RequestCancel
<1>5. CASE Bind(p, c) \/ Advance(p, c) \/ Point(p, c) \/ DeleteRow(p, c)
  BY <1>5, SameJobsAbide DEF Bind, Advance, Point, DeleteRow
<1> QED BY <1>1, <1>3, <1>4, <1>5

LEMMA SettlementAbides ==
    ASSUME IInv, JobsBooked, NEW w \in Workers,
           \/ CompleteJob(w) \/ AcknowledgeCancel(w) \/ RetryJob(w)
           \/ Heartbeat(w)
    PROVE  JobsAbide
<1> DEFINE t == wk[w].task
           g == wk[w].gen
           k == wk[w].token
<1>1. t \in Tasks /\ g \in Gens /\ k \in Nat
  <2>1. wk[w].pc # "idle"
    BY DEF CompleteJob, AcknowledgeCancel, RetryJob, Heartbeat, Executing
  <2> QED BY <2>1 DEF IInv, TypeOK, RunsOK, RunOK, Run
<1>2. /\ CanComplete(job[t][g], w, k) => Abides(job[t][g], Completed(job[t][g]))
      /\ CanAcknowledgeCancel(job[t][g], w, k)
             => Abides(job[t][g], CancelAcknowledged(job[t][g]))
      /\ CanRetry(job[t][g], w, k)
             => Abides(job[t][g], Retried(job[t][g], MaxAttempts, TRUE))
      /\ CanRenew(job[t][g], w, k) => Abides(job[t][g], Renewed(job[t][g]))
  <2>1. Booked(job[t][g]) /\ MaxAttempts \in Nat
    BY <1>1, LimitsAssumption DEF JobsBooked
  <2> QED BY <1>1, <2>1, HoldersAbide
<1>3. \/ UNCHANGED job
      \/ CanComplete(job[t][g], w, k) /\ SetRow(t, g, Completed(job[t][g]))
      \/ /\ CanAcknowledgeCancel(job[t][g], w, k)
         /\ SetRow(t, g, CancelAcknowledged(job[t][g]))
      \/ /\ CanRetry(job[t][g], w, k)
         /\ SetRow(t, g, Retried(job[t][g], MaxAttempts, TRUE))
      \/ CanRenew(job[t][g], w, k) /\ SetRow(t, g, Renewed(job[t][g]))
  <2>1. CASE CompleteJob(w)
    BY <2>1 DEF CompleteJob, Settle, MyJob
  <2>2. CASE AcknowledgeCancel(w)
    BY <2>2 DEF AcknowledgeCancel, Settle, MyJob
  <2>3. CASE RetryJob(w)
    BY <2>3 DEF RetryJob, MyJob
  <2>4. CASE Heartbeat(w)
    BY <2>4 DEF Heartbeat, MyJob
  <2> QED BY <2>1, <2>2, <2>3, <2>4
<1> QED BY <1>1, <1>2, <1>3, RowAbides, SameJobsAbide

LEMMA ClaimAbides ==
    ASSUME IInv, JobsBooked, NEW w \in Workers, Claim(w)
    PROVE  JobsAbide
<1>1. /\ MaxAttempts \in Nat
      /\ \A t \in Tasks, g \in Gens :
             SweptJobs[t][g] = Swept(job[t][g], MaxAttempts)
      /\ DOMAIN SweptJobs = Tasks
      /\ \A t \in Tasks : DOMAIN SweptJobs[t] = Gens
  BY LimitsAssumption DEF SweptJobs
<1>2. \A t \in Tasks, g \in Gens : Abides(job[t][g], SweptJobs[t][g])
  BY <1>1, SweptAbides DEF JobsBooked
<1>3. CASE job' = SweptJobs
  BY <1>2, <1>3 DEF JobsAbide
<1>4. ASSUME NEW k \in Tasks \X Gens,
             Claimable(SweptJobs[k[1]][k[2]], MaxAttempts),
             job' = [SweptJobs EXCEPT
                        ![k[1]][k[2]] = Claimed(SweptJobs[k[1]][k[2]], w)]
      PROVE  JobsAbide
  <2>1. PICK t \in Tasks, g \in Gens : t = k[1] /\ g = k[2]
    OBVIOUS
  <2>2. Abides(job[t][g], Claimed(SweptJobs[t][g], w))
    BY <1>1, <1>4, <2>1, ClaimedAbides DEF JobsBooked
  <2>3. \A u \in Tasks, h \in Gens :
           job'[u][h] = IF u = t /\ h = g THEN Claimed(SweptJobs[t][g], w)
                        ELSE SweptJobs[u][h]
    BY <1>1, <1>4, <2>1
  <2> QED BY <1>2, <2>2, <2>3 DEF JobsAbide
<1> QED BY <1>3, <1>4 DEF Claim

LEMMA StepAbides ==
    ASSUME IInv, JobsBooked, [Next]_vars
    PROVE  JobsAbide
<1>1. ASSUME NEW w \in Workers, Work(w) \/ Heartbeat(w) \/ Restart(w)
      PROVE  JobsAbide
  <2>1. CASE CallStep(w)
    BY <2>1, CallAbides DEF Processes
  <2>2. CASE Claim(w)
    BY <2>2, ClaimAbides
  <2>3. CASE CompleteJob(w) \/ AcknowledgeCancel(w) \/ RetryJob(w) \/ Heartbeat(w)
    BY <2>3, SettlementAbides
  <2>4. CASE Begin(w) \/ Executes(w) \/ ReadBack(w) \/ GiveUp(w) \/ Restart(w)
    BY <2>4, SameJobsAbide
    DEF Begin, Executes, Check, StepLimit, Budget, Charge, Prompt, Chat, Answer,
        Boundary, Tools, PauseBudget, PauseAnyway, EndRun, ReadBack, GiveUp,
        Restart
  <2> QED BY <1>1, <2>1, <2>2, <2>3, <2>4 DEF Work
<1>2. ASSUME NEW r \in Requests, CallStep(r)
      PROVE  JobsAbide
  BY <1>2, CallAbides DEF Processes
<1>3. ASSUME NEW r \in Requests, NEW t \in Tasks, RequestDies(r) \/ Owner(r, t)
      PROVE  JobsAbide
  BY <1>3, SameJobsAbide
  DEF RequestDies, Owner, Create, Message, Continue, Pause, Cancel, Delete,
      OwnerTransition
<1>4. ASSUME NEW r \in Requests, RequestDies(r)
      PROVE  JobsAbide
  BY <1>4, SameJobsAbide DEF RequestDies
<1>5. ASSUME NEW t \in Tasks, NEW g \in Gens,
             OperatorCancel(t, g) \/ OperatorRequeue(t, g) \/ Expire(t, g)
      PROVE  JobsAbide
  BY <1>5, RequestAbides DEF OperatorCancel
<1>6. CASE UNCHANGED vars
  BY <1>6, SameJobsAbide DEF vars
<1> QED BY <1>1, <1>2, <1>3, <1>4, <1>5, <1>6 DEF Next

(* The job of every run of a task is leased to one worker at a time, under *)
(* epochs without gaps; a completed one is never run again, and one that   *)
(* was given up or cancelled only when an operator requeues it.            *)
THEOREM TaskJobsKeepTheLedger == Spec => LedgerSpec
<1>1. Init => JobsBooked /\ Ledger!Init
  <2> SUFFICES ASSUME Init PROVE JobsBooked /\ Ledger!Init
    OBVIOUS
  <2>1. AbsentRow \in Row
    BY DEF AbsentRow, Row, Statuses
  <2>2. Booked(AbsentRow)
    BY <2>1 DEF Booked, Sound, AbsentRow
  <2>3. LedgerEntry(AbsentRow) = Ledger!NewEntry
    BY PhaseOf DEF AbsentRow, LedgerEntry, Ledger!NewEntry
  <2>4. \A t \in Tasks, g \in Gens : job[t][g] = AbsentRow
    BY DEF Init
  <2> QED BY <2>2, <2>3, <2>4 DEF JobsBooked, Ledger!Init, JobsView, JobKeys
<1>2. IInv /\ JobsBooked /\ [Next]_vars => JobsBooked' /\ [Ledger!Next]_JobsView
  <2> SUFFICES ASSUME IInv, JobsBooked, [Next]_vars
               PROVE  JobsBooked' /\ Ledger!Next
    OBVIOUS
  <2>1. JobsAbide
    BY StepAbides
  <2>2. \A t \in Tasks, g \in Gens : Booked(job'[t][g]) /\ job'[t][g] \in Row
    BY <2>1 DEF JobsAbide, Abides, Booked, Sound
  <2>3. \A t \in Tasks, g \in Gens :
           Ledger!Lawful(LedgerEntry(job[t][g]), LedgerEntry(job'[t][g]))
    BY <2>1
    DEF JobsAbide, Abides, Law!Lawful, Law!Submit, Law!Grant, Law!Finish,
        Law!GiveBack, Law!Abort, Law!Reopen, Law!Unheld,
        Ledger!Lawful, Ledger!Submit, Ledger!Grant, Ledger!Finish,
        Ledger!GiveBack, Ledger!Abort, Ledger!Reopen, Ledger!Unheld
  <2>4. \A t \in Tasks, g \in Gens : LedgerEntry(job'[t][g]) \in Ledger!Entry
    BY <2>2, EntriesHaveType DEF Law!Entry, Ledger!Entry
  <2>5. \A k \in JobKeys : k[1] \in Tasks /\ k[2] \in Gens
    BY DEF JobKeys
  <2> QED BY <2>2, <2>3, <2>4, <2>5 DEF JobsBooked, Ledger!Next, JobsView
<1> QED BY <1>1, <1>2, Invariant, PTL DEF Spec, LedgerSpec, Ledger!Spec
=============================================================================
