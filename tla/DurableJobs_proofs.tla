------------------------ MODULE DurableJobs_proofs ------------------------
(***************************************************************************)
(* The inductive invariant of DurableJobs and what follows from it, the    *)
(* refinement of JobLedger and what no step does to a cancelled job or a   *)
(* checkpoint: for any set of jobs, workers and types and any bounds.      *)
(***************************************************************************)
EXTENDS DurableJobs, TLAPS

Assumptions == /\ None \notin Workers
               /\ TypeOf \in [Jobs -> JobTypes]
               /\ MaxAttempts \in Nat \ {0}
               /\ MaxRequeues \in Nat
               /\ MaxDefers \in Nat

LEMMA ConstantsOK == Assumptions
BY WorkersAssumption, TypesAssumption, AttemptsAssumption, BoundsAssumption
DEF Assumptions

(* What a statement other than a claim may do to a row. *)
Quiet(r, s) ==
    /\ s \in Row
    /\ RowOK(s)
    /\ s.token = r.token
    /\ s.owner \in {r.owner, None}
    /\ s.attempts = r.attempts

(* Ending a lease: the common part of the statements that do. *)
LEMMA UnleasedIsQuiet ==
    ASSUME NEW r \in Row, RowOK(r), r.status # "absent",
           NEW s \in Waiting \cup Terminal,
           s \in Waiting => r.attempts < MaxAttempts /\ ~r.cancel,
           NEW b \in BOOLEAN
    PROVE  /\ Quiet(r, Unleased(r, s))
           /\ Quiet(r, [Unleased(r, s) EXCEPT !.due = b])
BY ConstantsOK DEF Assumptions, Quiet, RowOK, Row, Statuses, Waiting, Terminal,
   AbsentRow, Unleased

(* The status retry_job and the lease sweep choose fits the row. *)
LEMMA ExpiredStatusFits ==
    ASSUME NEW r \in Row, RowOK(r)
    PROVE  LET s == ExpiredStatus(r, MaxAttempts)
           IN  /\ s \in Waiting \cup Terminal
               /\ s \in Waiting => r.attempts < MaxAttempts /\ ~r.cancel
BY ConstantsOK DEF Assumptions, Row, Waiting, Terminal, ExpiredStatus

(* The statements of producers and operators, but requeue_job, leave the   *)
(* row well formed and its attempts and token alone.                       *)
LEMMA ProducerStatements ==
    ASSUME NEW r \in Row, RowOK(r), NEW b \in BOOLEAN
    PROVE  /\ Quiet(r, Enqueued(r, b))
           /\ Quiet(r, CancelRequested(r))
           /\ Quiet(r, Released(r))
<1> USE ConstantsOK DEF Assumptions, Quiet, RowOK, Row, Statuses, Waiting,
        Terminal, AbsentRow, Unleased
<1>1. Quiet(r, Enqueued(r, b))
  <2>1. CASE r.status = "absent"
    <3>1. r.token = 0 /\ r.attempts = 0 /\ r.owner = None
      BY <2>1
    <3>2. Enqueued(r, b).status = "pending"  BY <2>1 DEF Enqueued
    <3>3. Enqueued(r, b) \in Row  BY <2>1 DEF Enqueued
    <3>4. /\ Enqueued(r, b).owner = None
          /\ Enqueued(r, b).token = 0
          /\ Enqueued(r, b).attempts = 0
          /\ ~Enqueued(r, b).cancel
      BY <2>1 DEF Enqueued
    <3>5. QED  BY <3>1, <3>2, <3>3, <3>4
  <2>2. QED  BY <2>1 DEF Enqueued
<1>2. Quiet(r, CancelRequested(r))  BY DEF CancelRequested
<1>3. Quiet(r, Released(r))  BY DEF Released
<1>4. QED  BY <1>1, <1>2, <1>3

(* So do those of the worker that holds the claim, but defer_job. *)
LEMMA WorkerStatements ==
    ASSUME NEW r \in Row, RowOK(r), NEW b \in BOOLEAN, NEW t \in Nat,
           NEW w \in Workers
    PROVE  /\ CanComplete(r, w, t) => Quiet(r, Completed(r))
           /\ CanRetry(r, w, t) => Quiet(r, Retried(r, MaxAttempts, b))
           /\ CanDeadLetter(r, w, t) => Quiet(r, DeadLettered(r))
           /\ CanAcknowledgeCancel(r, w, t) => Quiet(r, CancelAcknowledged(r))
           /\ CanRenew(r, w, t) => Quiet(r, Renewed(r))
           /\ CanCheckpoint(r, w, t) => Quiet(r, Checkpointed(r, t))
<1>1. CanRetry(r, w, t) => Quiet(r, Retried(r, MaxAttempts, b))
  <2>1. SUFFICES ASSUME CanRetry(r, w, t)
                 PROVE  Quiet(r, Retried(r, MaxAttempts, b))
    OBVIOUS
  <2>2. r.status # "absent"
    BY <2>1, ConstantsOK DEF Assumptions, CanRetry, RowOK, AbsentRow
  <2>3. QED  BY <2>2, ExpiredStatusFits, UnleasedIsQuiet DEF Retried
<1> USE ConstantsOK DEF Assumptions, Quiet, RowOK, Row, Statuses, Waiting,
        Terminal, AbsentRow, Unleased, HeldBy
<1>2. CanComplete(r, w, t) => Quiet(r, Completed(r))
  BY DEF CanComplete, Completed
<1>3. CanDeadLetter(r, w, t) => Quiet(r, DeadLettered(r))
  BY DEF CanDeadLetter, DeadLettered
<1>4. CanAcknowledgeCancel(r, w, t) => Quiet(r, CancelAcknowledged(r))
  BY DEF CanAcknowledgeCancel, CancelAcknowledged
<1>5. CanRenew(r, w, t) => Quiet(r, Renewed(r))
  BY DEF CanRenew, Renewed
<1>6. CanCheckpoint(r, w, t) => Quiet(r, Checkpointed(r, t))
  BY DEF CanCheckpoint, Checkpointed
<1>7. QED  BY <1>1, <1>2, <1>3, <1>4, <1>5, <1>6

LEMMA SweepIsQuiet ==
    ASSUME NEW r \in Row, RowOK(r)
    PROVE  Quiet(r, Swept(r, MaxAttempts))
<1> DEFINE r1 == SweepCancelRequested(r)
<1> DEFINE r2 == SweepOverdue(r1)
<1>1. r1 = r
  BY DEF RowOK, SweepCancelRequested
<1>2. Quiet(r, r2)
  <2>1. CASE r.status \in Waiting /\ r.overdue
    <3>1. r2 = Unleased(r, "dead_letter")  BY <1>1, <2>1 DEF SweepOverdue
    <3>2. QED  BY <2>1, <3>1, UnleasedIsQuiet DEF Waiting, Terminal
  <2>2. CASE ~(r.status \in Waiting /\ r.overdue)
    BY <1>1, <2>2 DEF SweepOverdue, Quiet
  <2>3. QED  BY <2>1, <2>2
<1>3. Quiet(r2, SweepExpiredLease(r2, MaxAttempts))
  <2>1. CASE r2.status = "running" /\ r2.expired
    <3>1. Quiet(r2, [Unleased(r2, ExpiredStatus(r2, MaxAttempts))
                        EXCEPT !.due = TRUE])
      BY <1>2, <2>1, UnleasedIsQuiet, ExpiredStatusFits DEF Quiet
    <3>2. QED  BY <2>1, <3>1 DEF SweepExpiredLease
  <2>2. CASE ~(r2.status = "running" /\ r2.expired)
    BY <1>2, <2>2 DEF SweepExpiredLease, Quiet
  <2>3. QED  BY <2>1, <2>2
<1>4. QED  BY <1>2, <1>3 DEF Quiet, Swept

(* defer_job gives one attempt back. *)
LEMMA DeferStatement ==
    ASSUME NEW r \in Row, RowOK(r), NEW b \in BOOLEAN, NEW t \in Nat,
           NEW w \in Workers, CanDefer(r, w, t)
    PROVE  /\ Deferred(r, b) \in Row
           /\ RowOK(Deferred(r, b))
           /\ Deferred(r, b).token = r.token
           /\ Deferred(r, b).owner = None
           /\ Deferred(r, b).attempts + 1 >= r.attempts
<1> DEFINE u == Unleased(r, "retry")
           n == IF u.attempts > 0 THEN u.attempts - 1 ELSE 0
<1>1. /\ u \in Row /\ u.status = "retry" /\ u.owner = None
      /\ u.token = r.token /\ u.attempts = r.attempts /\ u.cancel = r.cancel
  BY ConstantsOK DEF Unleased, Row, Statuses, Waiting
<1>2. ~r.cancel /\ r.attempts <= MaxAttempts /\ r.attempts \in Nat
  BY DEF CanDefer, RowOK, Row
<1>3. n \in Nat /\ n < MaxAttempts /\ n + 1 >= r.attempts
  BY <1>1, <1>2, ConstantsOK DEF Assumptions
<1>4. Deferred(r, b) = [u EXCEPT !.attempts = n, !.due = b]
  BY DEF Deferred
<1> HIDE DEF u, n
<1>5. /\ Deferred(r, b) \in Row
      /\ Deferred(r, b).status = "retry" /\ Deferred(r, b).owner = None
      /\ Deferred(r, b).attempts = n /\ ~Deferred(r, b).cancel
      /\ Deferred(r, b).token = r.token
  BY <1>1, <1>2, <1>3, <1>4 DEF Row
<1>6. RowOK(Deferred(r, b))
  BY <1>3, <1>5, ConstantsOK DEF Assumptions, RowOK
<1>7. QED  BY <1>3, <1>5, <1>6

LEMMA RequeueStatement ==
    ASSUME NEW r \in Row, RowOK(r), NEW b \in BOOLEAN, CanRequeue(r)
    PROVE  /\ Requeued(r, b) \in Row
           /\ RowOK(Requeued(r, b))
           /\ Requeued(r, b).token = r.token
           /\ Requeued(r, b).owner = None
           /\ Requeued(r, b).attempts = 0
           /\ r.attempts <= MaxAttempts
<1> DEFINE u == Unleased(r, "retry")
<1>1. /\ u \in Row /\ u.status = "retry" /\ u.owner = None
      /\ u.token = r.token
  BY ConstantsOK DEF Unleased, Row, Statuses, Waiting
<1>2. Requeued(r, b) = [u EXCEPT !.attempts = 0, !.cancel = FALSE, !.due = b]
  BY DEF Requeued
<1> HIDE DEF u
<1>3. Requeued(r, b) \in Row
  <2>1. u \in Row /\ 0 \in Nat /\ FALSE \in BOOLEAN
    BY <1>1
  <2>2. QED  BY <1>2, <2>1, Zenon DEF Row
<1>4. /\ Requeued(r, b).status = "retry" /\ Requeued(r, b).owner = None
      /\ Requeued(r, b).attempts = 0 /\ ~Requeued(r, b).cancel
      /\ Requeued(r, b).token = r.token
  BY <1>1, <1>2 DEF Row
<1>5. RowOK(Requeued(r, b))
  BY <1>4, ConstantsOK DEF Assumptions, RowOK
<1>6. QED  BY <1>3, <1>4, <1>5 DEF RowOK

(* A claim pays one attempt for one token. *)
LEMMA ClaimStatement ==
    ASSUME NEW r \in Row, RowOK(r), NEW w \in Workers,
           Claimable(r, MaxAttempts)
    PROVE  /\ Claimed(r, w) \in Row
           /\ RowOK(Claimed(r, w))
           /\ Claimed(r, w).token = r.token + 1
           /\ Claimed(r, w).owner = w
           /\ Claimed(r, w).attempts = r.attempts + 1
<1> DEFINE u == Leased(r, w)
<1>1. /\ u \in Row /\ u.status = "running" /\ u.owner = w
      /\ u.token = r.token /\ u.attempts = r.attempts
  BY DEF Leased, Row, Statuses
<1>2. Claimed(r, w) = [u EXCEPT !.attempts = u.attempts + 1,
                                !.token = u.token + 1]
  BY DEF Claimed
<1> HIDE DEF u
<1>3. r.attempts \in Nat /\ r.token \in Nat /\ r.attempts < MaxAttempts
  BY DEF Claimable, Row
<1>4. Claimed(r, w) \in Row
  <2>1. u.attempts + 1 \in Nat /\ u.token + 1 \in Nat
    BY <1>1, <1>3
  <2>2. QED  BY <1>1, <1>2, <2>1, Zenon DEF Row
<1>5. /\ Claimed(r, w).status = "running" /\ Claimed(r, w).owner = w
      /\ Claimed(r, w).attempts = r.attempts + 1
      /\ Claimed(r, w).token = r.token + 1
  BY <1>1, <1>2, <1>3 DEF Row
<1>6. RowOK(Claimed(r, w))
  BY <1>3, <1>5, ConstantsOK DEF Assumptions, RowOK, Waiting
<1>7. QED  BY <1>4, <1>5, <1>6

----------------------------------------------------------------------------
(* Claims in memory stay sound when no row is handed out: tokens stay,     *)
(* owners only leave, workers only forget.                                 *)
LEMMA ClaimsKept ==
    ASSUME IInv,
           \A j \in Jobs : /\ job'[j].token = job[j].token
                          /\ job'[j].owner \in {job[j].owner, None},
           \A w \in Workers : held'[w] \subseteq held[w]
    PROVE  ClaimsOK'
<1> SUFFICES ASSUME NEW w \in Workers, NEW c \in held'[w]
             PROVE  /\ c.token \in 1 .. job'[c.job].token
                    /\ job'[c.job].owner = w => c.token = job'[c.job].token
                    /\ \A v \in Workers \ {w} : c \notin held'[v]
  BY DEF ClaimsOK
<1>1. c \in held[w] /\ c \in Claims /\ c.job \in Jobs
  BY DEF IInv, TypeOK, Claims
<1>2. /\ c.token \in 1 .. job[c.job].token
      /\ job[c.job].owner = w => c.token = job[c.job].token
      /\ \A v \in Workers \ {w} : c \notin held[v]
  BY <1>1 DEF IInv, ClaimsOK
<1>3. w # None
  BY ConstantsOK DEF Assumptions
<1>4. QED  BY <1>1, <1>2, <1>3

(* A step that treats every row quietly keeps the invariant. *)
LEMMA QuietStep ==
    ASSUME IInv,
           job' \in [Jobs -> Row],
           \A j \in Jobs : Quiet(job[j], job'[j]),
           held' \in [Workers -> SUBSET Claims],
           \A w \in Workers : held'[w] \subseteq held[w],
           UNCHANGED <<requeues, defers>>
    PROVE  IInv'
<1>1. TypeOK'  BY DEF IInv, TypeOK
<1>2. RowsOK'  BY DEF Quiet, RowsOK
<1>3. ClaimsPaidFor'  BY DEF IInv, ClaimsPaidFor, Quiet
<1>4. ClaimsOK'  BY ClaimsKept DEF Quiet
<1>5. QED  BY <1>1, <1>2, <1>3, <1>4 DEF IInv

LEMMA RowUnchangedIsQuiet ==
    ASSUME IInv, NEW j \in Jobs
    PROVE  job[j] \in Row /\ RowOK(job[j]) /\ Quiet(job[j], job[j])
BY DEF IInv, TypeOK, RowsOK, Quiet

(* The same for a step on one row. *)
LEMMA QuietRow ==
    ASSUME IInv, NEW j \in Jobs, NEW s, Quiet(job[j], s), SetRow(j, s),
           held' \in [Workers -> SUBSET Claims],
           \A w \in Workers : held'[w] \subseteq held[w],
           UNCHANGED <<requeues, defers>>
    PROVE  IInv'
<1>1. job' \in [Jobs -> Row]
  BY DEF SetRow, IInv, TypeOK, Quiet
<1>2. \A i \in Jobs : Quiet(job[i], job'[i])
  BY RowUnchangedIsQuiet DEF SetRow, IInv, TypeOK
<1>3. QED  BY <1>1, <1>2, QuietStep

LEMMA Forgetting ==
    ASSUME IInv, NEW w \in Workers, NEW c \in held[w],
           Forget(w, c) \/ UNCHANGED held
    PROVE  /\ held' \in [Workers -> SUBSET Claims]
           /\ \A v \in Workers : held'[v] \subseteq held[v]
BY DEF Forget, IInv, TypeOK

LEMMA HeldClaim ==
    ASSUME IInv, NEW w \in Workers, NEW c \in held[w]
    PROVE  c.job \in Jobs /\ c.token \in Nat /\ TokenArg(c) \in Nat
BY DEF IInv, TypeOK, Claims, TokenArg, NoToken

LEMMA OnlyForgetting ==
    ASSUME IInv, UNCHANGED <<job, requeues, defers>>,
           held' \in [Workers -> SUBSET Claims],
           \A w \in Workers : held'[w] \subseteq held[w]
    PROVE  IInv'
BY RowUnchangedIsQuiet, QuietStep DEF IInv, TypeOK

LEMMA HeldUnchanged ==
    ASSUME IInv, UNCHANGED held
    PROVE  /\ held' \in [Workers -> SUBSET Claims]
           /\ \A w \in Workers : held'[w] \subseteq held[w]
BY DEF IInv, TypeOK

----------------------------------------------------------------------------
(* One lemma per group of actions. *)

LEMMA ProducersKeepIInv ==
    ASSUME IInv, NEW j \in Jobs,
           Enqueue(j) \/ RequestCancel(j) \/ Release(TypeOf[j], AggregateOf[j])
    PROVE  IInv'
<1>1. /\ held' \in [Workers -> SUBSET Claims]
      /\ \A w \in Workers : held'[w] \subseteq held[w]
      /\ UNCHANGED <<requeues, defers>>
  BY HeldUnchanged DEF Enqueue, RequestCancel, Release
<1>2. CASE Enqueue(j)
  <2>1. PICK b \in BOOLEAN : SetRow(j, Enqueued(job[j], b))
    BY <1>2 DEF Enqueue
  <2>2. Quiet(job[j], Enqueued(job[j], b))
    BY RowUnchangedIsQuiet, ProducerStatements
  <2>3. QED  BY <1>1, <2>1, <2>2, QuietRow
<1>3. CASE RequestCancel(j)
  <2>1. SetRow(j, CancelRequested(job[j]))  BY <1>3 DEF RequestCancel
  <2>2. Quiet(job[j], CancelRequested(job[j]))
    BY RowUnchangedIsQuiet, ProducerStatements
  <2>3. QED  BY <1>1, <2>1, <2>2, QuietRow
<1>4. CASE Release(TypeOf[j], AggregateOf[j])
  <2>1. \A i \in Jobs : Quiet(job[i], Released(job[i]))
    BY RowUnchangedIsQuiet, ProducerStatements
  <2>2. \A i \in Jobs : Quiet(job[i], job'[i])
    BY <1>4, <2>1, RowUnchangedIsQuiet DEF Release
  <2>3. job' \in [Jobs -> Row]
    BY <1>4, <2>2 DEF Release, Quiet
  <2>4. QED  BY <1>1, <2>2, <2>3, QuietStep
<1>5. QED  BY <1>2, <1>3, <1>4

(* A requeue erases at most MaxAttempts attempts and is counted. *)
LEMMA RequeueKeepsIInv ==
    ASSUME IInv, NEW j \in Jobs, Requeue(j)
    PROVE  IInv'
<1>1. PICK b \in BOOLEAN : SetRow(j, Requeued(job[j], b))
  BY DEF Requeue
<1> DEFINE s == Requeued(job[j], b)
<1>2. job[j] \in Row /\ RowOK(job[j])
  BY RowUnchangedIsQuiet
<1>3. /\ s \in Row /\ RowOK(s) /\ s.token = job[j].token
      /\ s.owner = None /\ s.attempts = 0 /\ job[j].attempts <= MaxAttempts
  BY <1>2, RequeueStatement DEF Requeue
<1>4. job' = [job EXCEPT ![j] = s]
  BY <1>1 DEF SetRow
<1> HIDE DEF s
<1>5. TypeOK'
  BY <1>3, <1>4 DEF IInv, TypeOK, Requeue
<1>6. RowsOK'
  BY <1>3, <1>4 DEF IInv, TypeOK, RowsOK
<1>7. ClaimsPaidFor'
  <2> SUFFICES ASSUME NEW i \in Jobs
               PROVE  job'[i].token <= job'[i].attempts
                          + MaxAttempts * requeues'[i] + defers'[i]
    BY DEF ClaimsPaidFor
  <2>1. job[i].token <= job[i].attempts + MaxAttempts * requeues[i] + defers[i]
    BY DEF IInv, ClaimsPaidFor
  <2>2. defers'[i] = defers[i]
    BY DEF Requeue
  <2>3. CASE i = j
    <3>1. /\ requeues[j] \in Nat /\ defers[j] \in Nat /\ job[j].token \in Nat
          /\ job[j].attempts \in Nat /\ MaxAttempts \in Nat
      BY <1>2, ConstantsOK DEF IInv, TypeOK, Row, Assumptions
    <3>2. requeues'[j] = requeues[j] + 1
      BY DEF Requeue, IInv, TypeOK
    <3>3. MaxAttempts * (requeues[j] + 1) = MaxAttempts * requeues[j] + MaxAttempts
      BY <3>1
    <3>4. job'[j].token = job[j].token /\ job'[j].attempts = 0
      BY <1>3, <1>4 DEF IInv, TypeOK
    <3>5. MaxAttempts * requeues[j] \in Nat
      BY <3>1
    <3>6. QED  BY <1>3, <2>1, <2>2, <2>3, <3>1, <3>2, <3>3, <3>4, <3>5
  <2>4. CASE i # j
    <3>1. requeues'[i] = requeues[i] /\ job'[i] = job[i]
      BY <1>4, <2>4 DEF Requeue, IInv, TypeOK
    <3>2. QED  BY <2>1, <2>2, <3>1
  <2>5. QED  BY <2>3, <2>4
<1>8. ClaimsOK'
  <2>1. \A i \in Jobs : /\ job'[i].token = job[i].token
                        /\ job'[i].owner \in {job[i].owner, None}
    BY <1>3, <1>4 DEF IInv, TypeOK
  <2>2. \A w \in Workers : held'[w] \subseteq held[w]
    BY DEF Requeue
  <2>3. QED  BY <2>1, <2>2, ClaimsKept
<1>9. QED  BY <1>5, <1>6, <1>7, <1>8 DEF IInv

(* The worker's statements but defer_job. *)
LEMMA WorkersKeepIInv ==
    ASSUME IInv, NEW w \in Workers, NEW c \in held[w],
           \/ Complete(w, c) \/ Retry(w, c) \/ DeadLetter(w, c)
           \/ AcknowledgeCancel(w, c) \/ RenewLease(w, c) \/ Checkpoint(w, c)
    PROVE  IInv'
<1> DEFINE j == c.job
           r == job[j]
<1>1. /\ held' \in [Workers -> SUBSET Claims]
      /\ \A v \in Workers : held'[v] \subseteq held[v]
      /\ UNCHANGED <<requeues, defers>>
  BY Forgetting DEF Complete, Retry, DeadLetter, AcknowledgeCancel,
     RenewLease, Checkpoint
<1>2. /\ j \in Jobs /\ c.token \in Nat /\ TokenArg(c) \in Nat
      /\ r \in Row /\ RowOK(r)
  BY HeldClaim, RowUnchangedIsQuiet
<1>3. \/ UNCHANGED job
      \/ \E s : Quiet(r, s) /\ SetRow(j, s)
  <2>1. CASE Complete(w, c)
    BY <1>2, <2>1, WorkerStatements DEF Complete
  <2>2. CASE Retry(w, c)
    BY <1>2, <2>2, WorkerStatements DEF Retry
  <2>3. CASE DeadLetter(w, c)
    BY <1>2, <2>3, WorkerStatements DEF DeadLetter
  <2>4. CASE AcknowledgeCancel(w, c)
    BY <1>2, <2>4, WorkerStatements DEF AcknowledgeCancel
  <2>5. CASE RenewLease(w, c)
    BY <1>2, <2>5, WorkerStatements DEF RenewLease
  <2>6. CASE Checkpoint(w, c)
    BY <1>2, <2>6, WorkerStatements DEF Checkpoint
  <2>7. QED  BY <2>1, <2>2, <2>3, <2>4, <2>5, <2>6
<1>4. QED  BY <1>1, <1>2, <1>3, QuietRow, OnlyForgetting

(* A deferred poll gives back one attempt and is counted. *)
LEMMA DeferKeepsIInv ==
    ASSUME IInv, NEW w \in Workers, NEW c \in held[w], Defer(w, c)
    PROVE  IInv'
<1> DEFINE j == c.job
<1>1. /\ held' \in [Workers -> SUBSET Claims]
      /\ \A v \in Workers : held'[v] \subseteq held[v]
  BY Forgetting DEF Defer
<1>2. j \in Jobs /\ c.token \in Nat /\ job[j] \in Row /\ RowOK(job[j])
  BY HeldClaim, RowUnchangedIsQuiet
<1>3. CASE ~CanDefer(job[j], w, c.token)
  BY <1>1, <1>3, OnlyForgetting DEF Defer
<1>4. CASE CanDefer(job[j], w, c.token)
  <2>1. PICK b \in BOOLEAN : SetRow(j, Deferred(job[j], b))
    BY <1>4 DEF Defer
  <2> DEFINE s == Deferred(job[j], b)
  <2>2. /\ s \in Row /\ RowOK(s) /\ s.token = job[j].token
        /\ s.owner = None /\ s.attempts + 1 >= job[j].attempts
    BY <1>2, <1>4, DeferStatement
  <2>3. job' = [job EXCEPT ![j] = s]
    BY <2>1 DEF SetRow
  <2> HIDE DEF s
  <2>4. /\ defers' = [defers EXCEPT ![j] = @ + 1]
        /\ requeues' = requeues
    BY <1>4 DEF Defer
  <2>5. TypeOK'
    BY <1>1, <1>2, <2>2, <2>3, <2>4 DEF IInv, TypeOK
  <2>6. RowsOK'
    BY <2>2, <2>3 DEF IInv, TypeOK, RowsOK
  <2>7. ClaimsPaidFor'
    <3> SUFFICES ASSUME NEW i \in Jobs
                 PROVE  job'[i].token <= job'[i].attempts
                            + MaxAttempts * requeues'[i] + defers'[i]
      BY DEF ClaimsPaidFor
    <3>1. job[i].token <= job[i].attempts + MaxAttempts * requeues[i]
                              + defers[i]
      BY DEF IInv, ClaimsPaidFor
    <3>2. CASE i = j
      <4>1. /\ job'[j].token = job[j].token
            /\ job'[j].attempts + 1 >= job[j].attempts
            /\ defers'[j] = defers[j] + 1
            /\ requeues'[j] = requeues[j]
        BY <1>2, <2>2, <2>3, <2>4 DEF IInv, TypeOK
      <4>2. /\ job[j].token \in Nat /\ job[j].attempts \in Nat
            /\ job'[j].attempts \in Nat
            /\ defers[j] \in Nat /\ MaxAttempts * requeues[j] \in Nat
        BY <1>2, <2>5, ConstantsOK DEF IInv, TypeOK, Row, Assumptions
      <4>3. QED  BY <3>1, <3>2, <4>1, <4>2
    <3>3. CASE i # j
      BY <3>1, <3>3, <2>3, <2>4 DEF IInv, TypeOK
    <3>4. QED  BY <3>2, <3>3
  <2>8. ClaimsOK'
    <3>1. \A i \in Jobs : /\ job'[i].token = job[i].token
                          /\ job'[i].owner \in {job[i].owner, None}
      BY <2>2, <2>3 DEF IInv, TypeOK
    <3>2. QED  BY <1>1, <3>1, ClaimsKept
  <2>9. QED  BY <2>5, <2>6, <2>7, <2>8 DEF IInv
<1>5. QED  BY <1>3, <1>4

LEMMA ClockKeepsIInv ==
    ASSUME IInv, NEW j \in Jobs,
           LeaseExpires(j) \/ DelayElapses(j) \/ DeadlinePasses(j)
    PROVE  IInv'
<1>1. /\ held' \in [Workers -> SUBSET Claims]
      /\ \A w \in Workers : held'[w] \subseteq held[w]
      /\ UNCHANGED <<requeues, defers>>
  BY HeldUnchanged DEF LeaseExpires, DelayElapses, DeadlinePasses
<1>2. job[j] \in Row /\ RowOK(job[j])
  BY RowUnchangedIsQuiet
<1>3. \E s : Quiet(job[j], s) /\ SetRow(j, s)
  <2> USE <1>2 DEF Quiet, Row, RowOK, AbsentRow, Waiting
  <2>1. CASE LeaseExpires(j)  BY <2>1 DEF LeaseExpires
  <2>2. CASE DelayElapses(j)  BY <2>2 DEF DelayElapses
  <2>3. CASE DeadlinePasses(j)  BY <2>3 DEF DeadlinePasses
  <2>4. QED  BY <2>1, <2>2, <2>3
<1>4. QED  BY <1>1, <1>3, QuietRow

LEMMA CrashKeepsIInv ==
    ASSUME IInv, NEW w \in Workers, Crash(w)
    PROVE  IInv'
<1>1. /\ held' \in [Workers -> SUBSET Claims]
      /\ \A v \in Workers : held'[v] \subseteq held[v]
  BY DEF Crash, IInv, TypeOK
<1>2. QED  BY <1>1, OnlyForgetting DEF Crash

(* A claim sweeps every row and hands out the batch.  Its new tokens are   *)
(* larger than any a worker remembers, and the claiming worker remembers   *)
(* none.                                                                   *)
LEMMA ClaimKeepsIInv ==
    ASSUME IInv, NEW w \in Workers, NEW t \in JobTypes, Claim(w, t)
    PROVE  IInv'
<1>1. PICK S \in SUBSET Jobs : IsBatch(S, t) /\ ClaimBatch(w, S)
  BY DEF Claim
<1>2. held[w] = {}
  BY DEF Claim
<1> DEFINE new == {[job |-> j, token |-> job[j].token + 1] : j \in S}
<1>3. \A j \in Jobs : job[j] \in Row /\ RowOK(job[j])
                      /\ Quiet(job[j], SweptJobs[j])
  BY RowUnchangedIsQuiet, SweepIsQuiet DEF SweptJobs
<1>4. \A j \in Jobs \ S : Quiet(job[j], job'[j])
  BY <1>1, <1>3 DEF ClaimBatch
<1>5. \A j \in S : /\ job'[j] \in Row
                   /\ RowOK(job'[j])
                   /\ job'[j].token = job[j].token + 1
                   /\ job'[j].owner = w
                   /\ job'[j].attempts = job[j].attempts + 1
  <2> TAKE j \in S
  <2>1. Claimable(SweptJobs[j], MaxAttempts)
    BY <1>1 DEF IsBatch, Candidates
  <2>2. job'[j] = Claimed(SweptJobs[j], w)
    BY <1>1 DEF ClaimBatch
  <2>3. /\ SweptJobs[j] \in Row /\ RowOK(SweptJobs[j])
        /\ SweptJobs[j].token = job[j].token
        /\ SweptJobs[j].attempts = job[j].attempts
    BY <1>3 DEF Quiet
  <2>4. QED  BY <2>1, <2>2, <2>3, ClaimStatement
<1>6. /\ held' = [held EXCEPT ![w] = held[w] \cup new]
      /\ UNCHANGED <<requeues, defers>>
  BY <1>1 DEF ClaimBatch
<1>7. job' \in [Jobs -> Row]
  <2>1. DOMAIN job' = Jobs /\ job' = [j \in Jobs |-> job'[j]]
    BY <1>1 DEF ClaimBatch
  <2>2. QED  BY <2>1, <1>4, <1>5 DEF Quiet
<1>8. new \subseteq Claims
  BY <1>3 DEF Claims, Row
<1>9. TypeOK'
  BY <1>6, <1>7, <1>8 DEF IInv, TypeOK
<1>10. RowsOK'
  BY <1>4, <1>5 DEF RowsOK, Quiet
<1>11. ClaimsPaidFor'
  <2> SUFFICES ASSUME NEW j \in Jobs
               PROVE  job'[j].token <= job'[j].attempts
                          + MaxAttempts * requeues'[j] + defers'[j]
    BY DEF ClaimsPaidFor
  <2>1. job[j].token <= job[j].attempts + MaxAttempts * requeues[j] + defers[j]
    BY DEF IInv, ClaimsPaidFor
  <2>2. requeues'[j] = requeues[j] /\ defers'[j] = defers[j]
    BY <1>6
  <2>3. /\ job[j].token \in Nat /\ job[j].attempts \in Nat
        /\ MaxAttempts * requeues[j] \in Nat /\ defers[j] \in Nat
    BY <1>3, ConstantsOK DEF Row, Assumptions, IInv, TypeOK
  <2>4. CASE j \in S
    BY <1>5, <2>1, <2>2, <2>3, <2>4
  <2>5. CASE j \notin S
    BY <1>4, <2>1, <2>2, <2>5 DEF Quiet
  <2>6. QED  BY <2>4, <2>5
<1>12. ClaimsOK'
  <2> SUFFICES ASSUME NEW u \in Workers, NEW c \in held'[u]
               PROVE  /\ c.token \in 1 .. job'[c.job].token
                      /\ job'[c.job].owner = u => c.token = job'[c.job].token
                      /\ \A v \in Workers \ {u} : c \notin held'[v]
    BY DEF ClaimsOK
  <2>1. c.job \in Jobs /\ c.token \in Nat
    BY <1>9 DEF TypeOK, Claims
  <2>2. job[c.job].token \in Nat
    BY <2>1, <1>3 DEF Row
  <2>3. \A v \in Workers \ {w} : held'[v] = held[v]
    BY <1>6 DEF IInv, TypeOK
  <2>4. held'[w] = new
    BY <1>2, <1>6 DEF IInv, TypeOK
  <2>5. \A v \in Workers : \A d \in held[v] :
           /\ d.token \in 1 .. job[d.job].token
           /\ job[d.job].owner = v => d.token = job[d.job].token
           /\ \A x \in Workers \ {v} : d \notin held[x]
    BY DEF IInv, ClaimsOK
  <2>6. \A v \in Workers : \A d \in held[v] : d \notin new
    BY <2>5, <1>3 DEF IInv, TypeOK, Claims, Row
  <2>7. CASE u = w
    <3>1. PICK j \in S : c = [job |-> j, token |-> job[j].token + 1]
      BY <2>4, <2>7
    <3>2. c.token = job'[c.job].token
      BY <1>5, <3>1
    <3>3. c.token \in 1 .. job'[c.job].token
      BY <2>2, <3>1, <3>2
    <3>4. \A v \in Workers \ {u} : c \notin held'[v]
      BY <2>3, <2>4, <2>6, <2>7
    <3>5. QED  BY <3>2, <3>3, <3>4
  <2>8. CASE u # w
    <3>1. c \in held[u] /\ c \notin new
      BY <2>3, <2>6, <2>8
    <3>2. /\ c.token \in 1 .. job[c.job].token
          /\ job[c.job].owner = u => c.token = job[c.job].token
          /\ \A v \in Workers \ {u} : c \notin held[v]
      BY <2>5, <3>1
    <3>3. \A v \in Workers \ {u} : c \notin held'[v]
      BY <2>3, <2>4, <3>1, <3>2
    <3>4. CASE c.job \in S
      BY <1>5, <2>1, <2>2, <2>8, <3>2, <3>3, <3>4
    <3>5. CASE c.job \notin S
      <4>1. /\ job'[c.job].token = job[c.job].token
            /\ job'[c.job].owner \in {job[c.job].owner, None}
        BY <1>4, <2>1, <3>5 DEF Quiet
      <4>2. u # None
        BY ConstantsOK DEF Assumptions
      <4>3. QED  BY <3>2, <3>3, <4>1, <4>2
    <3>6. QED  BY <3>4, <3>5
  <2>9. QED  BY <2>7, <2>8
<1>13. QED  BY <1>9, <1>10, <1>11, <1>12 DEF IInv

----------------------------------------------------------------------------
LEMMA InitIInv == Init => IInv
<1> SUFFICES ASSUME Init PROVE IInv
  OBVIOUS
<1> USE ConstantsOK DEF Assumptions, Init
<1>1. TypeOK  BY DEF TypeOK, AbsentRow, Row, Statuses
<1>2. RowsOK  BY DEF RowsOK, RowOK, AbsentRow, Waiting
<1>3. ClaimsPaidFor  BY DEF ClaimsPaidFor, AbsentRow
<1>4. ClaimsOK  BY DEF ClaimsOK
<1>5. QED  BY <1>1, <1>2, <1>3, <1>4 DEF IInv

LEMMA NextIInv == IInv /\ [Next]_vars => IInv'
<1> SUFFICES ASSUME IInv, [Next]_vars PROVE IInv'
  OBVIOUS
<1>1. ASSUME NEW j \in Jobs,
             \/ Enqueue(j) \/ RequestCancel(j)
             \/ Release(TypeOf[j], AggregateOf[j])
      PROVE  IInv'
  BY <1>1, ProducersKeepIInv
<1>2. ASSUME NEW j \in Jobs, Requeue(j) PROVE IInv'
  BY <1>2, RequeueKeepsIInv
<1>3. ASSUME NEW w \in Workers, NEW t \in JobTypes, Claim(w, t) PROVE IInv'
  BY <1>3, ClaimKeepsIInv
<1>4. ASSUME NEW w \in Workers, NEW c \in held[w], Settle(w, c) \/ Work(w, c)
      PROVE  IInv'
  BY <1>4, WorkersKeepIInv, DeferKeepsIInv DEF Settle, Work
<1>5. ASSUME NEW w \in Workers, Crash(w) PROVE IInv'
  BY <1>5, CrashKeepsIInv
<1>6. ASSUME NEW j \in Jobs,
             LeaseExpires(j) \/ DelayElapses(j) \/ DeadlinePasses(j)
      PROVE  IInv'
  BY <1>6, ClockKeepsIInv
<1>7. CASE UNCHANGED vars
  BY <1>7, OnlyForgetting, HeldUnchanged DEF vars
<1>8. QED  BY <1>1, <1>2, <1>3, <1>4, <1>5, <1>6, <1>7 DEF Next

(* The inductive invariant holds in every reachable state of the ledger.   *)
THEOREM Invariant == Spec => []IInv
<1>1. QED  BY InitIInv, NextIInv, PTL DEF Spec

(* The columns of durable_jobs and the workers' memories keep their types. *)
THEOREM TypeCorrect == Spec => []TypeOK
<1>1. IInv => TypeOK  BY DEF IInv
<1>2. QED  BY <1>1, Invariant, PTL

(* A worker named as lease_owner remembers no older claim of the job, so   *)
(* the statements issued without a fencing token are fenced all the same.  *)
THEOREM OwnerFencing == Spec => []OwnerFence
<1>1. IInv => OwnerFence  BY DEF IInv, ClaimsOK, OwnerFence
<1>2. QED  BY <1>1, Invariant, PTL

(* Two processes never work on the same claim. *)
THEOREM ClaimUniqueness == Spec => []ClaimsAreUnique
<1>1. IInv => ClaimsAreUnique  BY DEF IInv, ClaimsOK, ClaimsAreUnique
<1>2. QED  BY <1>1, Invariant, PTL

(* lease_owner is set exactly while a job runs, which retry_job relies on. *)
THEOREM LeasesOnlyWhileRunning == Spec => []LeaseOnlyWhileRunning
<1>1. IInv => LeaseOnlyWhileRunning
  BY DEF IInv, RowsOK, RowOK, LeaseOnlyWhileRunning
<1>2. QED  BY <1>1, Invariant, PTL

(* A waiting job always has an attempt left for claim_jobs to spend. *)
THEOREM NothingStranded == Spec => []NoStrandedJob
<1>1. IInv => NoStrandedJob
  BY DEF IInv, RowsOK, RowOK, NoStrandedJob
<1>2. QED  BY <1>1, Invariant, PTL

(* max_attempts bounds how often a job is handed out. *)
THEOREM AttemptsAreBudgeted == Spec => []AttemptBudget
<1>1. IInv => AttemptBudget
  <2> SUFFICES ASSUME IInv, NEW j \in Jobs
               PROVE  job[j].token <= MaxAttempts * (requeues[j] + 1) + defers[j]
    BY DEF AttemptBudget
  <2>1. /\ job[j].token <= job[j].attempts + MaxAttempts * requeues[j] + defers[j]
        /\ job[j].attempts <= MaxAttempts
    BY DEF IInv, ClaimsPaidFor, RowsOK, RowOK
  <2>2. /\ job[j].token \in Nat /\ job[j].attempts \in Nat
        /\ requeues[j] \in Nat /\ defers[j] \in Nat /\ MaxAttempts \in Nat
    BY ConstantsOK DEF IInv, TypeOK, Row, Assumptions
  <2>3. MaxAttempts * (requeues[j] + 1) = MaxAttempts * requeues[j] + MaxAttempts
    BY <2>2
  <2>4. MaxAttempts * requeues[j] \in Nat
    BY <2>2
  <2>5. QED  BY <2>1, <2>2, <2>3, <2>4
<1>2. QED  BY <1>1, Invariant, PTL

----------------------------------------------------------------------------
(* DurableJobs implements JobLedger: every transaction moves every job     *)
(* lawfully.                                                               *)
Phases == {"new", "open", "leased", "done", "void"}

Legal(r, s) == Ledger!Lawful(LedgerEntry(r), LedgerEntry(s))

(* The moves of a row, without the claim, as seen in its status. *)
Moves(p, q) ==
    \/ p = q
    \/ p = "absent" /\ q = "pending"
    \/ p \in Waiting /\ q \in {"retry", "dead_letter", "cancelled"}
    \/ p = "running" /\ q \in Terminal \cup {"retry"}
    \/ p \in {"dead_letter", "cancelled"} /\ q = "retry"

LEMMA PhaseOfStatus ==
    /\ LedgerPhase("absent") = "new"
    /\ LedgerPhase("pending") = "open"
    /\ LedgerPhase("retry") = "open"
    /\ LedgerPhase("running") = "leased"
    /\ LedgerPhase("completed") = "done"
    /\ LedgerPhase("dead_letter") = "void"
    /\ LedgerPhase("cancelled") = "void"
BY DEF LedgerPhase, Waiting

LEMMA EntryType ==
    ASSUME NEW r \in Row
    PROVE  LedgerEntry(r) \in Ledger!Entry
<1>1. LedgerPhase(r.status) \in Phases
  BY PhaseOfStatus DEF Row, Statuses, Waiting, Terminal, Phases
<1>2. QED  BY <1>1 DEF LedgerEntry, Ledger!Entry, Row, Phases

(* A status move that keeps the token is lawful. *)
LEMMA MovesAreLegal ==
    ASSUME NEW r \in Row, NEW s \in Row, RowOK(r), RowOK(s),
           s.token = r.token, s.owner \in {r.owner, None},
           Moves(r.status, s.status)
    PROVE  Legal(r, s)
<1> DEFINE e == LedgerEntry(r)
           f == LedgerEntry(s)
<1>1. /\ e = [phase |-> LedgerPhase(r.status), holder |-> r.owner,
              epoch |-> r.token]
      /\ f = [phase |-> LedgerPhase(s.status), holder |-> s.owner,
              epoch |-> r.token]
  BY DEF LedgerEntry
<1>2. s.status # "running" => s.owner = None /\ f = Ledger!Unheld(e, f.phase)
  BY <1>1 DEF RowOK, Ledger!Unheld
<1>3. SUFFICES Ledger!Lawful(e, f)
  BY DEF Legal
<1>4. CASE r.status = s.status
  <2>1. s.owner = r.owner
    BY <1>4, ConstantsOK DEF Assumptions, RowOK, Row
  <2>2. QED  BY <1>1, <1>4, <2>1 DEF Ledger!Lawful
<1>5. CASE r.status = "absent" /\ s.status = "pending"
  BY <1>1, <1>2, <1>5, PhaseOfStatus DEF Ledger!Lawful, Ledger!Submit
<1>6. CASE r.status \in Waiting /\ s.status = "retry"
  <2>1. r.owner = None /\ s.owner = None
    BY <1>6 DEF RowOK, Waiting
  <2>2. e = f
    BY <1>1, <1>6, <2>1, PhaseOfStatus DEF Waiting
  <2>3. QED  BY <2>2 DEF Ledger!Lawful
<1>7. CASE r.status \in Waiting /\ s.status \in {"dead_letter", "cancelled"}
  BY <1>1, <1>2, <1>7, PhaseOfStatus DEF Waiting, Ledger!Lawful, Ledger!Abort
<1>8. CASE r.status = "running" /\ s.status \in Terminal \cup {"retry"}
  <2>1. e.phase = "leased" /\ s.status # "running"
    BY <1>1, <1>8, PhaseOfStatus DEF Terminal
  <2>2. f.phase \in {"done", "void", "open"}
    BY <1>1, <1>8, PhaseOfStatus DEF Terminal
  <2>3. QED
    BY <1>2, <2>1, <2>2
    DEF Ledger!Lawful, Ledger!Finish, Ledger!Abort, Ledger!GiveBack
<1>9. CASE r.status \in {"dead_letter", "cancelled"} /\ s.status = "retry"
  BY <1>1, <1>2, <1>9, PhaseOfStatus DEF Ledger!Lawful, Ledger!Reopen
<1>10. QED  BY <1>4, <1>5, <1>6, <1>7, <1>8, <1>9 DEF Moves

(* The moves of the single statements. *)
LEMMA ProducerMoves ==
    ASSUME NEW r \in Row, RowOK(r), NEW b \in BOOLEAN
    PROVE  /\ Moves(r.status, Enqueued(r, b).status)
           /\ Moves(r.status, CancelRequested(r).status)
           /\ Moves(r.status, Released(r).status)
           /\ CanRequeue(r) => Moves(r.status, Requeued(r, b).status)
<1> USE DEF Moves, Row, Statuses, Waiting, Terminal, Unleased, AbsentRow
<1>1. Moves(r.status, Enqueued(r, b).status)  BY DEF Enqueued
<1>2. Moves(r.status, CancelRequested(r).status)  BY DEF CancelRequested
<1>3. Moves(r.status, Released(r).status)  BY DEF Released
<1>4. CanRequeue(r) => Moves(r.status, Requeued(r, b).status)
  BY DEF CanRequeue, Requeued
<1>5. QED  BY <1>1, <1>2, <1>3, <1>4

LEMMA WorkerMoves ==
    ASSUME NEW r \in Row, RowOK(r), NEW b \in BOOLEAN, NEW t \in Nat,
           NEW w \in Workers
    PROVE  /\ CanComplete(r, w, t) => Moves(r.status, Completed(r).status)
           /\ CanRetry(r, w, t) =>
                  Moves(r.status, Retried(r, MaxAttempts, b).status)
           /\ CanDefer(r, w, t) => Moves(r.status, Deferred(r, b).status)
           /\ CanDeadLetter(r, w, t) =>
                  Moves(r.status, DeadLettered(r).status)
           /\ CanAcknowledgeCancel(r, w, t) =>
                  Moves(r.status, CancelAcknowledged(r).status)
           /\ CanRenew(r, w, t) => Moves(r.status, Renewed(r).status)
           /\ CanCheckpoint(r, w, t) =>
                  Moves(r.status, Checkpointed(r, t).status)
<1> USE DEF Moves, Row, Statuses, Waiting, Terminal, Unleased, HeldBy
<1>1. CanComplete(r, w, t) => Moves(r.status, Completed(r).status)
  BY DEF CanComplete, Completed
<1>2. CanRetry(r, w, t) => Moves(r.status, Retried(r, MaxAttempts, b).status)
  <2>1. CanRetry(r, w, t) => r.status = "running"
    BY ConstantsOK DEF Assumptions, CanRetry, RowOK
  <2>2. ExpiredStatus(r, MaxAttempts) \in {"cancelled", "dead_letter", "retry"}
    BY DEF ExpiredStatus
  <2>3. Retried(r, MaxAttempts, b).status = ExpiredStatus(r, MaxAttempts)
    BY DEF Retried
  <2>4. QED  BY <2>1, <2>2, <2>3
<1>3. CanDefer(r, w, t) => Moves(r.status, Deferred(r, b).status)
  BY DEF CanDefer, Deferred
<1>4. CanDeadLetter(r, w, t) => Moves(r.status, DeadLettered(r).status)
  BY DEF CanDeadLetter, DeadLettered
<1>5. CanAcknowledgeCancel(r, w, t) =>
          Moves(r.status, CancelAcknowledged(r).status)
  BY DEF CanAcknowledgeCancel, CancelAcknowledged
<1>6. CanRenew(r, w, t) => Moves(r.status, Renewed(r).status)
  BY DEF CanRenew, Renewed
<1>7. CanCheckpoint(r, w, t) => Moves(r.status, Checkpointed(r, t).status)
  BY DEF CanCheckpoint, Checkpointed
<1>8. QED  BY <1>1, <1>2, <1>3, <1>4, <1>5, <1>6, <1>7

(* A sweep is at most one of its three statements: the first two leave a   *)
(* row that the third ignores.                                             *)
LEMMA SweepMoves ==
    ASSUME NEW r \in Row, RowOK(r)
    PROVE  LET s == Swept(r, MaxAttempts)
           IN  /\ Moves(r.status, s.status)
               /\ r.status = "running" /\ ~r.expired => s = r
               /\ s.status \in Waiting => r.status \in Waiting \cup {"running"}
<1>1. SweepCancelRequested(r) = r
  BY DEF RowOK, SweepCancelRequested
<1> DEFINE r2 == SweepOverdue(r)
<1>2. Swept(r, MaxAttempts) = SweepExpiredLease(r2, MaxAttempts)
  BY <1>1 DEF Swept
<1>3. CASE r.status \in Waiting /\ r.overdue
  <2>1. r2.status = "dead_letter"
    BY <1>3 DEF SweepOverdue, Unleased, Row
  <2>2. Swept(r, MaxAttempts) = r2
    BY <1>2, <2>1 DEF SweepExpiredLease
  <2>3. QED  BY <1>3, <2>1, <2>2 DEF Moves, Waiting
<1>4. CASE ~(r.status \in Waiting /\ r.overdue)
  <2>1. r2 = r
    BY <1>4 DEF SweepOverdue
  <2>2. CASE r.status = "running" /\ r.expired
    <3>1. Swept(r, MaxAttempts) =
            [Unleased(r, ExpiredStatus(r, MaxAttempts)) EXCEPT !.due = TRUE]
      BY <1>2, <2>1, <2>2 DEF SweepExpiredLease
    <3>2. Swept(r, MaxAttempts).status = ExpiredStatus(r, MaxAttempts)
      BY <3>1 DEF Unleased, Row
    <3>3. ExpiredStatus(r, MaxAttempts) \in {"cancelled", "dead_letter", "retry"}
      BY DEF ExpiredStatus
    <3>4. QED  BY <2>2, <3>2, <3>3 DEF Moves, Terminal, Waiting
  <2>3. CASE ~(r.status = "running" /\ r.expired)
    <3>1. Swept(r, MaxAttempts) = r
      BY <1>2, <2>1, <2>3 DEF SweepExpiredLease
    <3>2. QED  BY <3>1 DEF Moves
  <2>4. QED  BY <2>2, <2>3
<1>5. QED  BY <1>3, <1>4

----------------------------------------------------------------------------
(* From rows to steps. *)
LEMMA RowFacts ==
    ASSUME IInv, IInv', NEW j \in Jobs
    PROVE  job[j] \in Row /\ RowOK(job[j]) /\ job'[j] \in Row /\ RowOK(job'[j])
BY DEF IInv, TypeOK, RowsOK

(* A step that leaves tokens alone and moves every row is lawful. *)
LEMMA MovingStep ==
    ASSUME IInv, IInv',
           \A j \in Jobs : /\ job'[j].token = job[j].token
                          /\ job'[j].owner \in {job[j].owner, None}
                          /\ Moves(job[j].status, job'[j].status)
    PROVE  \A j \in Jobs : Legal(job[j], job'[j])
BY RowFacts, MovesAreLegal

LEMMA MovingRow ==
    ASSUME IInv, IInv', NEW j \in Jobs, NEW s, SetRow(j, s),
           s.token = job[j].token, s.owner \in {job[j].owner, None},
           Moves(job[j].status, s.status)
    PROVE  \A i \in Jobs : Legal(job[i], job'[i])
<1>1. job'[j] = s /\ \A i \in Jobs \ {j} : job'[i] = job[i]
  BY DEF SetRow, IInv, TypeOK
<1>2. \A i \in Jobs : /\ job'[i].token = job[i].token
                      /\ job'[i].owner \in {job[i].owner, None}
                      /\ Moves(job[i].status, job'[i].status)
  BY <1>1 DEF Moves
<1>3. QED  BY <1>2, MovingStep

LEMMA SteadyStep ==
    ASSUME IInv, IInv', UNCHANGED job
    PROVE  \A j \in Jobs : Legal(job[j], job'[j])
BY MovingStep DEF Moves

LEMMA ProducersAreLegal ==
    ASSUME IInv, IInv', NEW j \in Jobs,
           \/ Enqueue(j) \/ RequestCancel(j) \/ Requeue(j)
           \/ Release(TypeOf[j], AggregateOf[j])
    PROVE  \A i \in Jobs : Legal(job[i], job'[i])
<1>1. job[j] \in Row /\ RowOK(job[j])
  BY RowFacts
<1>2. CASE Enqueue(j)
  <2>1. PICK b \in BOOLEAN : SetRow(j, Enqueued(job[j], b))
    BY <1>2 DEF Enqueue
  <2>2. QED  BY <1>1, <2>1, ProducerStatements, ProducerMoves, MovingRow DEF Quiet
<1>3. CASE RequestCancel(j)
  <2>1. Quiet(job[j], CancelRequested(job[j]))
    BY <1>1, ProducerStatements
  <2>2. QED  BY <1>1, <1>3, <2>1, ProducerMoves, MovingRow DEF RequestCancel, Quiet
<1>4. CASE Requeue(j)
  <2>1. PICK b \in BOOLEAN : SetRow(j, Requeued(job[j], b))
    BY <1>4 DEF Requeue
  <2>2. CanRequeue(job[j])
    BY <1>4 DEF Requeue
  <2>3. QED  BY <1>1, <2>1, <2>2, RequeueStatement, ProducerMoves, MovingRow
<1>5. CASE Release(TypeOf[j], AggregateOf[j])
  <2> SUFFICES \A i \in Jobs : /\ job'[i].token = job[i].token
                              /\ job'[i].owner \in {job[i].owner, None}
                              /\ Moves(job[i].status, job'[i].status)
    BY MovingStep
  <2> TAKE i \in Jobs
  <2>1. /\ Quiet(job[i], Released(job[i])) /\ Quiet(job[i], job[i])
        /\ Moves(job[i].status, Released(job[i]).status)
    BY RowFacts, RowUnchangedIsQuiet, ProducerStatements, ProducerMoves
  <2>2. job'[i] \in {Released(job[i]), job[i]}
    BY <1>5 DEF Release
  <2>3. QED  BY <2>1, <2>2 DEF Quiet, Moves
<1>6. QED  BY <1>2, <1>3, <1>4, <1>5

LEMMA WorkersAreLegal ==
    ASSUME IInv, IInv', NEW w \in Workers, NEW c \in held[w],
           Settle(w, c) \/ Work(w, c)
    PROVE  \A i \in Jobs : Legal(job[i], job'[i])
<1> DEFINE j == c.job
           r == job[j]
<1>1. /\ j \in Jobs /\ c.token \in Nat /\ TokenArg(c) \in Nat
      /\ r \in Row /\ RowOK(r)
  BY HeldClaim, RowFacts
<1>2. \/ UNCHANGED job
      \/ \E s : /\ SetRow(j, s) /\ s.token = r.token
               /\ s.owner \in {r.owner, None} /\ Moves(r.status, s.status)
  <2> USE DEF Quiet
  <2>1. CASE Complete(w, c)
    BY <1>1, <2>1, WorkerStatements, WorkerMoves DEF Complete
  <2>2. CASE Retry(w, c)
    BY <1>1, <2>2, WorkerStatements, WorkerMoves DEF Retry
  <2>3. CASE Defer(w, c)
    BY <1>1, <2>3, DeferStatement, WorkerMoves DEF Defer
  <2>4. CASE DeadLetter(w, c)
    BY <1>1, <2>4, WorkerStatements, WorkerMoves DEF DeadLetter
  <2>5. CASE AcknowledgeCancel(w, c)
    BY <1>1, <2>5, WorkerStatements, WorkerMoves DEF AcknowledgeCancel
  <2>6. CASE RenewLease(w, c)
    BY <1>1, <2>6, WorkerStatements, WorkerMoves DEF RenewLease
  <2>7. CASE Checkpoint(w, c)
    BY <1>1, <2>7, WorkerStatements, WorkerMoves DEF Checkpoint
  <2>8. QED
    BY <2>1, <2>2, <2>3, <2>4, <2>5, <2>6, <2>7 DEF Settle, Work
<1>3. QED  BY <1>1, <1>2, MovingRow, SteadyStep

LEMMA ClockIsLegal ==
    ASSUME IInv, IInv', NEW j \in Jobs,
           LeaseExpires(j) \/ DelayElapses(j) \/ DeadlinePasses(j)
    PROVE  \A i \in Jobs : Legal(job[i], job'[i])
<1>1. \E s : /\ SetRow(j, s) /\ s.token = job[j].token
            /\ s.owner = job[j].owner /\ s.status = job[j].status
  BY RowFacts DEF LeaseExpires, DelayElapses, DeadlinePasses, Row
<1>2. QED  BY <1>1, MovingRow DEF Moves

LEMMA ClaimIsLegal ==
    ASSUME IInv, IInv', NEW w \in Workers, NEW t \in JobTypes, Claim(w, t)
    PROVE  \A i \in Jobs : Legal(job[i], job'[i])
<1>1. PICK S \in SUBSET Jobs : IsBatch(S, t) /\ ClaimBatch(w, S)
  BY DEF Claim
<1> TAKE i \in Jobs
<1> DEFINE r == job[i]
           q == Swept(r, MaxAttempts)
<1>2. /\ r \in Row /\ RowOK(r) /\ job'[i] \in Row /\ RowOK(job'[i])
      /\ Quiet(r, q) /\ SweptJobs[i] = q
  BY RowFacts, SweepIsQuiet DEF SweptJobs
<1>3. CASE i \notin S
  <2>1. job'[i] = q
    BY <1>1, <1>2, <1>3 DEF ClaimBatch
  <2>2. QED  BY <1>2, <2>1, SweepMoves, MovesAreLegal DEF Quiet
<1>4. CASE i \in S
  <2>1. job'[i] = Claimed(q, w) /\ Claimable(q, MaxAttempts)
    BY <1>1, <1>2, <1>4 DEF ClaimBatch, IsBatch, Candidates
  <2>2. r.status \in Waiting \cup {"running"}
    BY <1>2, <2>1, SweepMoves DEF Claimable
  <2>3. /\ job'[i].token = r.token + 1 /\ job'[i].owner = w
        /\ job'[i].status = "running"
    <3>1. /\ job'[i].token = r.token + 1 /\ job'[i].owner = w
      BY <1>2, <2>1, ClaimStatement DEF Quiet
    <3>2. job'[i].status = "running"
      BY <1>2, <3>1, ConstantsOK DEF Assumptions, RowOK
    <3>3. QED  BY <3>1, <3>2
  <2>4. /\ LedgerEntry(r).phase \in {"open", "leased"}
        /\ LedgerEntry(r).epoch = r.token
    BY <2>2, PhaseOfStatus DEF LedgerEntry, Waiting
  <2>5. LedgerEntry(job'[i]) =
            [phase |-> "leased", holder |-> w, epoch |-> r.token + 1]
    BY <2>3, PhaseOfStatus DEF LedgerEntry
  <2>6. QED  BY <2>4, <2>5 DEF Legal, Ledger!Lawful, Ledger!Grant
<1>5. QED  BY <1>3, <1>4

LEMMA StepsAreLegal ==
    ASSUME IInv, IInv', [Next]_vars
    PROVE  \A i \in Jobs : Legal(job[i], job'[i])
<1>1. ASSUME NEW j \in Jobs,
             \/ Enqueue(j) \/ RequestCancel(j) \/ Requeue(j)
             \/ Release(TypeOf[j], AggregateOf[j])
      PROVE  \A i \in Jobs : Legal(job[i], job'[i])
  BY <1>1, ProducersAreLegal
<1>2. ASSUME NEW w \in Workers, NEW t \in JobTypes, Claim(w, t)
      PROVE  \A i \in Jobs : Legal(job[i], job'[i])
  BY <1>2, ClaimIsLegal
<1>3. ASSUME NEW w \in Workers, NEW c \in held[w], Settle(w, c) \/ Work(w, c)
      PROVE  \A i \in Jobs : Legal(job[i], job'[i])
  BY <1>3, WorkersAreLegal
<1>4. ASSUME NEW w \in Workers, Crash(w)
      PROVE  \A i \in Jobs : Legal(job[i], job'[i])
  BY <1>4, SteadyStep DEF Crash
<1>5. ASSUME NEW j \in Jobs,
             LeaseExpires(j) \/ DelayElapses(j) \/ DeadlinePasses(j)
      PROVE  \A i \in Jobs : Legal(job[i], job'[i])
  BY <1>5, ClockIsLegal
<1>6. CASE UNCHANGED vars
  BY <1>6, SteadyStep DEF vars
<1>7. QED  BY <1>1, <1>2, <1>3, <1>4, <1>5, <1>6 DEF Next

(* The ledger of app/jobs/repository.py, with its sweeps, batches,         *)
(* crashes and clocks, implements the abstract ledger: leases are numbered *)
(* without gaps, completion is final, and only an operator reopens a job.  *)
THEOREM Refinement == Spec => LedgerSpec
<1>1. Init => Ledger!Init
  <2> SUFFICES ASSUME Init PROVE Ledger!Init
    OBVIOUS
  <2>1. \A j \in Jobs : LedgerEntry(job[j]) = Ledger!NewEntry
    BY PhaseOfStatus DEF Init, AbsentRow, LedgerEntry, Ledger!NewEntry
  <2>2. QED  BY <2>1 DEF Ledger!Init, LedgerView
<1>2. IInv /\ IInv' /\ [Next]_vars => [Ledger!Next]_LedgerView
  <2> SUFFICES ASSUME IInv, IInv', [Next]_vars PROVE Ledger!Next
    OBVIOUS
  <2>1. LedgerView' \in [Jobs -> Ledger!Entry]
    BY RowFacts, EntryType DEF LedgerView
  <2>2. \A j \in Jobs : Ledger!Lawful(LedgerView[j], LedgerView'[j])
    <3> TAKE j \in Jobs
    <3>1. /\ LedgerView[j] = LedgerEntry(job[j])
          /\ LedgerView'[j] = LedgerEntry(job'[j])
      BY DEF LedgerView
    <3>2. QED  BY <3>1, StepsAreLegal DEF Legal
  <2>3. QED  BY <2>1, <2>2 DEF Ledger!Next
<1>3. QED  BY <1>1, <1>2, Invariant, PTL DEF Spec, LedgerSpec, Ledger!Spec

----------------------------------------------------------------------------
(* What LeaseRespected says of one step and one job. *)
LeaseEnds(j) ==
    /\ job[j].status = "running"
    /\ ~job[j].expired
    /\ job'[j].status # "running" \/ job'[j].token # job[j].token

Holder(j) ==
    LET claim == [job |-> j, token |-> job[j].token]
        owner == job[j].owner
    IN  claim \in held[owner] /\ claim \notin held'[owner]

LEMMA OthersLeaveLeases ==
    ASSUME IInv, NEW j \in Jobs, LeaseEnds(j), [Next]_vars
    PROVE  \E w \in Workers : \E c \in held[w] : Settle(w, c)
<1>1. job[j] \in Row /\ RowOK(job[j])
  BY RowUnchangedIsQuiet
<1>2. ASSUME job'[j].status = job[j].status, job'[j].token = job[j].token
      PROVE  FALSE
  BY <1>2 DEF LeaseEnds
<1>3. ASSUME NEW i \in Jobs, NEW s, SetRow(i, s),
             job[i].status = "running" =>
                 s.status = "running" /\ s.token = job[i].token
      PROVE  FALSE
  <2>1. CASE i = j
    <3>1. job'[j] = s
      BY <1>3, <2>1 DEF SetRow, IInv, TypeOK
    <3>2. QED  BY <1>3, <2>1, <3>1 DEF LeaseEnds
  <2>2. CASE i # j
    <3>1. job'[j] = job[j]
      BY <1>3, <2>2 DEF SetRow, IInv, TypeOK
    <3>2. QED  BY <1>2, <3>1
  <2>3. QED  BY <2>1, <2>2
<1>4. ASSUME NEW i \in Jobs,
             \/ Enqueue(i) \/ RequestCancel(i) \/ Requeue(i)
             \/ LeaseExpires(i) \/ DelayElapses(i) \/ DeadlinePasses(i)
      PROVE  FALSE
  <2>1. job[i] \in Row
    BY RowUnchangedIsQuiet
  <2>2. CASE Enqueue(i)
    BY <1>3, <2>2 DEF Enqueue
  <2>3. CASE RequestCancel(i)
    BY <1>3, <2>1, <2>3 DEF RequestCancel, CancelRequested, Row, Waiting, Terminal
  <2>4. CASE Requeue(i)
    BY <1>3, <2>4 DEF Requeue, CanRequeue
  <2>5. CASE LeaseExpires(i) \/ DelayElapses(i) \/ DeadlinePasses(i)
    BY <1>3, <2>1, <2>5 DEF LeaseExpires, DelayElapses, DeadlinePasses, Row
  <2>6. QED  BY <1>4, <2>2, <2>3, <2>4, <2>5
<1>5. ASSUME NEW i \in Jobs, Release(TypeOf[i], AggregateOf[i])
      PROVE  FALSE
  <2>1. Released(job[j]) = job[j]
    BY DEF LeaseEnds, Released, Waiting
  <2>2. job'[j] = job[j]
    BY <1>5, <2>1 DEF Release
  <2>3. QED  BY <1>2, <2>2
<1>6. ASSUME NEW w \in Workers, NEW t \in JobTypes, Claim(w, t)
      PROVE  FALSE
  <2>1. PICK S \in SUBSET Jobs : IsBatch(S, t) /\ ClaimBatch(w, S)
    BY <1>6 DEF Claim
  <2>2. SweptJobs[j] = job[j]
    BY <1>1, SweepMoves DEF LeaseEnds, SweptJobs
  <2>3. j \notin S
    BY <2>1, <2>2 DEF LeaseEnds, IsBatch, Candidates, Claimable, Waiting
  <2>4. job'[j] = job[j]
    BY <2>1, <2>2, <2>3 DEF ClaimBatch
  <2>5. QED  BY <1>2, <2>4
<1>7. ASSUME NEW w \in Workers, NEW c \in held[w], Work(w, c)
      PROVE  FALSE
  <2>1. c.job \in Jobs /\ job[c.job] \in Row
    BY HeldClaim, RowUnchangedIsQuiet
  <2>2. \/ UNCHANGED job
        \/ \E s : /\ SetRow(c.job, s) /\ s.status = job[c.job].status
                 /\ s.token = job[c.job].token
    BY <1>7, <2>1 DEF Work, RenewLease, Checkpoint, Renewed, Checkpointed, Row
  <2>3. QED  BY <1>2, <1>3, <2>1, <2>2
<1>8. ASSUME NEW w \in Workers, Crash(w)
      PROVE  FALSE
  BY <1>2, <1>8 DEF Crash
<1>9. CASE UNCHANGED vars
  BY <1>2, <1>9 DEF vars
<1>10. QED  BY <1>4, <1>5, <1>6, <1>7, <1>8, <1>9 DEF Next

LEMMA HolderSettles ==
    ASSUME IInv, NEW j \in Jobs, LeaseEnds(j),
           NEW w \in Workers, NEW c \in held[w], Settle(w, c)
    PROVE  Holder(j)
<1>1. /\ c.job \in Jobs /\ c \in Claims
      /\ held'[w] = held[w] \ {c}
  BY HeldClaim DEF IInv, TypeOK, Settle, Complete, Retry, Defer, DeadLetter,
     AcknowledgeCancel, Forget
<1>2. c.job = j /\ job[c.job].owner = w
  <2>1. \/ UNCHANGED job
        \/ /\ job[c.job].owner = w
           /\ \E s : SetRow(c.job, s)
    BY DEF Settle, Complete, Retry, Defer, DeadLetter, AcknowledgeCancel,
       CanComplete, CanRetry, CanDefer, CanDeadLetter, CanAcknowledgeCancel,
       HeldBy
  <2>2. ~UNCHANGED job
    BY DEF LeaseEnds
  <2>3. ASSUME c.job # j PROVE FALSE
    <3>1. job'[j] = job[j]
      BY <1>1, <2>1, <2>3 DEF SetRow, IInv, TypeOK
    <3>2. QED  BY <3>1 DEF LeaseEnds
  <2>4. QED  BY <2>1, <2>2, <2>3
<1>3. c.token = job[j].token
  BY <1>2 DEF IInv, ClaimsOK
<1>4. c = [job |-> j, token |-> job[j].token]
  BY <1>1, <1>2, <1>3 DEF Claims
<1>5. QED  BY <1>1, <1>2, <1>4 DEF Holder

(* A lease that has not run out ends only by a statement of its holder:    *)
(* neither a sweep nor a slower worker takes a job away.                   *)
THEOREM LeasesAreRespected == Spec => LeaseRespected
<1>1. IInv /\ [Next]_vars => \A j \in Jobs : LeaseEnds(j) => Holder(j)
  BY OthersLeaveLeases, HolderSettles
<1>2. IInv /\ [Next]_vars =>
        [\A j \in Jobs :
            LET claim == [job |-> j, token |-> job[j].token]
                owner == job[j].owner
            IN  /\ job[j].status = "running"
                /\ ~job[j].expired
                /\ job'[j].status # "running" \/ job'[j].token # job[j].token
                => claim \in held[owner] /\ claim \notin held'[owner]]_vars
  BY <1>1 DEF LeaseEnds, Holder
<1>3. QED  BY <1>2, Invariant, PTL DEF Spec, LeaseRespected

----------------------------------------------------------------------------
(* What a step may do to the payload and to the cancellation of a job.     *)

(* Only the newest claim writes the payload, under its own token: the row  *)
(* never shows a checkpoint from a claim it has not handed out.            *)
CheckpointsOK == \A j \in Jobs : job[j].checkpoint <= job[j].token

(* A statement that turns the row r into s does not lose a cancellation    *)
(* and does not take a checkpoint back.                                    *)
Careful(r, s) ==
    /\ r.status = "running" /\ r.cancel =>
           s.status \in {"running", "cancelled", "dead_letter"}
    /\ s.checkpoint >= r.checkpoint
    /\ s.checkpoint <= s.token

(* A cancellation pending on a running row decides where its lease ends. *)
LEMMA CancelDecides ==
    ASSUME NEW r, r.cancel
    PROVE  ExpiredStatus(r, MaxAttempts) = "cancelled"
BY DEF ExpiredStatus

LEMMA ProducersAreCareful ==
    ASSUME NEW r \in Row, RowOK(r), NEW b \in BOOLEAN,
           r.checkpoint <= r.token
    PROVE  /\ Careful(r, r)
           /\ Careful(r, Enqueued(r, b))
           /\ Careful(r, CancelRequested(r))
           /\ Careful(r, Released(r))
           /\ CanRequeue(r) => Careful(r, Requeued(r, b))
<1>1. Careful(r, r)
  BY DEF Careful, Row
<1>2. Careful(r, Enqueued(r, b))
  <2>1. CASE r.status = "absent"
    <3>1. r = AbsentRow  BY <2>1 DEF RowOK
    <3>2. /\ Enqueued(r, b).checkpoint = 0 /\ Enqueued(r, b).token = 0
      BY <2>1 DEF Enqueued, AbsentRow
    <3>3. QED  BY <2>1, <3>1, <3>2 DEF Careful, AbsentRow
  <2>2. QED  BY <1>1, <2>1 DEF Enqueued
<1>3. Careful(r, CancelRequested(r))
  <2>1. /\ CancelRequested(r).checkpoint = r.checkpoint
        /\ CancelRequested(r).token = r.token
        /\ r.status = "running" => CancelRequested(r).status = "running"
    BY DEF CancelRequested, Unleased, Row, Waiting, Terminal
  <2>2. QED  BY <2>1 DEF Careful, Row
<1>4. Careful(r, Released(r))
  <2>1. /\ Released(r).checkpoint = r.checkpoint
        /\ Released(r).token = r.token
        /\ Released(r).status = r.status
    BY DEF Released, Row
  <2>2. QED  BY <2>1 DEF Careful, Row
<1>5. CanRequeue(r) => Careful(r, Requeued(r, b))
  <2>1. /\ Requeued(r, b).checkpoint = r.checkpoint
        /\ Requeued(r, b).token = r.token
    BY DEF Requeued, Unleased, Row
  <2>2. QED  BY <2>1 DEF Careful, CanRequeue, Row
<1>6. QED  BY <1>1, <1>2, <1>3, <1>4, <1>5

(* The statements of a worker: those that would lose a cancellation ask    *)
(* for cancel_requested_at IS NULL, the others lead to cancelled or        *)
(* dead_letter.                                                            *)
LEMMA WorkersAreCareful ==
    ASSUME NEW r \in Row, RowOK(r), NEW b \in BOOLEAN, NEW t \in Nat,
           NEW w \in Workers, r.checkpoint <= r.token
    PROVE  /\ CanComplete(r, w, t) => Careful(r, Completed(r))
           /\ CanRetry(r, w, t) => Careful(r, Retried(r, MaxAttempts, b))
           /\ CanDefer(r, w, t) => Careful(r, Deferred(r, b))
           /\ CanDeadLetter(r, w, t) => Careful(r, DeadLettered(r))
           /\ CanAcknowledgeCancel(r, w, t) => Careful(r, CancelAcknowledged(r))
           /\ CanRenew(r, w, t) => Careful(r, Renewed(r))
           /\ CanCheckpoint(r, w, t) /\ t = r.token =>
                  Careful(r, Checkpointed(r, t))
<1> USE DEF Row, Unleased, Careful
<1>1. CanComplete(r, w, t) => Careful(r, Completed(r))
  BY DEF CanComplete, Completed
<1>2. CanRetry(r, w, t) => Careful(r, Retried(r, MaxAttempts, b))
  <2> DEFINE s == Retried(r, MaxAttempts, b)
  <2>1. /\ s.checkpoint = r.checkpoint /\ s.token = r.token
        /\ s.status = ExpiredStatus(r, MaxAttempts)
    BY DEF Retried
  <2>2. QED  BY <2>1, CancelDecides DEF Careful
<1>3. CanDefer(r, w, t) => Careful(r, Deferred(r, b))
  <2>1. /\ Deferred(r, b).checkpoint = r.checkpoint
        /\ Deferred(r, b).token = r.token
    BY DEF Deferred
  <2>2. QED  BY <2>1 DEF CanDefer, Careful
<1>4. CanDeadLetter(r, w, t) => Careful(r, DeadLettered(r))
  BY DEF DeadLettered
<1>5. CanAcknowledgeCancel(r, w, t) => Careful(r, CancelAcknowledged(r))
  BY DEF CancelAcknowledged
<1>6. CanRenew(r, w, t) => Careful(r, Renewed(r))
  BY DEF CanRenew, Renewed
<1>7. CanCheckpoint(r, w, t) /\ t = r.token => Careful(r, Checkpointed(r, t))
  BY DEF CanCheckpoint, Checkpointed, Careful
<1>8. QED  BY <1>1, <1>2, <1>3, <1>4, <1>5, <1>6, <1>7

(* A sweep cancels or buries a cancelled row, and claim_jobs never selects *)
(* it afterwards.                                                          *)
LEMMA SweepIsCareful ==
    ASSUME NEW r \in Row, RowOK(r), r.checkpoint <= r.token
    PROVE  LET s == Swept(r, MaxAttempts)
           IN  /\ Careful(r, s)
               /\ s.checkpoint = r.checkpoint
               /\ r.status = "running" /\ r.cancel => s.status \notin Waiting
<1> DEFINE s == Swept(r, MaxAttempts)
<1>1. SweepCancelRequested(r) = r
  BY DEF RowOK, SweepCancelRequested
<1>2. CASE r.status = "running"
  <2>1. SweepOverdue(r) = r
    BY <1>2 DEF SweepOverdue, Waiting
  <2>2. s = IF r.expired
            THEN [Unleased(r, ExpiredStatus(r, MaxAttempts)) EXCEPT !.due = TRUE]
            ELSE r
    BY <1>1, <1>2, <2>1 DEF Swept, SweepExpiredLease
  <2>3. /\ s.checkpoint = r.checkpoint /\ s.token = r.token
        /\ s.status \in {r.status, ExpiredStatus(r, MaxAttempts)}
    BY <2>2 DEF Unleased, Row
  <2>4. QED  BY <1>2, <2>3, CancelDecides DEF Careful, Row, Waiting
<1>3. CASE r.status # "running"
  <2>1. SweepOverdue(r) \in {r, Unleased(r, "dead_letter")}
    BY DEF SweepOverdue
  <2>2. SweepOverdue(r).status # "running"
    BY <1>3, <2>1 DEF Unleased, Row
  <2>3. s = SweepOverdue(r)
    BY <1>1, <2>2 DEF Swept, SweepExpiredLease
  <2>4. s.checkpoint = r.checkpoint /\ s.token = r.token
    BY <2>1, <2>3 DEF Unleased, Row
  <2>5. QED  BY <1>3, <2>4 DEF Careful, Row
<1>4. QED  BY <1>2, <1>3

(* From rows to steps. *)
LEMMA CarefulRow ==
    ASSUME IInv, CheckpointsOK, NEW j \in Jobs, NEW s, SetRow(j, s),
           Careful(job[j], s)
    PROVE  \A i \in Jobs : Careful(job[i], job'[i])
<1>1. job'[j] = s /\ \A i \in Jobs \ {j} : job'[i] = job[i]
  BY DEF SetRow, IInv, TypeOK
<1>2. \A i \in Jobs : Careful(job[i], job[i])
  BY RowUnchangedIsQuiet, ProducersAreCareful DEF CheckpointsOK
<1>3. QED  BY <1>1, <1>2

LEMMA SteadyIsCareful ==
    ASSUME IInv, CheckpointsOK, UNCHANGED job
    PROVE  \A i \in Jobs : Careful(job[i], job'[i])
BY RowUnchangedIsQuiet, ProducersAreCareful DEF CheckpointsOK

LEMMA ClaimIsCareful ==
    ASSUME IInv, CheckpointsOK, NEW w \in Workers, NEW t \in JobTypes,
           Claim(w, t)
    PROVE  \A i \in Jobs : Careful(job[i], job'[i])
<1>1. PICK S \in SUBSET Jobs : IsBatch(S, t) /\ ClaimBatch(w, S)
  BY DEF Claim
<1> TAKE i \in Jobs
<1> DEFINE q == SweptJobs[i]
<1>2. /\ job[i] \in Row /\ RowOK(job[i]) /\ job[i].checkpoint <= job[i].token
      /\ q = Swept(job[i], MaxAttempts)
  BY RowUnchangedIsQuiet DEF CheckpointsOK, SweptJobs
<1>3. /\ Careful(job[i], q) /\ q \in Row /\ RowOK(q)
      /\ q.checkpoint = job[i].checkpoint /\ q.token = job[i].token
      /\ job[i].status = "running" /\ job[i].cancel => q.status \notin Waiting
  BY <1>2, SweepIsCareful, SweepIsQuiet DEF Quiet
<1> HIDE DEF q
<1>4. CASE i \notin S
  BY <1>1, <1>3, <1>4 DEF ClaimBatch, q
<1>5. CASE i \in S
  <2>1. job'[i] = Claimed(q, w) /\ Claimable(q, MaxAttempts)
    BY <1>1, <1>5 DEF ClaimBatch, IsBatch, Candidates, q
  <2>2. job'[i].token = q.token + 1
    BY <1>3, <2>1, ClaimStatement
  <2>3. job'[i].checkpoint = q.checkpoint
    BY <1>3, <2>1 DEF Claimed, Leased, Row
  <2>4. ~(job[i].status = "running" /\ job[i].cancel)
    BY <1>3, <2>1 DEF Claimable
  <2>5. QED  BY <1>2, <1>3, <2>2, <2>3, <2>4 DEF Careful, Row
<1>6. QED  BY <1>4, <1>5

LEMMA ProducerStepsAreCareful ==
    ASSUME IInv, CheckpointsOK, NEW j \in Jobs,
           \/ Enqueue(j) \/ RequestCancel(j) \/ Requeue(j)
           \/ Release(TypeOf[j], AggregateOf[j])
           \/ LeaseExpires(j) \/ DelayElapses(j) \/ DeadlinePasses(j)
    PROVE  \A i \in Jobs : Careful(job[i], job'[i])
<1>1. \A i \in Jobs : job[i] \in Row /\ RowOK(job[i])
                      /\ job[i].checkpoint <= job[i].token
  BY RowUnchangedIsQuiet DEF CheckpointsOK
<1>2. CASE Enqueue(j)
  BY <1>1, <1>2, ProducersAreCareful, CarefulRow DEF Enqueue
<1>3. CASE RequestCancel(j)
  <2>1. Careful(job[j], CancelRequested(job[j]))
    BY <1>1, ProducersAreCareful
  <2>2. QED  BY <1>3, <2>1, CarefulRow DEF RequestCancel
<1>4. CASE Requeue(j)
  BY <1>1, <1>4, ProducersAreCareful, CarefulRow DEF Requeue
<1>5. CASE Release(TypeOf[j], AggregateOf[j])
  <2> TAKE i \in Jobs
  <2>1. Careful(job[i], Released(job[i])) /\ Careful(job[i], job[i])
    BY <1>1, ProducersAreCareful
  <2>2. job'[i] \in {Released(job[i]), job[i]}
    BY <1>5 DEF Release
  <2>3. QED  BY <2>1, <2>2
<1>6. CASE LeaseExpires(j) \/ DelayElapses(j) \/ DeadlinePasses(j)
  <2>1. \E s : /\ SetRow(j, s) /\ s.status = job[j].status
               /\ s.token = job[j].token /\ s.checkpoint = job[j].checkpoint
    BY <1>1, <1>6 DEF LeaseExpires, DelayElapses, DeadlinePasses, Row
  <2>2. ASSUME NEW s, s.status = job[j].status, s.token = job[j].token,
               s.checkpoint = job[j].checkpoint
        PROVE  Careful(job[j], s)
    BY <1>1, <2>2 DEF Careful, Row
  <2>3. QED  BY <2>1, <2>2, CarefulRow
<1>7. QED  BY <1>2, <1>3, <1>4, <1>5, <1>6

(* A worker that may write the row holds its newest claim, so the token it *)
(* leaves in the payload is the row's.                                     *)
LEMMA WorkerStepsAreCareful ==
    ASSUME IInv, CheckpointsOK, NEW w \in Workers, NEW c \in held[w],
           Settle(w, c) \/ Work(w, c)
    PROVE  \A i \in Jobs : Careful(job[i], job'[i])
<1> DEFINE j == c.job
           r == job[j]
<1>1. /\ j \in Jobs /\ c.token \in Nat /\ TokenArg(c) \in Nat
      /\ r \in Row /\ RowOK(r) /\ r.checkpoint <= r.token
  BY HeldClaim, RowUnchangedIsQuiet DEF CheckpointsOK
<1>2. r.owner = w => c.token = r.token
  BY DEF IInv, ClaimsOK
<1>3. \/ UNCHANGED job
      \/ \E s : SetRow(j, s) /\ Careful(r, s)
  <2>1. CASE Complete(w, c)
    BY <1>1, <2>1, WorkersAreCareful DEF Complete
  <2>2. CASE Retry(w, c)
    BY <1>1, <2>2, WorkersAreCareful DEF Retry
  <2>3. CASE Defer(w, c)
    BY <1>1, <2>3, WorkersAreCareful DEF Defer
  <2>4. CASE DeadLetter(w, c)
    BY <1>1, <2>4, WorkersAreCareful DEF DeadLetter
  <2>5. CASE AcknowledgeCancel(w, c)
    BY <1>1, <2>5, WorkersAreCareful DEF AcknowledgeCancel
  <2>6. CASE RenewLease(w, c)
    BY <1>1, <2>6, WorkersAreCareful DEF RenewLease
  <2>7. CASE Checkpoint(w, c)
    <3>1. CanCheckpoint(r, w, c.token) => c.token = r.token
      BY <1>2 DEF CanCheckpoint, HeldBy
    <3>2. QED  BY <1>1, <2>7, <3>1, WorkersAreCareful DEF Checkpoint
  <2>8. QED
    BY <2>1, <2>2, <2>3, <2>4, <2>5, <2>6, <2>7 DEF Settle, Work
<1>4. QED  BY <1>1, <1>3, CarefulRow, SteadyIsCareful

LEMMA StepsAreCareful ==
    ASSUME IInv, CheckpointsOK, [Next]_vars
    PROVE  \A j \in Jobs : Careful(job[j], job'[j])
<1>1. ASSUME NEW w \in Workers, Crash(w)
      PROVE  \A j \in Jobs : Careful(job[j], job'[j])
  BY <1>1, SteadyIsCareful DEF Crash
<1>2. CASE UNCHANGED vars
  BY <1>2, SteadyIsCareful DEF vars
<1>3. QED
  BY <1>1, <1>2, ProducerStepsAreCareful, ClaimIsCareful,
     WorkerStepsAreCareful DEF Next

LEMMA CheckpointsInvariant == Spec => []CheckpointsOK
<1>1. Init => CheckpointsOK
  BY DEF Init, CheckpointsOK, AbsentRow
<1>2. IInv /\ CheckpointsOK /\ [Next]_vars => CheckpointsOK'
  BY StepsAreCareful DEF Careful, CheckpointsOK
<1>3. QED  BY <1>1, <1>2, Invariant, PTL DEF Spec

(* A cancelled job is never completed nor handed out again: complete_job   *)
(* and defer_job ask for cancel_requested_at IS NULL, retry_job and the    *)
(* sweep of claim_jobs end such a row.                                     *)
THEOREM CancelAlwaysHonoured == Spec => CancelIsHonoured
<1>1. IInv /\ CheckpointsOK /\ [Next]_vars =>
        [\A j \in Jobs :
            job[j].status = "running" /\ job[j].cancel =>
                job'[j].status \in {"running", "cancelled", "dead_letter"}]_vars
  BY StepsAreCareful DEF Careful
<1>2. QED
  BY <1>1, Invariant, CheckpointsInvariant, PTL DEF Spec, CancelIsHonoured

(* checkpoint_payload, update_progress and set_provider_operation of a     *)
(* worker that lost its lease never overwrite what a newer claim wrote.    *)
THEOREM CheckpointsOnlyForward == Spec => CheckpointsMoveForward
<1>1. IInv /\ CheckpointsOK /\ [Next]_vars =>
        [\A j \in Jobs : job'[j].checkpoint >= job[j].checkpoint]_vars
  BY StepsAreCareful DEF Careful
<1>2. QED
  BY <1>1, Invariant, CheckpointsInvariant, PTL
  DEF Spec, CheckpointsMoveForward
=============================================================================
