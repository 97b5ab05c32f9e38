-------------------------- MODULE Accelerator_proofs --------------------------
(***************************************************************************)
(* Who owns the GPU, for any requests, lanes and faults: the two tables    *)
(* agree, and a handler that works owns what it works on.                  *)
(***************************************************************************)
EXTENDS Accelerator, TLAPS

(* The thread of a request that is not asking has nothing to report, and a *)
(* request that has not arrived has no row.                                *)
ThreadOK(r) ==
    /\ req[r].pc \in {"new", "entering", "waiting", "held"} => thread[r] = Idle
    /\ thread[r].at = "running" => thread[r].lease = 0
    /\ req[r].pc = "new" => waiter[r].status = "absent"

(* The lease that a thread brings back belongs to its request, unless it   *)
(* was swept in the meantime; so does the one a handler works under.       *)
Owns(r, lease) ==
    (gpu.owner = r /\ gpu.token = lease) \/ waiter[r].status = "expired"

GrantOK(r) ==
    /\ req[r].pc = "asking" /\ thread[r].lease # 0 => Owns(r, thread[r].lease)
    /\ req[r].pc = "held" => Owns(r, req[r].lease)

IInv ==
    /\ TypeOK
    /\ TablesAgree
    /\ \A r \in Requests : ThreadOK(r) /\ GrantOK(r)

----------------------------------------------------------------------------
(* The rows after the sweep of a statement.                                *)

LEMMA SweepTypes ==
    ASSUME TypeOK
    PROVE  /\ SweptGpu \in [owner: Requests \cup {NoOne}, token: Nat,
                            fresh: BOOLEAN]
           /\ Swept \in [Requests -> [status: Status, overdue: BOOLEAN]]
           /\ SweptGpu.token = gpu.token
           /\ \A r \in Requests : Swept[r].status = SweptStatus(r)
<1>1. SweptGpu \in [owner: Requests \cup {NoOne}, token: Nat, fresh: BOOLEAN]
      /\ SweptGpu.token = gpu.token
  BY DEF TypeOK, SweptGpu
<1>2. \A r \in Requests : SweptStatus(r) \in Status
  BY DEF TypeOK, SweptStatus, Status
<1>3. \A r \in Requests : waiter[r] \in [status: Status, overdue: BOOLEAN]
  BY DEF TypeOK
<1>4. Swept \in [Requests -> [status: Status, overdue: BOOLEAN]]
      /\ \A r \in Requests : Swept[r].status = SweptStatus(r)
  BY <1>2, <1>3 DEF Swept
<1> QED BY <1>1, <1>4

(* The sweep frees the GPU together with the waiter that owned it, and     *)
(* touches no other waiter that was granted.                               *)
LEMMA SweepAgrees ==
    ASSUME TypeOK, TablesAgree
    PROVE  /\ \A r \in Requests :
                  SweptStatus(r) = "acquired" <=> SweptGpu.owner = r
           /\ \A r \in Requests :
                  gpu.owner = r => SweptGpu.owner = r \/ SweptStatus(r) = "expired"
           /\ \A r \in Requests :
                  waiter[r].status \in {"expired", "absent"}
                  => SweptStatus(r) = waiter[r].status
           /\ SweptGpu.owner \in {gpu.owner, NoOne}
<1>1. NoOne \notin Requests
  BY OwnerAssumption DEF OwnerAssumption
<1>2. gpu \in [owner: Requests \cup {NoOne}, token: Nat, fresh: BOOLEAN]
  BY DEF TypeOK
<1>3. CASE LeaseRanOut
  BY <1>1, <1>2, <1>3 DEF TablesAgree, SweptGpu, SweptStatus, LeaseRanOut
<1>4. CASE ~LeaseRanOut
  BY <1>1, <1>2, <1>4 DEF TablesAgree, SweptGpu, SweptStatus
<1> QED BY <1>3, <1>4

----------------------------------------------------------------------------
LEMMA InitOK ==
    ASSUME Init
    PROVE  IInv
BY OwnerAssumption DEF Init, IInv, TypeOK, TablesAgree, ThreadOK, GrantOK, Owns,
                       OwnerAssumption, Status, Pc, Idle

(* A sweep by itself, as in /ready.                                        *)
LEMMA ReadyOK ==
    ASSUME IInv, Ready
    PROVE  IInv'
<1>1. TypeOK /\ TablesAgree
  BY DEF IInv
<1>2. TypeOK'
  BY <1>1, SweepTypes DEF TypeOK, Ready
<1>3. TablesAgree'
  BY <1>1, SweepTypes, SweepAgrees DEF TablesAgree, Ready
<1>4. ASSUME NEW r \in Requests
      PROVE  ThreadOK(r)' /\ GrantOK(r)'
  BY <1>1, SweepTypes, SweepAgrees DEF IInv, ThreadOK, GrantOK, Owns, Ready, Idle
<1> QED BY <1>2, <1>3, <1>4 DEF IInv

Coroutine == [pc: Pc, lease: Nat, lost: BOOLEAN, calls: Nat]

LEMMA GotoTypes ==
    ASSUME TypeOK, NEW q \in Requests, NEW pc \in Pc
    PROVE  /\ [req EXCEPT ![q].pc = pc] \in [Requests -> Coroutine]
           /\ [req EXCEPT ![q].pc = pc][q].pc = pc
           /\ [req EXCEPT ![q].pc = pc][q].lease = req[q].lease
           /\ \A r \in Requests \ {q} : [req EXCEPT ![q].pc = pc][r] = req[r]
<1>1. req \in [Requests -> Coroutine]
  BY DEF TypeOK, Coroutine
<1>2. [req[q] EXCEPT !.pc = pc] \in Coroutine
  BY <1>1 DEF Coroutine
<1>3. [req EXCEPT ![q].pc = pc] = [req EXCEPT ![q] = [req[q] EXCEPT !.pc = pc]]
  BY <1>1
<1>4. [req[q] EXCEPT !.pc = pc].pc = pc
      /\ [req[q] EXCEPT !.pc = pc].lease = req[q].lease
  BY <1>1 DEF Coroutine
<1> QED BY <1>1, <1>2, <1>3, <1>4

LEMMA SetStatusTypes ==
    ASSUME TypeOK, NEW q \in Requests, NEW s \in Status
    PROVE  /\ [waiter EXCEPT ![q].status = s] \in
                  [Requests -> [status: Status, overdue: BOOLEAN]]
           /\ [waiter EXCEPT ![q].status = s][q].status = s
           /\ \A r \in Requests \ {q} :
                  [waiter EXCEPT ![q].status = s][r] = waiter[r]
<1>1. waiter \in [Requests -> [status: Status, overdue: BOOLEAN]]
  BY DEF TypeOK
<1>2. [waiter[q] EXCEPT !.status = s] \in [status: Status, overdue: BOOLEAN]
      /\ [waiter[q] EXCEPT !.status = s].status = s
  BY <1>1
<1>3. [waiter EXCEPT ![q].status = s] =
          [waiter EXCEPT ![q] = [waiter[q] EXCEPT !.status = s]]
  BY <1>1
<1> QED BY <1>1, <1>2, <1>3

LEMMA EnqueueOK ==
    ASSUME IInv, NEW q \in Requests, Enqueue(q)
    PROVE  IInv'
<1>1. TypeOK /\ TablesAgree /\ ThreadOK(q)
  BY DEF IInv
<1>2. /\ Swept \in [Requests -> [status: Status, overdue: BOOLEAN]]
      /\ waiter' = [Swept EXCEPT ![q].status = "queued"]
      /\ gpu' = SweptGpu
  BY <1>1, SweepTypes DEF Enqueue
<1>3. /\ waiter'[q].status = "queued"
      /\ \A r \in Requests \ {q} : waiter'[r].status = SweptStatus(r)
  BY <1>1, <1>2, SweepTypes
<1>4. /\ req[q].pc = "new" /\ waiter[q].status = "absent"
      /\ SweptGpu.owner # q
  BY <1>1, SweepAgrees DEF Enqueue, ThreadOK, TypeOK, TablesAgree
<1>5. TypeOK'
  <2>1. waiter' \in [Requests -> [status: Status, overdue: BOOLEAN]]
    BY <1>2 DEF Status
  <2>2. req' \in [Requests -> [pc: Pc, lease: Nat, lost: BOOLEAN, calls: Nat]]
    <3>1. "entering" \in Pc /\ req' = [req EXCEPT ![q].pc = "entering"]
      BY DEF Pc, Enqueue, Goto
    <3> QED BY <1>1, <3>1, GotoTypes DEF Coroutine
  <2>3. line' \in Seq(Requests)
    <3>1. line \in Seq(Requests) /\ line' = Append(line, q)
      BY <1>1 DEF TypeOK, Enqueue
    <3> QED BY <3>1
  <2>4. UNCHANGED <<thread, busy, faults>>
    BY DEF Enqueue
  <2> QED BY <1>1, <1>2, <2>1, <2>2, <2>3, <2>4, SweepTypes DEF TypeOK
<1>6. TablesAgree'
  BY <1>1, <1>2, <1>3, <1>4, SweepAgrees DEF TablesAgree
<1>7. ASSUME NEW r \in Requests
      PROVE  ThreadOK(r)' /\ GrantOK(r)'
  <2>1. ThreadOK(r) /\ GrantOK(r)
    BY DEF IInv
  <2>2. CASE r = q
    BY <1>1, <1>4, <2>1, <2>2 DEF ThreadOK, GrantOK, Enqueue, Goto, TypeOK, Idle
  <2>3. CASE r # q
    <3>1. req'[r] = req[r] /\ thread' = thread
      BY <1>1, <2>3 DEF Enqueue, Goto, TypeOK
    <3> QED BY <1>1, <1>2, <1>3, <2>1, <2>3, <3>1, SweepTypes, SweepAgrees
            DEF ThreadOK, GrantOK, Owns
  <2> QED BY <2>2, <2>3
<1> QED BY <1>5, <1>6, <1>7 DEF IInv

LEMMA TryAcquireOK ==
    ASSUME IInv, NEW q \in Requests, TryAcquire(q)
    PROVE  IInv'
<1>1. TypeOK /\ TablesAgree /\ ThreadOK(q)
  BY DEF IInv
<1>2. CASE ~Grantable(q)
  <2>1. /\ gpu' = SweptGpu /\ waiter' = Swept
        /\ thread' = [thread EXCEPT ![q].at = "ended"]
        /\ UNCHANGED <<line, req, busy, faults>>
    BY <1>2 DEF TryAcquire
  <2>2. thread' \in [Requests -> [at: {"idle", "running", "ended"}, lease: Nat]]
    BY <1>1, <2>1 DEF TypeOK
  <2>3. TypeOK'
    BY <1>1, <2>1, <2>2, SweepTypes DEF TypeOK
  <2>4. TablesAgree'
    BY <1>1, <2>1, SweepTypes, SweepAgrees DEF TablesAgree
  <2>5. thread[q].at = "running" /\ thread'[q].at = "ended"
        /\ thread'[q].lease = 0
    BY <1>1, <2>1 DEF TryAcquire, ThreadOK, TypeOK
  <2>6. ASSUME NEW r \in Requests
        PROVE  ThreadOK(r)' /\ GrantOK(r)'
    <3>1. ThreadOK(r) /\ GrantOK(r)
      BY DEF IInv
    <3>2. r # q => thread'[r] = thread[r]
      BY <1>1, <2>1 DEF TypeOK
    <3> QED BY <1>1, <2>1, <2>5, <3>1, <3>2, SweepTypes, SweepAgrees
            DEF ThreadOK, GrantOK, Owns, Idle
  <2> QED BY <2>3, <2>4, <2>6 DEF IInv
<1>3. CASE Grantable(q)
  <2>1. /\ gpu' = [owner |-> q, token |-> gpu.token + 1, fresh |-> TRUE]
        /\ waiter' = [Swept EXCEPT ![q].status = "acquired"]
        /\ thread' = [thread EXCEPT
                        ![q] = [at |-> "ended", lease |-> gpu.token + 1]]
        /\ UNCHANGED <<line, req, busy, faults>>
    BY <1>3 DEF TryAcquire
  <2>2. SweptGpu.owner = NoOne /\ SweptStatus(q) = "queued"
    BY <1>3 DEF Grantable, FirstInLine, InLine
  <2>3. /\ waiter'[q].status = "acquired"
        /\ \A r \in Requests \ {q} : waiter'[r].status = SweptStatus(r)
    BY <1>1, <2>1, SweepTypes
  <2>4. TypeOK'
    <3>1. gpu' \in [owner: Requests \cup {NoOne}, token: Nat, fresh: BOOLEAN]
      BY <1>1, <2>1 DEF TypeOK
    <3>2. waiter' \in [Requests -> [status: Status, overdue: BOOLEAN]]
      BY <1>1, <2>1, SweepTypes DEF Status
    <3>3. thread' \in [Requests -> [at: {"idle", "running", "ended"}, lease: Nat]]
      BY <1>1, <2>1 DEF TypeOK
    <3> QED BY <1>1, <2>1, <3>1, <3>2, <3>3 DEF TypeOK
  <2>5. \A r \in Requests : SweptStatus(r) # "acquired"
    BY <1>1, <2>2, SweepAgrees, OwnerAssumption DEF OwnerAssumption
  <2>6. TablesAgree'
    BY <2>1, <2>3, <2>5 DEF TablesAgree
  <2>7. thread[q].at = "running"
    BY DEF TryAcquire
  <2>8. ASSUME NEW r \in Requests
        PROVE  ThreadOK(r)' /\ GrantOK(r)'
    <3>1. ThreadOK(r) /\ GrantOK(r)
      BY DEF IInv
    <3>2. CASE r = q
      <4>1. thread'[q] = [at |-> "ended", lease |-> gpu.token + 1]
        BY <1>1, <2>1 DEF TypeOK
      <4>2. req[q].pc \notin {"new", "entering", "waiting", "held"}
        BY <2>7, <3>1, <3>2 DEF ThreadOK, Idle
      <4> QED BY <2>1, <3>2, <4>1, <4>2 DEF ThreadOK, GrantOK, Owns
    <3>3. CASE r # q
      <4>1. thread'[r] = thread[r] /\ req'[r] = req[r]
        BY <1>1, <2>1, <3>3 DEF TypeOK
      <4>2. gpu.owner = r \/ waiter[r].status = "expired"
            => waiter'[r].status = "expired"
        BY <1>1, <2>2, <2>3, <3>3, SweepAgrees, OwnerAssumption
           DEF OwnerAssumption
      <4>3. waiter[r].status = "absent" => waiter'[r].status = "absent"
        BY <1>1, <2>3, <3>3, SweepAgrees
      <4> QED BY <3>1, <4>1, <4>2, <4>3 DEF ThreadOK, GrantOK, Owns
    <3> QED BY <3>2, <3>3
  <2> QED BY <2>4, <2>6, <2>8 DEF IInv
<1> QED BY <1>2, <1>3

----------------------------------------------------------------------------
(* Steps that grant, free and settle nothing.  What a request is granted   *)
(* may only pass from its thread to its handler.                           *)
Quiet ==
    /\ gpu'.owner = gpu.owner /\ gpu'.token = gpu.token
    /\ \A r \in Requests : waiter'[r].status = waiter[r].status

Tame(r) ==
    /\ req'[r].pc = "new" => req[r].pc = "new"
    /\ \/ /\ req'[r].pc = "held" /\ req[r].pc = "held"
          /\ req'[r].lease = req[r].lease /\ thread'[r] = thread[r]
       \/ /\ req'[r].pc = "asking"
          /\ thread'[r].lease # 0 =>
                 req[r].pc = "asking" /\ thread'[r] = thread[r]
          /\ thread'[r].at = "running" => thread'[r].lease = 0
       \/ /\ req'[r].pc \notin {"held", "asking"}
          /\ req'[r].pc \in {"new", "entering", "waiting"} => thread'[r] = Idle
          /\ thread'[r] \in {thread[r], Idle}
       \/ /\ req'[r].pc = "held" /\ req[r].pc = "asking" /\ thread'[r] = Idle
          /\ thread[r].lease # 0 /\ req'[r].lease = thread[r].lease

LEMMA QuietOK ==
    ASSUME IInv, TypeOK', Quiet, \A r \in Requests : Tame(r)
    PROVE  IInv'
<1>1. TablesAgree'
  BY DEF IInv, TablesAgree, Quiet
<1>2. ASSUME NEW r \in Requests
      PROVE  ThreadOK(r)' /\ GrantOK(r)'
  <2>1. ThreadOK(r) /\ GrantOK(r) /\ Tame(r)
    BY DEF IInv
  <2>2. ThreadOK(r)'
    BY <2>1 DEF ThreadOK, Tame, Idle, Quiet
  <2>3. GrantOK(r)'
    BY <2>1 DEF GrantOK, Owns, Tame, Idle, Quiet
  <2> QED BY <2>2, <2>3
<1> QED BY <1>1, <1>2 DEF IInv

(* The coroutine of q moves on, within the pc values that need no grant.   *)
LEMMA MoveOK ==
    ASSUME IInv, NEW q \in Requests, Quiet, TypeOK', UNCHANGED thread,
           \A r \in Requests \ {q} : req'[r] = req[r],
           \/ req'[q].pc \in {"leaving", "done"}
           \/ /\ req'[q].pc = req[q].pc
              /\ req'[q].lease = req[q].lease
           \/ req[q].pc = "entering" /\ req'[q].pc = "waiting"
    PROVE  IInv'
<1>1. ASSUME NEW r \in Requests
      PROVE  Tame(r)
  <2>1. ThreadOK(r)
    BY DEF IInv
  <2>2. CASE r # q
    BY <2>1, <2>2 DEF Tame, ThreadOK
  <2>3. CASE r = q
    BY <2>1, <2>3 DEF Tame, ThreadOK
  <2> QED BY <2>2, <2>3
<1> QED BY <1>1, QuietOK

LEMMA LeavesOK ==
    ASSUME IInv, NEW q \in Requests, NEW pc \in {"leaving", "done"},
           Goto(q, pc), UNCHANGED <<gpu, waiter, line, thread>>,
           busy' \in SUBSET Requests, faults' \in Nat
    PROVE  IInv'
<1>1. TypeOK /\ pc \in Pc /\ req' = [req EXCEPT ![q].pc = pc]
  BY DEF IInv, Pc, Goto
<1>2. /\ req' \in [Requests -> Coroutine]
      /\ req'[q].pc = pc
      /\ \A r \in Requests \ {q} : req'[r] = req[r]
  BY <1>1, GotoTypes
<1>3. TypeOK'
  BY <1>1, <1>2 DEF TypeOK, Coroutine
<1> QED BY <1>2, <1>3, MoveOK DEF Quiet

LEMMA EnteredOK ==
    ASSUME IInv, NEW q \in Requests, Entered(q)
    PROVE  IInv'
<1>1. TypeOK /\ "waiting" \in Pc /\ req' = [req EXCEPT ![q].pc = "waiting"]
  BY DEF IInv, Pc, Entered, Goto
<1>2. /\ req' \in [Requests -> Coroutine]
      /\ req'[q].pc = "waiting"
      /\ \A r \in Requests \ {q} : req'[r] = req[r]
  BY <1>1, GotoTypes
<1>3. TypeOK' /\ Quiet /\ UNCHANGED thread /\ req[q].pc = "entering"
  BY <1>1, <1>2 DEF TypeOK, Coroutine, Entered, Quiet
<1> QED BY <1>2, <1>3, MoveOK

LEMMA PollOK ==
    ASSUME IInv, NEW q \in Requests, Poll(q)
    PROVE  IInv'
<1>1. TypeOK /\ "asking" \in Pc /\ req' = [req EXCEPT ![q].pc = "asking"]
  BY DEF IInv, Pc, Poll, Goto
<1>2. /\ req' \in [Requests -> Coroutine]
      /\ req'[q].pc = "asking"
      /\ \A r \in Requests \ {q} : req'[r] = req[r]
  BY <1>1, GotoTypes
<1>3. /\ thread' \in [Requests -> [at: {"idle", "running", "ended"}, lease: Nat]]
      /\ thread'[q].lease = thread[q].lease
      /\ \A r \in Requests \ {q} : thread'[r] = thread[r]
  BY <1>1 DEF TypeOK, Poll
<1>4. TypeOK' /\ Quiet
  BY <1>1, <1>2, <1>3 DEF TypeOK, Coroutine, Poll, Quiet
<1>5. ASSUME NEW r \in Requests
      PROVE  Tame(r)
  <2>1. ThreadOK(r)
    BY DEF IInv
  <2>2. CASE r = q
    BY <1>2, <1>3, <2>1, <2>2 DEF Tame, ThreadOK, Poll, Idle
  <2>3. CASE r # q
    BY <1>2, <1>3, <2>1, <2>3 DEF Tame, ThreadOK
  <2> QED BY <2>2, <2>3
<1> QED BY <1>4, <1>5, QuietOK

LEMMA AnsweredOK ==
    ASSUME IInv, NEW q \in Requests, Answered(q)
    PROVE  IInv'
<1> DEFINE pc == IF thread[q].lease = 0 THEN "waiting" ELSE "held"
           n == [req[q] EXCEPT !.lease = thread[q].lease, !.pc = pc]
<1>1. TypeOK
  BY DEF IInv
<1>2. n \in Coroutine /\ n.pc = pc /\ n.lease = thread[q].lease
  BY <1>1 DEF TypeOK, Coroutine, Pc
<1>3. req' = [req EXCEPT ![q] = n] /\ thread' = [thread EXCEPT ![q] = Idle]
  BY <1>1 DEF Answered, TypeOK
<1>4. /\ req' \in [Requests -> Coroutine] /\ req'[q] = n
      /\ thread' \in [Requests -> [at: {"idle", "running", "ended"}, lease: Nat]]
      /\ thread'[q] = Idle
      /\ \A r \in Requests \ {q} : req'[r] = req[r] /\ thread'[r] = thread[r]
  BY <1>1, <1>2, <1>3 DEF TypeOK, Coroutine, Idle
<1>5. TypeOK' /\ Quiet
  BY <1>1, <1>4 DEF TypeOK, Coroutine, Answered, Quiet
<1>6. ASSUME NEW r \in Requests
      PROVE  Tame(r)
  <2>1. ThreadOK(r)
    BY DEF IInv
  <2>2. CASE r = q
    BY <1>2, <1>4, <2>2 DEF Tame, Answered
  <2>3. CASE r # q
    BY <1>4, <2>1, <2>3 DEF Tame, ThreadOK
  <2> QED BY <2>2, <2>3
<1> QED BY <1>5, <1>6, QuietOK

(* The finally block frees the GPU only with the row of its own request.   *)
LEMMA LeaveOK ==
    ASSUME IInv, NEW q \in Requests, Leave(q)
    PROVE  IInv'
<1>1. TypeOK /\ TablesAgree /\ "done" \in Pc
      /\ req' = [req EXCEPT ![q].pc = "done"]
  BY DEF IInv, Pc, Leave, Goto
<1>2. /\ req' \in [Requests -> Coroutine]
      /\ req'[q].pc = "done"
      /\ \A r \in Requests \ {q} : req'[r] = req[r]
  BY <1>1, GotoTypes
<1>3. UNCHANGED <<line, thread, busy, faults>> /\ req[q].pc = "leaving"
  BY DEF Leave
<1>4. CASE UNCHANGED <<gpu, waiter>>
  <2>1. TypeOK' /\ Quiet
    BY <1>1, <1>2, <1>3, <1>4 DEF TypeOK, Coroutine, Quiet
  <2> QED BY <1>2, <1>3, <2>1, MoveOK
<1>5. CASE /\ gpu' = Freed /\ gpu.owner = q
           /\ SetStatus(q, "completed")
  <2>1. /\ waiter' \in [Requests -> [status: Status, overdue: BOOLEAN]]
        /\ waiter'[q].status = "completed"
        /\ \A r \in Requests \ {q} : waiter'[r] = waiter[r]
    <3>1. "completed" \in Status /\ waiter' = [waiter EXCEPT ![q].status = "completed"]
      BY <1>5 DEF SetStatus, Status
    <3> QED BY <1>1, <3>1, SetStatusTypes
  <2>2. /\ gpu' \in [owner: Requests \cup {NoOne}, token: Nat, fresh: BOOLEAN]
        /\ gpu'.owner = NoOne
    BY <1>1, <1>5 DEF TypeOK, Freed
  <2>3. TypeOK'
    BY <1>1, <1>2, <1>3, <2>1, <2>2 DEF TypeOK, Coroutine
  <2>4. TablesAgree'
    BY <1>1, <1>5, <2>1, <2>2, OwnerAssumption DEF TablesAgree, OwnerAssumption
  <2>5. ASSUME NEW r \in Requests
        PROVE  ThreadOK(r)' /\ GrantOK(r)'
    <3>1. ThreadOK(r) /\ GrantOK(r)
      BY DEF IInv
    <3>2. CASE r = q
      BY <1>2, <1>3, <3>1, <3>2 DEF ThreadOK, GrantOK
    <3>3. CASE r # q
      BY <1>2, <1>3, <1>5, <2>1, <3>1, <3>3 DEF ThreadOK, GrantOK, Owns
    <3> QED BY <3>2, <3>3
  <2> QED BY <2>3, <2>4, <2>5 DEF IInv
<1>6. CASE /\ waiter[q].status = "queued" /\ SetStatus(q, "cancelled")
           /\ UNCHANGED gpu
  <2>1. /\ waiter' \in [Requests -> [status: Status, overdue: BOOLEAN]]
        /\ waiter'[q].status = "cancelled"
        /\ \A r \in Requests \ {q} : waiter'[r] = waiter[r]
    <3>1. "cancelled" \in Status /\ waiter' = [waiter EXCEPT ![q].status = "cancelled"]
      BY <1>6 DEF SetStatus, Status
    <3> QED BY <1>1, <3>1, SetStatusTypes
  <2>2. TypeOK'
    BY <1>1, <1>2, <1>3, <1>6, <2>1 DEF TypeOK, Coroutine
  <2>3. TablesAgree'
    BY <1>1, <1>6, <2>1 DEF TablesAgree
  <2>4. ASSUME NEW r \in Requests
        PROVE  ThreadOK(r)' /\ GrantOK(r)'
    <3>1. ThreadOK(r) /\ GrantOK(r)
      BY DEF IInv
    <3>2. CASE r = q
      BY <1>2, <1>3, <3>1, <3>2 DEF ThreadOK, GrantOK
    <3>3. CASE r # q
      BY <1>2, <1>3, <1>6, <2>1, <3>1, <3>3 DEF ThreadOK, GrantOK, Owns
    <3> QED BY <3>2, <3>3
  <2> QED BY <2>2, <2>3, <2>4 DEF IInv
<1> QED BY <1>4, <1>5, <1>6 DEF Leave, CanRelease, Holds, CancelWaiter

(* The heartbeat and the calls touch other fields of a coroutine.          *)
LEMMA BeatOK ==
    ASSUME IInv, NEW q \in Requests, Beat(q) \/ StartCall(q) \/ BeatFails(q)
    PROVE  IInv'
<1>1. TypeOK
  BY DEF IInv
<1>2. req \in [Requests -> Coroutine]
  BY <1>1 DEF TypeOK, Coroutine
<1>3. /\ req' \in [Requests -> Coroutine]
      /\ req'[q].pc = req[q].pc /\ req'[q].lease = req[q].lease
      /\ \A r \in Requests \ {q} : req'[r] = req[r]
  <2>1. CASE req' = [req EXCEPT ![q].lost = TRUE]
    <3> DEFINE n == [req[q] EXCEPT !.lost = TRUE]
    <3>1. n \in Coroutine /\ n.pc = req[q].pc /\ n.lease = req[q].lease
      BY <1>2 DEF Coroutine
    <3>2. req' = [req EXCEPT ![q] = n]
      BY <1>2, <2>1
    <3> QED BY <1>2, <3>1, <3>2
  <2>2. CASE req' = [req EXCEPT ![q].calls = @ + 1]
    <3> DEFINE n == [req[q] EXCEPT !.calls = @ + 1]
    <3>1. n \in Coroutine /\ n.pc = req[q].pc /\ n.lease = req[q].lease
      BY <1>2 DEF Coroutine
    <3>2. req' = [req EXCEPT ![q] = n]
      BY <1>2, <2>2
    <3> QED BY <1>2, <3>1, <3>2
  <2>3. CASE UNCHANGED req
    BY <1>2, <2>3
  <2> QED BY <2>1, <2>2, <2>3 DEF Beat, StartCall, BeatFails
<1>4. /\ gpu' = gpu \/ gpu' = [gpu EXCEPT !.fresh = TRUE]
      /\ UNCHANGED <<waiter, line, thread>>
      /\ busy' \in SUBSET Requests /\ faults' \in Nat
  BY <1>1 DEF TypeOK, Beat, StartCall, BeatFails, Fault
<1>5. /\ gpu' \in [owner: Requests \cup {NoOne}, token: Nat, fresh: BOOLEAN]
      /\ Quiet
  BY <1>1, <1>4 DEF TypeOK, Quiet
<1>6. TypeOK'
  BY <1>1, <1>3, <1>4, <1>5 DEF TypeOK, Coroutine
<1> QED BY <1>3, <1>4, <1>5, <1>6, MoveOK

(* Time makes leases and waiters old; nothing else changes.                *)
LEMMA ClockOK ==
    ASSUME IInv, NEW q \in Requests,
           LeaseLapses \/ WaiterOverdue(q) \/ (EndCall(q) /\ UNCHANGED req)
    PROVE  IInv'
<1>1. TypeOK
  BY DEF IInv
<1>2. /\ gpu' \in [owner: Requests \cup {NoOne}, token: Nat, fresh: BOOLEAN]
      /\ gpu'.owner = gpu.owner /\ gpu'.token = gpu.token
  BY <1>1 DEF TypeOK, LeaseLapses, WaiterOverdue, EndCall
<1>3. /\ waiter' \in [Requests -> [status: Status, overdue: BOOLEAN]]
      /\ \A r \in Requests : waiter'[r].status = waiter[r].status
  <2>1. CASE waiter' = [waiter EXCEPT ![q].overdue = TRUE]
    <3> DEFINE n == [waiter[q] EXCEPT !.overdue = TRUE]
    <3>1. waiter \in [Requests -> [status: Status, overdue: BOOLEAN]]
      BY <1>1 DEF TypeOK
    <3>2. n \in [status: Status, overdue: BOOLEAN]
          /\ n.status = waiter[q].status
      BY <3>1
    <3>3. waiter' = [waiter EXCEPT ![q] = n]
      BY <2>1, <3>1
    <3> QED BY <3>1, <3>2, <3>3
  <2>2. CASE UNCHANGED waiter
    BY <1>1, <2>2 DEF TypeOK
  <2> QED BY <2>1, <2>2 DEF LeaseLapses, WaiterOverdue, EndCall
<1>4. UNCHANGED <<line, req, thread, faults>> /\ busy' \in SUBSET Requests
  BY <1>1 DEF TypeOK, LeaseLapses, WaiterOverdue, EndCall
<1>5. TypeOK' /\ Quiet
  BY <1>1, <1>2, <1>3, <1>4 DEF TypeOK, Quiet
<1> QED BY <1>4, <1>5, MoveOK

LEMMA CrashOK ==
    ASSUME IInv, Crash
    PROVE  IInv'
<1>1. TypeOK
  BY DEF IInv
<1>2. ASSUME NEW r \in Requests
      PROVE  /\ req'[r] \in Coroutine
             /\ thread'[r] = Idle
             /\ \/ req'[r].pc = "done"
                \/ req'[r].pc = "new" /\ req[r].pc = "new"
  <2>1. req[r] \in Coroutine
    BY <1>1 DEF TypeOK, Coroutine
  <2>2. /\ thread'[r] = Idle
        /\ req'[r] = IF req[r].pc = "new" THEN req[r]
                     ELSE [req[r] EXCEPT !.pc = "done"]
    BY DEF Crash
  <2>3. CASE req[r].pc = "new"
    BY <2>1, <2>2, <2>3
  <2>4. CASE req[r].pc # "new"
    <3> DEFINE n == [req[r] EXCEPT !.pc = "done"]
    <3>1. n \in Coroutine /\ n.pc = "done"
      BY <2>1 DEF Coroutine, Pc
    <3> QED BY <2>2, <2>4, <3>1
  <2> QED BY <2>3, <2>4
<1>3. /\ req' \in [Requests -> Coroutine]
      /\ thread' \in [Requests -> [at: {"idle", "running", "ended"}, lease: Nat]]
  BY <1>2 DEF Crash, Idle
<1>4. TypeOK' /\ Quiet
  BY <1>1, <1>3 DEF TypeOK, Coroutine, Crash, Fault, Quiet
<1>5. \A r \in Requests : Tame(r)
  BY <1>2 DEF Tame
<1> QED BY <1>4, <1>5, QuietOK

----------------------------------------------------------------------------
LEMMA StepOK ==
    ASSUME IInv, [Next]_vars
    PROVE  IInv'
<1>1. TypeOK
  BY DEF IInv
<1>2. CASE UNCHANGED vars
  BY <1>2 DEF vars, IInv, TypeOK, TablesAgree, ThreadOK, GrantOK, Owns
<1>3. CASE Ready
  BY <1>3, ReadyOK
<1>4. CASE Crash
  BY <1>4, CrashOK
<1>5. ASSUME NEW q \in Requests, Enqueue(q) \/ TryAcquire(q)
      PROVE  IInv'
  BY <1>5, EnqueueOK, TryAcquireOK
<1>6. ASSUME NEW q \in Requests,
             Entered(q) \/ Poll(q) \/ Answered(q) \/ Leave(q)
      PROVE  IInv'
  BY <1>6, EnteredOK, PollOK, AnsweredOK, LeaveOK
<1>7. ASSUME NEW q \in Requests, Beat(q) \/ StartCall(q) \/ BeatFails(q)
      PROVE  IInv'
  BY <1>7, BeatOK
<1>8. ASSUME NEW q \in Requests,
             LeaseLapses \/ WaiterOverdue(q) \/ (EndCall(q) /\ UNCHANGED req)
      PROVE  IInv'
  BY <1>8, ClockOK
<1>9. ASSUME NEW q \in Requests,
             \/ Deadline(q) \/ Respond(q) \/ StopOnLoss(q)
             \/ EndCall(q) /\ Goto(q, "leaving")
             \/ Withdraw(q) \/ LeaveFails(q)
      PROVE  IInv'
  <2>1. /\ UNCHANGED <<gpu, waiter, line, thread>>
        /\ busy' \in SUBSET Requests /\ faults' \in Nat
    BY <1>1, <1>9 DEF TypeOK, Deadline, Respond, StopOnLoss, EndCall, Withdraw,
                      LeaveFails, Fault
  <2>2. \E pc \in {"leaving", "done"} : Goto(q, pc)
    BY <1>9 DEF Deadline, Respond, StopOnLoss, Withdraw, LeaveFails
  <2> QED BY <2>1, <2>2, LeavesOK
<1>10. CASE LeaseLapses
  <2>1. gpu.owner \in Requests
    BY <1>1, <1>10 DEF TypeOK, LeaseLapses
  <2> QED BY <1>8, <1>10, <2>1
<1> QED BY <1>2, <1>3, <1>4, <1>5, <1>6, <1>7, <1>8, <1>9, <1>10
        DEF Next, Step, EndCall

(* The two tables, the threads and the handlers fit together in every      *)
(* state the admission queue can reach.                                    *)
THEOREM Invariant == Spec => []IInv
<1>1. Init => IInv
  BY InitOK
<1>2. IInv /\ [Next]_vars => IInv'
  BY StepOK
<1> QED BY <1>1, <1>2, PTL DEF Spec

(* Rows, coroutines and threads keep their types.                          *)
THEOREM TypeCorrect == Spec => []TypeOK
<1>1. IInv => TypeOK
  BY DEF IInv
<1> QED BY <1>1, Invariant, PTL

(* A waiter is 'acquired' exactly while the resource row names it, for any *)
(* number of requests, lanes and faults.                                   *)
THEOREM TablesAlwaysAgree == Spec => []TablesAgree
<1>1. IInv => TablesAgree
  BY DEF IInv
<1> QED BY <1>1, Invariant, PTL

(* A handler loses the GPU to the sweep of a lease that ran out, and to    *)
(* nothing else.                                                           *)
THEOREM HandlersOwnTheGpu == Spec => []HandlerOwnsGpu
<1>1. IInv => HandlerOwnsGpu
  BY DEF IInv, GrantOK, Owns, HandlerOwnsGpu, Holds
<1> QED BY <1>1, Invariant, PTL
=============================================================================
