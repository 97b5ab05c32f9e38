-------------------------- MODULE TurnService_proofs --------------------------
(***************************************************************************)
(* The bounded admission, for any turns, sessions, permits and threads:    *)
(* the count is exact, awaited turns of a session exclude each other and   *)
(* keep their order, and their calls overlap only around a timeout.        *)
(***************************************************************************)
EXTENDS TurnService, FiniteSetTheorems, TLAPS

(* Each queue holds turns of one kind, none of them twice. *)
QueuesOK ==
    /\ \A i \in DOMAIN permitQ : pc[permitQ[i]] = "queued"
    /\ \A i, j \in DOMAIN permitQ : permitQ[i] = permitQ[j] => i = j
    /\ \A s \in Sessions : \A i \in DOMAIN lockQ[s] :
           pc[lockQ[s][i]] = "permitted" /\ SessionOf[lockQ[s][i]] = s
    /\ \A s \in Sessions : \A i, j \in DOMAIN lockQ[s] :
           lockQ[s][i] = lockQ[s][j] => i = j

(* What the router call of a turn may be doing. *)
CallsOK ==
    \A r \in Turns :
        /\ thread[r] = "submitted" => pc[r] = "routing"
        /\ thread[r] = "running" => pc[r] \in {"routing", "timed_out"}

(* A turn that waits is in line, so whoever wakes the next one finds it.   *)
WaitersInLine ==
    \A r \in Turns :
        /\ pc[r] = "queued" => InLine(permitQ, r)
        /\ pc[r] = "permitted" => InLine(lockQ[SessionOf[r]], r)

CountsOK ==
    /\ IsFiniteSet(At(InFlight))
    /\ AdmissionIsExact

IInv == TypeOK /\ QueuesOK /\ CallsOK /\ CountsOK /\ AwaitedTurnsAreSerial

----------------------------------------------------------------------------
(* Queues, whatever waits in them. *)

LEMMA HeadAndTail ==
    ASSUME NEW S, NEW q \in Seq(S), q # <<>>
    PROVE  /\ Head(q) \in S /\ 1 \in DOMAIN q /\ Head(q) = q[1]
           /\ Tail(q) \in Seq(S)
           /\ \A i \in DOMAIN Tail(q) : i + 1 \in DOMAIN q /\ Tail(q)[i] = q[i + 1]
                                        /\ i \in Nat \ {0}
OBVIOUS

LEMMA Appended ==
    ASSUME NEW S, NEW q \in Seq(S), NEW x \in S
    PROVE  /\ Append(q, x) \in Seq(S)
           /\ \A i \in DOMAIN Append(q, x) :
                  \/ i \in DOMAIN q /\ Append(q, x)[i] = q[i]
                  \/ i = Len(q) + 1 /\ i \notin DOMAIN q /\ Append(q, x)[i] = x
OBVIOUS

----------------------------------------------------------------------------
(* Sets of turns. *)

LEMMA PermitsAreFinite ==
    ASSUME IsFiniteSet(At(InFlight))
    PROVE  IsFiniteSet(At({"permitted", "routing"}))
<1>1. At({"permitted", "routing"}) \subseteq At(InFlight)
  BY DEF At, InFlight
<1> QED BY <1>1, FS_Subset

LEMMA InitOK ==
    ASSUME Init
    PROVE  IInv
<1>1. At(InFlight) = {} /\ At({"permitted", "routing"}) = {}
  BY DEF Init, At, InFlight
<1>2. CountsOK
  BY <1>1, FS_EmptySet DEF CountsOK, AdmissionIsExact, Init
<1>3. AwaitedTurnsAreSerial
  <2>1. Cardinality(At({"permitted", "routing"})) = 0
    BY <1>1, FS_EmptySet
  <2>2. 0 <= MaxConcurrency
    BY CapacityAssumption DEF CapacityAssumption
  <2>3. At({"routing"}) = {}
    BY DEF Init, At
  <2> QED BY <2>1, <2>2, <2>3 DEF AwaitedTurnsAreSerial
<1>4. TypeOK
  <2>1. 0 \in 0 .. MaxConcurrency + QueueCapacity
    BY CapacityAssumption DEF CapacityAssumption
  <2>2. <<>> \in Seq(Turns)
    OBVIOUS
  <2> QED BY <2>1, <2>2 DEF TypeOK, Init
<1>5. QueuesOK /\ CallsOK
  BY DEF QueuesOK, CallsOK, Init
<1> QED BY <1>2, <1>3, <1>4, <1>5 DEF IInv

LEMMA AdmitOK ==
    ASSUME IInv, NEW r \in Turns, Admit(r)
    PROVE  IInv'
<1> USE DEF IInv
<1>1. pc \in [Turns -> {"new"} \cup InFlight \cup Answered]
  BY DEF TypeOK
<1>2. /\ pc[r] = "new" /\ pc'[r] = "queued"
      /\ \A q \in Turns \ {r} : pc'[q] = pc[q]
      /\ pc' \in [Turns -> {"new"} \cup InFlight \cup Answered]
  BY <1>1 DEF Admit, InFlight
<1>3. At(InFlight)' = At(InFlight) \cup {r} /\ r \notin At(InFlight)
  BY <1>2 DEF At, InFlight
<1>4. At({"permitted", "routing"})' = At({"permitted", "routing"})
  BY <1>2 DEF At
<1>5. At({"routing"})' = At({"routing"})
  BY <1>2 DEF At
<1>6. CountsOK'
  BY <1>3, FS_AddElement DEF CountsOK, AdmissionIsExact, Admit
<1>7. AwaitedTurnsAreSerial'
  BY <1>4, <1>5 DEF AwaitedTurnsAreSerial
<1>8. permitQ \in Seq(Turns) /\ permitQ' = Append(permitQ, r)
  BY DEF TypeOK, Admit
<1>9. TypeOK'
  <2>1. permitQ' \in Seq(Turns)
    BY <1>8, Appended
  <2>2. admitted' \in 0 .. MaxConcurrency + QueueCapacity
    BY CapacityAssumption DEF TypeOK, Admit, Full, CapacityAssumption
  <2> QED BY <1>2, <2>1, <2>2 DEF TypeOK, Admit
<1>10. QueuesOK'
  <2>1. \A i \in DOMAIN permitQ : permitQ[i] \in Turns /\ permitQ[i] # r
    BY <1>2, <1>8 DEF QueuesOK
  <2>2. \A i \in DOMAIN permitQ' : pc'[permitQ'[i]] = "queued"
    BY <1>2, <1>8, <2>1, Appended DEF QueuesOK
  <2>3. \A i, j \in DOMAIN permitQ' : permitQ'[i] = permitQ'[j] => i = j
    BY <1>8, <2>1, Appended DEF QueuesOK
  <2>4. \A s \in Sessions : \A i \in DOMAIN lockQ[s] :
            lockQ[s][i] \in Turns /\ lockQ[s][i] # r
    BY <1>2 DEF QueuesOK, TypeOK
  <2> QED BY <1>2, <2>2, <2>3, <2>4 DEF QueuesOK, Admit
<1>11. CallsOK'
  BY <1>2 DEF CallsOK, Admit
<1> QED BY <1>6, <1>7, <1>9, <1>10, <1>11

LEMMA TakePermitOK ==
    ASSUME IInv, NEW r \in Turns, TakePermit(r)
    PROVE  IInv'
<1> USE DEF IInv
<1> DEFINE s == SessionOf[r]
<1>1. /\ pc \in [Turns -> {"new"} \cup InFlight \cup Answered]
      /\ permitQ \in Seq(Turns) /\ permitQ # <<>> /\ Head(permitQ) = r
      /\ permitQ' = Tail(permitQ)
      /\ s \in Sessions /\ lockQ \in [Sessions -> Seq(Turns)]
      /\ lockQ' = [lockQ EXCEPT ![s] = Append(lockQ[s], r)]
  BY SessionAssumption DEF TypeOK, TakePermit, SessionAssumption
<1>2. /\ pc[r] = "queued" /\ pc'[r] = "permitted"
      /\ \A q \in Turns \ {r} : pc'[q] = pc[q]
      /\ pc' \in [Turns -> {"new"} \cup InFlight \cup Answered]
  BY <1>1, HeadAndTail DEF QueuesOK, TakePermit, InFlight
<1>3. At(InFlight)' = At(InFlight)
  BY <1>2 DEF At, InFlight
<1>4. /\ At({"permitted", "routing"})' = At({"permitted", "routing"}) \cup {r}
      /\ r \notin At({"permitted", "routing"})
      /\ At({"routing"})' = At({"routing"})
  BY <1>2 DEF At
<1>5. CountsOK'
  BY <1>3 DEF CountsOK, AdmissionIsExact, TakePermit
<1>6. AwaitedTurnsAreSerial'
  <2>1. IsFiniteSet(At({"permitted", "routing"}))
    BY PermitsAreFinite DEF CountsOK
  <2>2. Cardinality(At({"permitted", "routing"})) \in Nat
    BY <2>1, FS_CardinalityType
  <2>3. Cardinality(At({"permitted", "routing"})')
            = Cardinality(At({"permitted", "routing"})) + 1
    BY <1>4, <2>1, FS_AddElement
  <2>4. Cardinality(At({"permitted", "routing"})) < MaxConcurrency
    BY DEF TakePermit
  <2>5. Cardinality(At({"permitted", "routing"})') <= MaxConcurrency
    BY <2>2, <2>3, <2>4, CapacityAssumption DEF CapacityAssumption
  <2> QED BY <1>4, <2>5 DEF AwaitedTurnsAreSerial
<1>7. Tail(permitQ) \in Seq(Turns) /\ Append(lockQ[s], r) \in Seq(Turns)
  BY <1>1, HeadAndTail, Appended
<1>8. TypeOK'
  <2>1. lockQ' \in [Sessions -> Seq(Turns)]
    BY <1>1, <1>7
  <2>2. permitQ' \in Seq(Turns)
    BY <1>1, <1>7
  <2> QED BY <1>2, <2>1, <2>2 DEF TypeOK, TakePermit
<1>9. QueuesOK'
  <2>1. \A i \in DOMAIN permitQ' :
            permitQ'[i] \in Turns /\ permitQ'[i] # r /\ pc[permitQ'[i]] = "queued"
    BY <1>1, HeadAndTail DEF QueuesOK
  <2>2. \A i, j \in DOMAIN permitQ' : permitQ'[i] = permitQ'[j] => i = j
    BY <1>1, HeadAndTail DEF QueuesOK
  <2>3. \A t \in Sessions : \A i \in DOMAIN lockQ[t] :
            lockQ[t][i] \in Turns /\ lockQ[t][i] # r
    BY <1>1, <1>2 DEF QueuesOK
  <2>4. \A t \in Sessions \ {s} : lockQ'[t] = lockQ[t]
    BY <1>1
  <2>5. lockQ'[s] = Append(lockQ[s], r) /\ lockQ[s] \in Seq(Turns)
    BY <1>1
  <2>6. \A i \in DOMAIN lockQ'[s] :
            pc'[lockQ'[s][i]] = "permitted" /\ SessionOf[lockQ'[s][i]] = s
    BY <1>1, <1>2, <2>3, <2>5, Appended DEF QueuesOK
  <2>7. \A i, j \in DOMAIN lockQ'[s] : lockQ'[s][i] = lockQ'[s][j] => i = j
    BY <1>1, <2>3, <2>5, Appended DEF QueuesOK
  <2> QED BY <1>2, <2>1, <2>2, <2>3, <2>4, <2>6, <2>7 DEF QueuesOK
<1>10. CallsOK'
  BY <1>2 DEF CallsOK, TakePermit
<1> QED BY <1>5, <1>6, <1>8, <1>9, <1>10

LEMMA TakeLockOK ==
    ASSUME IInv, NEW r \in Turns, TakeLock(r)
    PROVE  IInv'
<1> USE DEF IInv
<1> DEFINE s == SessionOf[r]
<1>1. /\ pc \in [Turns -> {"new"} \cup InFlight \cup Answered]
      /\ s \in Sessions /\ lockQ \in [Sessions -> Seq(Turns)]
      /\ lockQ[s] \in Seq(Turns) /\ lockQ[s] # <<>> /\ Head(lockQ[s]) = r
      /\ lockQ' = [lockQ EXCEPT ![s] = Tail(lockQ[s])]
  BY SessionAssumption DEF TypeOK, TakeLock, SessionAssumption
<1>2. /\ pc[r] = "permitted" /\ pc'[r] = "routing"
      /\ \A q \in Turns \ {r} : pc'[q] = pc[q]
      /\ pc' \in [Turns -> {"new"} \cup InFlight \cup Answered]
  BY <1>1, HeadAndTail DEF QueuesOK, TakeLock, InFlight
<1>3. /\ At(InFlight)' = At(InFlight)
      /\ At({"permitted", "routing"})' = At({"permitted", "routing"})
  BY <1>2 DEF At, InFlight
<1>4. At({"routing"})' = At({"routing"}) \cup {r}
  BY <1>2 DEF At
<1>5. CountsOK'
  BY <1>3 DEF CountsOK, AdmissionIsExact, TakeLock
<1>6. AwaitedTurnsAreSerial'
  BY <1>3, <1>4 DEF AwaitedTurnsAreSerial, TakeLock
<1>7. Tail(lockQ[s]) \in Seq(Turns)
  BY <1>1, HeadAndTail
<1>8. TypeOK'
  <2>1. lockQ' \in [Sessions -> Seq(Turns)]
    BY <1>1, <1>7
  <2>2. thread' \in [Turns -> {"none", "submitted", "running", "ended"}]
    BY DEF TypeOK, TakeLock
  <2> QED BY <1>2, <2>1, <2>2 DEF TypeOK, TakeLock
<1>9. QueuesOK'
  <2>1. \A i \in DOMAIN permitQ : permitQ[i] \in Turns /\ permitQ[i] # r
    BY <1>2 DEF QueuesOK, TypeOK
  <2>2. \A t \in Sessions \ {s} : lockQ'[t] = lockQ[t]
    BY <1>1
  <2>3. \A t \in Sessions \ {s} : \A i \in DOMAIN lockQ[t] :
            lockQ[t][i] \in Turns /\ lockQ[t][i] # r
    BY <1>1 DEF QueuesOK
  <2>4. lockQ'[s] = Tail(lockQ[s])
    BY <1>1
  <2>5. \A i \in DOMAIN lockQ'[s] :
            /\ lockQ'[s][i] \in Turns \ {r}
            /\ pc[lockQ'[s][i]] = "permitted" /\ SessionOf[lockQ'[s][i]] = s
    BY <1>1, <2>4, HeadAndTail DEF QueuesOK
  <2>6. \A i, j \in DOMAIN lockQ'[s] : lockQ'[s][i] = lockQ'[s][j] => i = j
    BY <1>1, <2>4, HeadAndTail DEF QueuesOK
  <2> QED BY <1>2, <2>1, <2>2, <2>3, <2>5, <2>6 DEF QueuesOK, TakeLock
<1>10. CallsOK'
  BY <1>2 DEF CallsOK, TakeLock, TypeOK
<1> QED BY <1>5, <1>6, <1>8, <1>9, <1>10

(* A turn that is answered gives back what it was counted for. *)
LEMMA LeaveOK ==
    ASSUME IInv, NEW r \in Turns, pc[r] = "routing",
           NEW answer \in Answered, Leave(r, answer)
    PROVE  /\ pc' \in [Turns -> {"new"} \cup InFlight \cup Answered]
           /\ admitted' \in 0 .. MaxConcurrency + QueueCapacity
           /\ QueuesOK' /\ CountsOK' /\ AwaitedTurnsAreSerial'
           /\ pc'[r] = answer /\ \A q \in Turns \ {r} : pc'[q] = pc[q]
<1> USE DEF IInv
<1>1. /\ pc \in [Turns -> {"new"} \cup InFlight \cup Answered]
      /\ pc'[r] = answer /\ \A q \in Turns \ {r} : pc'[q] = pc[q]
      /\ pc' \in [Turns -> {"new"} \cup InFlight \cup Answered]
  BY DEF TypeOK, Leave
<1>2. At(InFlight)' = At(InFlight) \ {r} /\ r \in At(InFlight)
  BY <1>1 DEF At, InFlight, Answered
<1>3. /\ At({"permitted", "routing"})' = At({"permitted", "routing"}) \ {r}
      /\ r \in At({"permitted", "routing"})
      /\ At({"routing"})' \subseteq At({"routing"})
  BY <1>1 DEF At, Answered
<1>4. /\ Cardinality(At(InFlight)) \in Nat
      /\ Cardinality(At(InFlight)') \in Nat /\ IsFiniteSet(At(InFlight)')
      /\ Cardinality(At(InFlight)') = Cardinality(At(InFlight)) - 1
  BY <1>2, FS_RemoveElement, FS_CardinalityType DEF CountsOK
<1>5. CountsOK' /\ admitted' = admitted - 1 /\ admitted' \in Nat
  BY <1>4 DEF CountsOK, AdmissionIsExact, Leave
<1>6. admitted' \in 0 .. MaxConcurrency + QueueCapacity
  BY <1>5, CapacityAssumption DEF TypeOK, CapacityAssumption
<1>7. AwaitedTurnsAreSerial'
  <2>1. IsFiniteSet(At({"permitted", "routing"}))
    BY PermitsAreFinite DEF CountsOK
  <2>2. Cardinality(At({"permitted", "routing"})) \in Nat
    BY <2>1, FS_CardinalityType
  <2>3. Cardinality(At({"permitted", "routing"})')
            = Cardinality(At({"permitted", "routing"})) - 1
    BY <1>3, <2>1, FS_RemoveElement
  <2>4. Cardinality(At({"permitted", "routing"})') <= MaxConcurrency
    BY <2>2, <2>3, CapacityAssumption
       DEF AwaitedTurnsAreSerial, CapacityAssumption
  <2> QED BY <1>3, <2>4 DEF AwaitedTurnsAreSerial
<1>8. QueuesOK'
  <2>1. \A i \in DOMAIN permitQ : permitQ[i] \in Turns /\ permitQ[i] # r
    BY DEF QueuesOK, TypeOK
  <2>2. \A s \in Sessions : \A i \in DOMAIN lockQ[s] :
            lockQ[s][i] \in Turns /\ lockQ[s][i] # r
    BY DEF QueuesOK, TypeOK
  <2> QED BY <1>1, <2>1, <2>2 DEF QueuesOK, Leave
<1> QED BY <1>1, <1>5, <1>6, <1>7, <1>8

(* The executor moves the router calls alone. *)
LEMMA CallOK ==
    ASSUME IInv, NEW r \in Turns, StartCall(r) \/ EndCall(r)
    PROVE  IInv'
<1> USE DEF IInv
<1>1. UNCHANGED <<pc, admitted, permitQ, lockQ>>
  BY DEF StartCall, EndCall
<1>2. TypeOK' /\ CallsOK'
  BY <1>1 DEF TypeOK, CallsOK, StartCall, EndCall
<1>3. /\ At(InFlight)' = At(InFlight) /\ At({"routing"})' = At({"routing"})
      /\ At({"permitted", "routing"})' = At({"permitted", "routing"})
  BY <1>1 DEF At
<1>4. QueuesOK'
  BY <1>1 DEF QueuesOK
<1>5. CountsOK' /\ AwaitedTurnsAreSerial'
  BY <1>1, <1>3 DEF CountsOK, AdmissionIsExact, AwaitedTurnsAreSerial
<1> QED BY <1>2, <1>4, <1>5

LEMMA AnswerOK ==
    ASSUME IInv, NEW r \in Turns, Return(r) \/ Timeout(r)
    PROVE  IInv'
<1> USE DEF IInv
<1>1. CASE Return(r)
  <2>1. /\ pc' \in [Turns -> {"new"} \cup InFlight \cup Answered]
        /\ admitted' \in 0 .. MaxConcurrency + QueueCapacity
        /\ QueuesOK' /\ CountsOK' /\ AwaitedTurnsAreSerial'
        /\ pc'[r] = "returned" /\ \A q \in Turns \ {r} : pc'[q] = pc[q]
    BY <1>1, LeaveOK DEF Return, Answered
  <2>2. TypeOK' /\ CallsOK'
    BY <1>1, <2>1 DEF TypeOK, CallsOK, Return, Leave
  <2> QED BY <2>1, <2>2
<1>2. CASE Timeout(r)
  <2>1. /\ pc' \in [Turns -> {"new"} \cup InFlight \cup Answered]
        /\ admitted' \in 0 .. MaxConcurrency + QueueCapacity
        /\ QueuesOK' /\ CountsOK' /\ AwaitedTurnsAreSerial'
        /\ pc'[r] = "timed_out" /\ \A q \in Turns \ {r} : pc'[q] = pc[q]
    BY <1>2, LeaveOK DEF Timeout, Answered
  <2>2. /\ thread' \in [Turns -> {"none", "submitted", "running", "ended"}]
        /\ thread'[r] # "submitted"
        /\ \A q \in Turns \ {r} : thread'[q] = thread[q]
    BY <1>2 DEF TypeOK, Timeout
  <2>3. TypeOK' /\ CallsOK'
    BY <1>2, <2>1, <2>2 DEF TypeOK, CallsOK, Timeout, Leave
  <2> QED BY <2>1, <2>3
<1> QED BY <1>1, <1>2

LEMMA StepOK ==
    ASSUME IInv, [Next]_vars
    PROVE  IInv'
<1>1. CASE UNCHANGED vars
  BY <1>1 DEF vars, IInv, TypeOK, QueuesOK, CallsOK, CountsOK, AdmissionIsExact,
              AwaitedTurnsAreSerial, At
<1>2. ASSUME NEW r \in Turns, Refuse(r)
      PROVE  IInv'
  <2> USE DEF IInv
  <2>1. /\ pc \in [Turns -> {"new"} \cup InFlight \cup Answered]
        /\ pc[r] = "new" /\ pc'[r] = "refused"
        /\ \A q \in Turns \ {r} : pc'[q] = pc[q]
        /\ pc' \in [Turns -> {"new"} \cup InFlight \cup Answered]
    BY <1>2 DEF TypeOK, Refuse, Answered
  <2>2. /\ At(InFlight)' = At(InFlight) /\ At({"routing"})' = At({"routing"})
        /\ At({"permitted", "routing"})' = At({"permitted", "routing"})
    BY <2>1 DEF At, InFlight
  <2>3. TypeOK' /\ CallsOK'
    BY <1>2, <2>1 DEF TypeOK, CallsOK, Refuse
  <2>4. CountsOK' /\ AwaitedTurnsAreSerial'
    BY <1>2, <2>2 DEF CountsOK, AdmissionIsExact, AwaitedTurnsAreSerial, Refuse
  <2>5. QueuesOK'
    <3>1. \A i \in DOMAIN permitQ : permitQ[i] \in Turns /\ permitQ[i] # r
      BY <2>1 DEF QueuesOK, TypeOK
    <3>2. \A s \in Sessions : \A i \in DOMAIN lockQ[s] :
              lockQ[s][i] \in Turns /\ lockQ[s][i] # r
      BY <2>1 DEF QueuesOK, TypeOK
    <3> QED BY <1>2, <2>1, <3>1, <3>2 DEF QueuesOK, Refuse
  <2> QED BY <2>3, <2>4, <2>5
<1> QED BY <1>1, <1>2, AdmitOK, TakePermitOK, TakeLockOK, CallOK, AnswerOK
        DEF Next

(* Queues, calls and counts fit together in every state of the admission.  *)
THEOREM Invariant == Spec => []IInv
<1>1. Init => IInv
  BY InitOK
<1>2. IInv /\ [Next]_vars => IInv'
  BY StepOK
<1> QED BY <1>1, <1>2, PTL DEF Spec

(* self._admitted is exact for any capacity and any number of turns, and   *)
(* never exceeds it.                                                       *)
THEOREM CountIsExact == Spec => [](TypeOK /\ AdmissionIsExact)
<1>1. IInv => TypeOK /\ AdmissionIsExact
  BY DEF IInv, CountsOK
<1> QED BY <1>1, Invariant, PTL

(* Awaited turns of a session exclude each other, within the permits.      *)
THEOREM AwaitsAreSerial == Spec => []AwaitedTurnsAreSerial
<1>1. IInv => AwaitedTurnsAreSerial
  BY DEF IInv
<1> QED BY <1>1, Invariant, PTL

(* Two calls of a session run together only around a turn_timeout.         *)
THEOREM OverlapsAreTimeouts == Spec => []OverlapOnlyAfterTimeout
<1>1. IInv => OverlapOnlyAfterTimeout
  BY DEF IInv, CallsOK, OverlapOnlyAfterTimeout, AwaitedTurnsAreSerial, At,
         Running
<1> QED BY <1>1, Invariant, PTL

(* The router never starts on a turn that has been answered.               *)
THEOREM NoGhosts == Spec => NoGhostStart
<1>1. ASSUME IInv, [Next]_vars
      PROVE  [\A r \in Turns : thread[r] # "running" /\ thread'[r] = "running"
                                   => pc[r] = "routing"]_vars
  <2>1. CASE UNCHANGED vars
    BY <2>1
  <2>2. ASSUME NEW q \in Turns, StartCall(q), NEW r \in Turns,
               thread[r] # "running", thread'[r] = "running"
        PROVE  pc[r] = "routing"
    BY <1>1, <2>2 DEF IInv, TypeOK, CallsOK, StartCall
  <2>3. ASSUME NEW q \in Turns, NEW r \in Turns,
               \/ Refuse(q) \/ Admit(q) \/ TakePermit(q) \/ TakeLock(q)
               \/ EndCall(q) \/ Return(q) \/ Timeout(q),
               thread[r] # "running", thread'[r] = "running"
        PROVE  pc[r] = "routing"
    BY <1>1, <2>3 DEF IInv, TypeOK, Refuse, Admit, TakePermit, TakeLock,
                      EndCall, Return, Timeout
  <2> QED BY <1>1, <2>1, <2>2, <2>3 DEF Next
<1> QED BY <1>1, Invariant, PTL DEF Spec, NoGhostStart

(* pc, thread, the count and the queues keep their types, and the count    *)
(* never exceeds the capacity: a refusal is a refusal of a full service.   *)
THEOREM TypeCorrect == Spec => []TypeOK
<1>1. IInv => TypeOK
  BY DEF IInv
<1> QED BY <1>1, Invariant, PTL

----------------------------------------------------------------------------
(* The order of the turns of a session.                                    *)

LEMMA AppendedLine ==
    ASSUME NEW line \in Seq(Turns), NEW x \in Turns,
           NEW q \in Turns, NEW r \in Turns
    PROVE  /\ InLine(line, q) => InLine(Append(line, x), q)
           /\ InLine(Append(line, x), x)
           /\ Before(line, q, r) => Before(Append(line, x), q, r)
           /\ InLine(line, q) => Before(Append(line, x), q, x)
<1> DEFINE long == Append(line, x)
<1>1. /\ Len(line) \in Nat /\ DOMAIN line = 1 .. Len(line)
      /\ DOMAIN long = 1 .. Len(line) + 1
      /\ long[Len(line) + 1] = x
      /\ \A i \in DOMAIN line : long[i] = line[i]
  OBVIOUS
<1> HIDE DEF long
<1>2. Len(line) + 1 \in DOMAIN long /\ DOMAIN line \subseteq DOMAIN long
      /\ \A i \in DOMAIN line : i < Len(line) + 1
  BY <1>1
<1>3. InLine(line, q) => InLine(long, q)
  BY <1>1, <1>2 DEF InLine
<1>4. InLine(long, x)
  BY <1>1, <1>2 DEF InLine
<1>5. Before(line, q, r) => Before(long, q, r)
  BY <1>1, <1>2 DEF Before
<1>6. InLine(line, q) => Before(long, q, x)
  BY <1>1, <1>2 DEF InLine, Before
<1> QED BY <1>3, <1>4, <1>5, <1>6 DEF long

LEMMA LineWithoutHead ==
    ASSUME NEW line \in Seq(Turns), line # <<>>,
           NEW q \in Turns, NEW r \in Turns
    PROVE  /\ InLine(line, q) => q = Head(line) \/ InLine(Tail(line), q)
           /\ Before(line, q, r) =>
                  /\ InLine(Tail(line), r)
                  /\ q = Head(line) \/ Before(Tail(line), q, r)
<1> DEFINE rest == Tail(line)
<1>1. /\ Len(line) \in Nat \ {0} /\ DOMAIN line = 1 .. Len(line)
      /\ DOMAIN rest = 1 .. Len(line) - 1
      /\ Head(line) = line[1]
      /\ \A i \in DOMAIN rest : rest[i] = line[i + 1]
  OBVIOUS
<1> HIDE DEF rest
<1>2. ASSUME NEW i \in DOMAIN line, i # 1
      PROVE  i - 1 \in DOMAIN rest /\ rest[i - 1] = line[i]
  <2>1. i \in 2 .. Len(line) /\ i - 1 \in DOMAIN rest /\ (i - 1) + 1 = i
    BY <1>1, <1>2
  <2> QED BY <1>1, <2>1
<1>3. InLine(line, q) => q = Head(line) \/ InLine(rest, q)
  BY <1>1, <1>2 DEF InLine
<1>4. ASSUME Before(line, q, r)
      PROVE  InLine(rest, r) /\ (q = Head(line) \/ Before(rest, q, r))
  <2>1. PICK i, k \in DOMAIN line : i < k /\ line[i] = q /\ line[k] = r
    BY <1>4 DEF Before
  <2>2. k # 1 /\ k - 1 \in DOMAIN rest /\ rest[k - 1] = r
    BY <1>1, <1>2, <2>1
  <2>3. InLine(rest, r)
    BY <2>2 DEF InLine
  <2>4. CASE i = 1
    BY <1>1, <2>1, <2>3, <2>4
  <2>5. CASE i # 1
    <3>1. i - 1 \in DOMAIN rest /\ rest[i - 1] = q /\ i - 1 < k - 1
      BY <1>1, <1>2, <2>1, <2>5
    <3> QED BY <2>2, <2>3, <3>1 DEF Before
  <2> QED BY <2>4, <2>5
<1> QED BY <1>3, <1>4 DEF rest

(* What the three steps that move a queue do to it. *)
LEMMA Lines ==
    ASSUME IInv
    PROVE  /\ permitQ \in Seq(Turns)
           /\ \A s \in Sessions : lockQ[s] \in Seq(Turns)
           /\ \A r \in Turns : SessionOf[r] \in Sessions
BY SessionAssumption DEF IInv, TypeOK, SessionAssumption

LEMMA AdmitLines ==
    ASSUME IInv, NEW x \in Turns, Admit(x)
    PROVE  permitQ' = Append(permitQ, x) /\ lockQ' = lockQ
BY DEF Admit

LEMMA TakePermitLines ==
    ASSUME IInv, NEW x \in Turns, TakePermit(x)
    PROVE  /\ permitQ # <<>> /\ Head(permitQ) = x /\ permitQ' = Tail(permitQ)
           /\ lockQ'[SessionOf[x]] = Append(lockQ[SessionOf[x]], x)
           /\ \A s \in Sessions \ {SessionOf[x]} : lockQ'[s] = lockQ[s]
BY Lines DEF TakePermit, IInv, TypeOK

LEMMA TakeLockLines ==
    ASSUME IInv, NEW x \in Turns, TakeLock(x)
    PROVE  /\ permitQ' = permitQ
           /\ lockQ[SessionOf[x]] # <<>> /\ Head(lockQ[SessionOf[x]]) = x
           /\ lockQ'[SessionOf[x]] = Tail(lockQ[SessionOf[x]])
           /\ \A s \in Sessions \ {SessionOf[x]} : lockQ'[s] = lockQ[s]
           /\ pc'[x] = "routing"
BY Lines DEF TakeLock, IInv, TypeOK

(* No other step touches them. *)
LEMMA OtherLines ==
    ASSUME [Next]_vars,
           \A x \in Turns : ~Admit(x) /\ ~TakePermit(x) /\ ~TakeLock(x)
    PROVE  permitQ' = permitQ /\ lockQ' = lockQ
BY DEF Next, vars, Refuse, StartCall, EndCall, Return, Timeout, Leave

LEMMA WaitersKept ==
    ASSUME IInv, WaitersInLine, [Next]_vars
    PROVE  WaitersInLine'
<1> SUFFICES ASSUME NEW r \in Turns
             PROVE  /\ pc'[r] = "queued" => InLine(permitQ', r)
                    /\ pc'[r] = "permitted" => InLine(lockQ'[SessionOf[r]], r)
  BY DEF WaitersInLine
<1>1. /\ pc[r] = "queued" => InLine(permitQ, r)
      /\ pc[r] = "permitted" => InLine(lockQ[SessionOf[r]], r)
      /\ pc \in [Turns -> {"new"} \cup InFlight \cup Answered]
  BY DEF WaitersInLine, IInv, TypeOK
<1>2. ASSUME NEW x \in Turns, Admit(x)
      PROVE  /\ pc'[r] = "queued" => InLine(permitQ', r)
             /\ pc'[r] = "permitted" => InLine(lockQ'[SessionOf[r]], r)
  <2>1. pc'[x] = "queued" /\ (r # x => pc'[r] = pc[r])
    BY <1>1, <1>2 DEF Admit
  <2>2. permitQ' = Append(permitQ, x) /\ lockQ' = lockQ
    BY <1>2, AdmitLines
  <2>3. /\ InLine(permitQ, r) => InLine(permitQ', r)
        /\ InLine(permitQ', x)
    BY <2>2, Lines, AppendedLine
  <2> QED BY <1>1, <2>1, <2>2, <2>3
<1>3. ASSUME NEW x \in Turns, TakePermit(x)
      PROVE  /\ pc'[r] = "queued" => InLine(permitQ', r)
             /\ pc'[r] = "permitted" => InLine(lockQ'[SessionOf[r]], r)
  <2>1. pc'[x] = "permitted" /\ (r # x => pc'[r] = pc[r])
    BY <1>1, <1>3 DEF TakePermit
  <2>2. r # x => (InLine(permitQ, r) => InLine(permitQ', r))
    <3>1. /\ permitQ \in Seq(Turns) /\ permitQ # <<>>
          /\ Head(permitQ) = x /\ permitQ' = Tail(permitQ)
      BY <1>3, TakePermitLines, Lines
    <3> QED BY <3>1, LineWithoutHead
  <2>3. /\ InLine(lockQ[SessionOf[r]], r) => InLine(lockQ'[SessionOf[r]], r)
        /\ InLine(lockQ'[SessionOf[x]], x)
    <3>1. /\ InLine(lockQ'[SessionOf[x]], x)
          /\ InLine(lockQ[SessionOf[x]], r) => InLine(lockQ'[SessionOf[x]], r)
      <4>1. /\ lockQ[SessionOf[x]] \in Seq(Turns)
            /\ lockQ'[SessionOf[x]] = Append(lockQ[SessionOf[x]], x)
        BY <1>3, TakePermitLines, Lines
      <4> QED BY <4>1, AppendedLine
    <3>2. SessionOf[r] # SessionOf[x] =>
              lockQ'[SessionOf[r]] = lockQ[SessionOf[r]]
      BY <1>3, TakePermitLines, Lines
    <3> QED BY <3>1, <3>2
  <2> QED BY <1>1, <2>1, <2>2, <2>3
<1>4. ASSUME NEW x \in Turns, TakeLock(x)
      PROVE  /\ pc'[r] = "queued" => InLine(permitQ', r)
             /\ pc'[r] = "permitted" => InLine(lockQ'[SessionOf[r]], r)
  <2>1. pc'[x] = "routing" /\ (r # x => pc'[r] = pc[r])
    BY <1>1, <1>4 DEF TakeLock
  <2>2. permitQ' = permitQ
    BY <1>4, TakeLockLines
  <2>3. r # x => (InLine(lockQ[SessionOf[r]], r)
                      => InLine(lockQ'[SessionOf[r]], r))
    <3>1. CASE SessionOf[r] = SessionOf[x]
      <4> DEFINE line == lockQ[SessionOf[x]]
      <4>1. /\ line \in Seq(Turns) /\ line # <<>> /\ Head(line) = x
            /\ lockQ'[SessionOf[x]] = Tail(line)
        BY <1>4, TakeLockLines, Lines
      <4> QED BY <3>1, <4>1, LineWithoutHead
    <3>2. CASE SessionOf[r] # SessionOf[x]
      BY <1>4, <3>2, TakeLockLines, Lines
    <3> QED BY <3>1, <3>2
  <2> QED BY <1>1, <2>1, <2>2, <2>3
<1>5. CASE \A x \in Turns : ~Admit(x) /\ ~TakePermit(x) /\ ~TakeLock(x)
  <2>1. permitQ' = permitQ /\ lockQ' = lockQ
    BY <1>5, OtherLines
  <2>2. pc'[r] \in {"queued", "permitted"} => pc'[r] = pc[r]
    BY <1>1, <1>5 DEF Next, vars, Refuse, StartCall, EndCall, Return, Timeout,
       Leave
  <2> QED BY <1>1, <2>1, <2>2
<1> QED BY <1>2, <1>3, <1>4, <1>5

LEMMA AlwaysInLine == Spec => []WaitersInLine
<1>1. Init => WaitersInLine
  BY DEF Init, WaitersInLine
<1>2. IInv /\ WaitersInLine /\ [Next]_vars => WaitersInLine'
  BY WaitersKept
<1> QED BY <1>1, <1>2, Invariant, PTL DEF Spec

(* Nobody overtakes: the first of a queue is the one that leaves it, and   *)
(* the semaphore's queue empties into the end of the session's.            *)
LEMMA AheadStaysAhead ==
    ASSUME IInv, [Next]_vars, NEW q \in Turns, NEW r \in Turns, AheadOf(q, r)
    PROVE  AheadOf(q, r)' \/ pc'[q] = "routing"
<1> DEFINE s == SessionOf[q]
<1>1. /\ s \in Sessions /\ SessionOf[r] = s
      /\ permitQ \in Seq(Turns) /\ lockQ[s] \in Seq(Turns)
      /\ \/ Before(permitQ, q, r)
         \/ Before(lockQ[s], q, r)
         \/ InLine(lockQ[s], q) /\ InLine(permitQ, r)
  BY Lines DEF AheadOf
<1>2. SUFFICES \/ pc'[q] = "routing"
               \/ Before(permitQ', q, r)
               \/ Before(lockQ'[s], q, r)
               \/ InLine(lockQ'[s], q) /\ InLine(permitQ', r)
  BY <1>1 DEF AheadOf, Before, InLine
<1> HIDE DEF s
<1>3. ASSUME NEW x \in Turns, Admit(x)
      PROVE  \/ Before(permitQ', q, r)
             \/ Before(lockQ'[s], q, r)
             \/ InLine(lockQ'[s], q) /\ InLine(permitQ', r)
  <2>1. /\ Before(permitQ, q, r) => Before(permitQ', q, r)
        /\ InLine(permitQ, r) => InLine(permitQ', r)
        /\ lockQ' = lockQ
    <3>1. permitQ' = Append(permitQ, x) /\ lockQ' = lockQ
      BY <1>3, AdmitLines
    <3> QED BY <1>1, <3>1, AppendedLine
  <2> QED BY <1>1, <2>1
<1>4. ASSUME NEW x \in Turns, TakePermit(x)
      PROVE  \/ Before(permitQ', q, r)
             \/ Before(lockQ'[s], q, r)
             \/ InLine(lockQ'[s], q) /\ InLine(permitQ', r)
  <2>1. /\ permitQ # <<>> /\ Head(permitQ) = x /\ permitQ' = Tail(permitQ)
        /\ SessionOf[x] = s => lockQ'[s] = Append(lockQ[s], x)
        /\ SessionOf[x] # s => lockQ'[s] = lockQ[s]
    BY <1>1, <1>4, TakePermitLines
  <2>2. /\ InLine(permitQ, r) => r = x \/ InLine(permitQ', r)
        /\ Before(permitQ, q, r) =>
               InLine(permitQ', r) /\ (q = x \/ Before(permitQ', q, r))
    BY <1>1, <2>1, LineWithoutHead
  <2>3. /\ InLine(lockQ[s], q) => InLine(lockQ'[s], q)
        /\ Before(lockQ[s], q, r) => Before(lockQ'[s], q, r)
        /\ SessionOf[x] = s => /\ InLine(lockQ'[s], x)
                               /\ InLine(lockQ[s], q) => Before(lockQ'[s], q, x)
    <3>1. CASE SessionOf[x] # s
      BY <2>1, <3>1
    <3>2. CASE SessionOf[x] = s
      <4>1. lockQ'[s] = Append(lockQ[s], x) /\ lockQ[s] \in Seq(Turns)
        BY <1>1, <2>1, <3>2
      <4>2. /\ InLine(lockQ[s], q) => InLine(Append(lockQ[s], x), q)
            /\ InLine(Append(lockQ[s], x), x)
            /\ Before(lockQ[s], q, r) => Before(Append(lockQ[s], x), q, r)
            /\ InLine(lockQ[s], q) => Before(Append(lockQ[s], x), q, x)
        BY <4>1, AppendedLine
      <4> QED BY <4>1, <4>2
    <3> QED BY <3>1, <3>2
  <2>4. SessionOf[q] = s /\ SessionOf[r] = s
    BY <1>1 DEF s
  <2> QED BY <1>1, <2>2, <2>3, <2>4
<1>5. ASSUME NEW x \in Turns, TakeLock(x)
      PROVE  \/ pc'[q] = "routing"
             \/ Before(permitQ', q, r)
             \/ Before(lockQ'[s], q, r)
             \/ InLine(lockQ'[s], q) /\ InLine(permitQ', r)
  <2>1. permitQ' = permitQ /\ pc'[x] = "routing"
    BY <1>5, TakeLockLines
  <2>2. SessionOf[x] # s => lockQ'[s] = lockQ[s]
    BY <1>1, <1>5, TakeLockLines
  <2>3. SessionOf[x] = s =>
            /\ InLine(lockQ[s], q) => q = x \/ InLine(lockQ'[s], q)
            /\ Before(lockQ[s], q, r) => q = x \/ Before(lockQ'[s], q, r)
    BY <1>1, <1>5, TakeLockLines, LineWithoutHead
  <2> QED BY <1>1, <2>1, <2>2, <2>3
<1>6. CASE \A x \in Turns : ~Admit(x) /\ ~TakePermit(x) /\ ~TakeLock(x)
  BY <1>1, <1>6, OtherLines
<1> QED BY <1>3, <1>4, <1>5, <1>6

LEMMA AdmittedLast ==
    ASSUME IInv, WaitersInLine, [Next]_vars, NEW q \in Turns, NEW r \in Turns,
           SessionOf[q] = SessionOf[r], pc[q] \in {"queued", "permitted"},
           pc[r] = "new", pc'[r] = "queued"
    PROVE  AheadOf(q, r)'
<1>1. Admit(r)
  BY DEF Next, vars, Refuse, Admit, TakePermit, TakeLock, StartCall, EndCall,
     Return, Timeout, Leave, IInv, TypeOK
<1>2. permitQ' = Append(permitQ, r) /\ lockQ' = lockQ
  BY <1>1, AdmitLines
<1>3. InLine(permitQ, q) \/ InLine(lockQ[SessionOf[q]], q)
  BY DEF WaitersInLine
<1>4. /\ InLine(permitQ', r)
      /\ InLine(permitQ, q) => Before(permitQ', q, r)
  BY <1>2, Lines, AppendedLine
<1> QED BY <1>2, <1>3, <1>4 DEF AheadOf, Before, InLine

(* Turns of a session are routed in the order of their admission, through  *)
(* the semaphore and the session lock, for any number of both.             *)
THEOREM SessionsInOrder == Spec => SessionOrder
<1>1. IInv /\ WaitersInLine /\ [Next]_vars =>
        [\A q, r \in Turns :
            /\ AheadOf(q, r) => AheadOf(q, r)' \/ pc'[q] = "routing"
            /\ /\ SessionOf[q] = SessionOf[r]
               /\ pc[q] \in {"queued", "permitted"}
               /\ pc[r] = "new" /\ pc'[r] = "queued"
               => AheadOf(q, r)']_vars
  BY AheadStaysAhead, AdmittedLast
<1> QED BY <1>1, Invariant, AlwaysInLine, PTL DEF Spec, SessionOrder
=============================================================================
