---------------------------- MODULE TurnService ----------------------------
(***************************************************************************)
(* The bounded admission of app/services/turn_service.py.  A turn is       *)
(* admitted or refused, waits for a permit of the semaphore, then, holding *)
(* the permit, for the lock of its session, and then awaits the router,    *)
(* which runs in a thread of the event loop's executor.  The await has a   *)
(* timeout.  asyncio semaphores and locks wake their waiters in order of   *)
(* arrival.                                                                *)
(*                                                                         *)
(* wait_for cancels the future it awaits: a call the executor has not      *)
(* started is dropped, a call that runs cannot be interrupted and goes on  *)
(* after the turn has been answered with turn_timeout.                     *)
(***************************************************************************)
EXTENDS Integers, Sequences, FiniteSets

CONSTANTS Turns,           \* calls of route(), each made at most once
          Sessions,        \* values of _session_key
          SessionOf,       \* the session of each turn
          MaxConcurrency,  \* permits of the semaphore
          QueueCapacity,   \* turns admitted beyond the permits
          PoolSize         \* threads of the executor

ASSUME SessionAssumption == SessionOf \in [Turns -> Sessions]
ASSUME CapacityAssumption ==
    /\ MaxConcurrency \in Nat \ {0}
    /\ QueueCapacity \in Nat
    /\ PoolSize \in Nat \ {0}

VARIABLES pc,        \* where the coroutine of each turn is
          thread,    \* the router call of each turn
          admitted,  \* self._admitted
          permitQ,   \* turns waiting for self._semaphore
          lockQ      \* turns waiting for each of self._session_locks

vars == <<pc, thread, admitted, permitQ, lockQ>>

InFlight == {"queued", "permitted", "routing"}
Answered == {"returned", "timed_out", "refused"}

TypeOK ==
    /\ pc \in [Turns -> {"new"} \cup InFlight \cup Answered]
    /\ thread \in [Turns -> {"none", "submitted", "running", "ended"}]
    /\ admitted \in 0 .. MaxConcurrency + QueueCapacity
    /\ permitQ \in Seq(Turns)
    /\ lockQ \in [Sessions -> Seq(Turns)]

Init ==
    /\ pc = [r \in Turns |-> "new"]
    /\ thread = [r \in Turns |-> "none"]
    /\ admitted = 0
    /\ permitQ = <<>>
    /\ lockQ = [s \in Sessions |-> <<>>]

At(labels) == {r \in Turns : pc[r] \in labels}
Running == {r \in Turns : thread[r] = "running"}

(* Variant: one turn too many. *)
FullOffByOne == admitted > MaxConcurrency + QueueCapacity

Full == admitted >= MaxConcurrency + QueueCapacity

Refuse(r) ==
    /\ pc[r] = "new"
    /\ Full
    /\ pc' = [pc EXCEPT ![r] = "refused"]
    /\ UNCHANGED <<thread, admitted, permitQ, lockQ>>

Admit(r) ==
    /\ pc[r] = "new"
    /\ ~Full
    /\ admitted' = admitted + 1
    /\ pc' = [pc EXCEPT ![r] = "queued"]
    /\ permitQ' = Append(permitQ, r)
    /\ UNCHANGED <<thread, lockQ>>

(* Variant: the semaphore wakes any waiter. *)
TakeAnyPermit(r) ==
    /\ pc[r] = "queued"
    /\ Cardinality(At({"permitted", "routing"})) < MaxConcurrency
    /\ permitQ' = SelectSeq(permitQ, LAMBDA q : q # r)
    /\ pc' = [pc EXCEPT ![r] = "permitted"]
    /\ lockQ' = [lockQ EXCEPT ![SessionOf[r]] = Append(@, r)]
    /\ UNCHANGED <<thread, admitted>>

(* The coroutine goes on to the session lock without yielding. *)
TakePermit(r) ==
    /\ permitQ # <<>> /\ Head(permitQ) = r
    /\ Cardinality(At({"permitted", "routing"})) < MaxConcurrency
    /\ permitQ' = Tail(permitQ)
    /\ pc' = [pc EXCEPT ![r] = "permitted"]
    /\ lockQ' = [lockQ EXCEPT ![SessionOf[r]] = Append(@, r)]
    /\ UNCHANGED <<thread, admitted>>

(* Variant: no lock per session. *)
TakeNoLock(r) ==
    LET s == SessionOf[r]
    IN  /\ lockQ[s] # <<>> /\ Head(lockQ[s]) = r
        /\ lockQ' = [lockQ EXCEPT ![s] = Tail(@)]
        /\ pc' = [pc EXCEPT ![r] = "routing"]
        /\ thread' = [thread EXCEPT ![r] = "submitted"]
        /\ UNCHANGED <<admitted, permitQ>>

TakeLock(r) ==
    LET s == SessionOf[r]
    IN  /\ lockQ[s] # <<>> /\ Head(lockQ[s]) = r
        /\ \A q \in At({"routing"}) : SessionOf[q] # s
        /\ lockQ' = [lockQ EXCEPT ![s] = Tail(@)]
        /\ pc' = [pc EXCEPT ![r] = "routing"]
        /\ thread' = [thread EXCEPT ![r] = "submitted"]
        /\ UNCHANGED <<admitted, permitQ>>

(* The executor. *)
StartCall(r) ==
    /\ thread[r] = "submitted"
    /\ Cardinality(Running) < PoolSize
    /\ thread' = [thread EXCEPT ![r] = "running"]
    /\ UNCHANGED <<pc, admitted, permitQ, lockQ>>

EndCall(r) ==
    /\ thread[r] = "running"
    /\ thread' = [thread EXCEPT ![r] = "ended"]
    /\ UNCHANGED <<pc, admitted, permitQ, lockQ>>

(* Leaving route() releases the lock and the permit, and the finally       *)
(* clause takes the turn off the count.                                    *)
Leave(r, answer) ==
    /\ pc' = [pc EXCEPT ![r] = answer]
    /\ admitted' = IF admitted > 0 THEN admitted - 1 ELSE 0
    /\ UNCHANGED <<permitQ, lockQ>>

(* The router returned or raised. *)
Return(r) ==
    /\ pc[r] = "routing"
    /\ thread[r] = "ended"
    /\ Leave(r, "returned")
    /\ UNCHANGED thread

(* Variant: leaves a call the executor has not started in its queue. *)
TimeoutKeepsCall(r) ==
    /\ pc[r] = "routing"
    /\ Leave(r, "timed_out")
    /\ UNCHANGED thread

(* Variant: the count is taken back only when the router returned. *)
TimeoutKeepsCount(r) ==
    /\ pc[r] = "routing"
    /\ pc' = [pc EXCEPT ![r] = "timed_out"]
    /\ thread' = [thread EXCEPT ![r] = IF @ = "submitted" THEN "none" ELSE @]
    /\ UNCHANGED <<admitted, permitQ, lockQ>>

(* Variant: the timer starts with the call. *)
TimeoutOnceStarted(r) ==
    /\ pc[r] = "routing" /\ thread[r] # "submitted"
    /\ Leave(r, "timed_out")
    /\ UNCHANGED thread

Timeout(r) ==
    /\ pc[r] = "routing"
    /\ Leave(r, "timed_out")
    /\ thread' = [thread EXCEPT ![r] = IF @ = "submitted" THEN "none" ELSE @]

Next ==
    \E r \in Turns :
        \/ Refuse(r) \/ Admit(r) \/ TakePermit(r) \/ TakeLock(r)
        \/ StartCall(r) \/ EndCall(r) \/ Return(r) \/ Timeout(r)

Spec == Init /\ [][Next]_vars

(* The event loop runs ready coroutines and its timers fire.  Nothing is   *)
(* assumed of the router: a call may never end.                            *)
Fairness ==
    \A r \in Turns : /\ WF_vars(TakePermit(r))
                     /\ WF_vars(TakeLock(r))
                     /\ WF_vars(Timeout(r))

FairSpec == Spec /\ Fairness

----------------------------------------------------------------------------
(* self._admitted counts the turns in flight exactly, so a slot lost to a  *)
(* timeout or an error would show, and refusals happen only when all slots *)
(* are taken.                                                              *)
AdmissionIsExact == admitted = Cardinality(At(InFlight))

(* Two turns of one session are never awaited together, and a turn waiting *)
(* for a session lock has a permit whose count is never exceeded.          *)
AwaitedTurnsAreSerial ==
    /\ \A r, q \in At({"routing"}) : SessionOf[r] = SessionOf[q] => r = q
    /\ Cardinality(At({"permitted", "routing"})) <= MaxConcurrency

(* Router calls of one session overlap only when one of them belongs to a  *)
(* turn that was answered with turn_timeout.                               *)
OverlapOnlyAfterTimeout ==
    \A r, q \in Running :
        SessionOf[r] = SessionOf[q] /\ r # q =>
            "timed_out" \in {pc[r], pc[q]}

(* The router never starts on a turn that has already been answered. *)
NoGhostStart ==
    [][\A r \in Turns : thread[r] # "running" /\ thread'[r] = "running"
                            => pc[r] = "routing"]_vars

(* Turns of one session reach the router in the order of their admission:  *)
(* a turn is admitted behind all that wait, and whoever waits ahead of     *)
(* another turn of its session stays ahead until it is routed.             *)
InLine(line, q) == \E i \in DOMAIN line : line[i] = q

Before(line, q, r) ==
    \E i, k \in DOMAIN line : i < k /\ line[i] = q /\ line[k] = r

AheadOf(q, r) ==
    LET s == SessionOf[q]
    IN  /\ SessionOf[r] = s
        /\ \/ Before(permitQ, q, r)
           \/ Before(lockQ[s], q, r)
           \/ InLine(lockQ[s], q) /\ InLine(permitQ, r)

SessionOrder ==
    [][\A q, r \in Turns :
          /\ AheadOf(q, r) => AheadOf(q, r)' \/ pc'[q] = "routing"
          /\ /\ SessionOf[q] = SessionOf[r]
             /\ pc[q] \in {"queued", "permitted"}
             /\ pc[r] = "new" /\ pc'[r] = "queued"
             => AheadOf(q, r)']_vars

(* No admitted turn waits for ever, even when every router call hangs: the *)
(* turn that holds the lock others wait for always has a permit and a      *)
(* timer.                                                                  *)
EveryTurnIsAnswered ==
    \A r \in Turns : pc[r] = "queued" ~> pc[r] \in Answered

(* README.md:78 promises per-session serialization, and                    *)
(* test_same_session_turns_are_serialized asserts it of the router's calls *)
(* (tests/unit/test_turn_service.py:77).  The code does not keep this: a   *)
(* timeout leaves a running call behind (README).                          *)
RouterCallsAreSerial ==
    \A r, q \in Running : SessionOf[r] = SessionOf[q] => r = q
=============================================================================
