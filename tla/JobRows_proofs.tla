--------------------------- MODULE JobRows_proofs ---------------------------
(***************************************************************************)
(* What every statement of the job repository does to a row, whatever the  *)
(* attempt budget: it yields a row, and only a claim advances the token.   *)
(***************************************************************************)
EXTENDS JobRows, TLAPS

(* A row that was never enqueued is empty. *)
Sound(r) == r \in Row /\ (r.status = "absent" => r = AbsentRow)

Steady(r, s) == Sound(s) /\ s.token = r.token

LEMMA EndedLeaseIsSteady ==
    ASSUME NEW r \in Row, NEW s \in Waiting \cup Terminal, NEW b \in BOOLEAN
    PROVE  /\ Steady(r, Unleased(r, s))
           /\ Steady(r, [Unleased(r, s) EXCEPT !.due = b])
BY DEF Steady, Sound, Row, Statuses, Waiting, Terminal, Unleased

LEMMA ExpiredStatusType ==
    ASSUME NEW r \in Row, NEW max \in Nat
    PROVE  ExpiredStatus(r, max) \in Waiting \cup Terminal
BY DEF ExpiredStatus, Waiting, Terminal

LEMMA SettledIsSteady ==
    ASSUME NEW r \in Row, NEW max \in Nat, NEW b \in BOOLEAN
    PROVE  /\ Steady(r, Completed(r))
           /\ Steady(r, DeadLettered(r))
           /\ Steady(r, Retried(r, max, b))
BY EndedLeaseIsSteady, ExpiredStatusType
DEF Completed, DeadLettered, Retried, Waiting, Terminal

LEMMA RequestsAreSteady ==
    ASSUME NEW r, Sound(r), NEW b \in BOOLEAN
    PROVE  /\ Steady(r, Enqueued(r, b))
           /\ Steady(r, CancelRequested(r))
<1> USE DEF Steady, Sound, Row, Statuses, Waiting, Terminal
<1>1. Steady(r, Enqueued(r, b))
  BY WorkersAssumption DEF Enqueued, AbsentRow
<1>2. Steady(r, CancelRequested(r))
  BY DEF CancelRequested, Unleased
<1>3. QED  BY <1>1, <1>2

LEMMA RequeuedIsSteady ==
    ASSUME NEW r \in Row, NEW b \in BOOLEAN
    PROVE  Steady(r, Requeued(r, b))
<1> DEFINE u == Unleased(r, "retry")
<1>1. u \in Row /\ u.status = "retry" /\ u.token = r.token
  BY DEF Unleased, Row, Statuses, Waiting
<1>2. Requeued(r, b) = [u EXCEPT !.attempts = 0, !.cancel = FALSE, !.due = b]
  BY DEF Requeued
<1> HIDE DEF u
<1>3. Requeued(r, b) \in Row
  <2>1. u \in Row /\ 0 \in Nat /\ FALSE \in BOOLEAN  BY <1>1
  <2>2. QED  BY <1>2, <2>1, Zenon DEF Row
<1>4. Requeued(r, b).status = "retry" /\ Requeued(r, b).token = r.token
  BY <1>1, <1>2 DEF Row
<1>5. QED  BY <1>3, <1>4 DEF Steady, Sound

LEMMA ExpiryIsSteady ==
    ASSUME NEW r \in Row, r.status # "absent"
    PROVE  Steady(r, [r EXCEPT !.expired = TRUE])
BY DEF Steady, Sound, Row

LEMMA SweptIsSteady ==
    ASSUME NEW r, Sound(r), NEW max \in Nat
    PROVE  Steady(r, Swept(r, max))
<1> DEFINE r1 == SweepCancelRequested(r)
           r2 == SweepOverdue(r1)
<1>1. Steady(r, r)
  BY DEF Steady
<1>2. Steady(r, r1)
  BY <1>1, EndedLeaseIsSteady DEF SweepCancelRequested, Sound, Terminal
<1>3. Steady(r1, r2)
  BY <1>2, EndedLeaseIsSteady DEF SweepOverdue, Steady, Sound, Terminal
<1>4. Steady(r2, SweepExpiredLease(r2, max))
  BY <1>3, EndedLeaseIsSteady, ExpiredStatusType
  DEF SweepExpiredLease, Steady, Sound
<1>5. QED  BY <1>2, <1>3, <1>4 DEF Steady, Swept

LEMMA ClaimedAdvances ==
    ASSUME NEW r \in Row, NEW w \in Workers
    PROVE  /\ Sound(Claimed(r, w))
           /\ Claimed(r, w).token = r.token + 1
           /\ Claimed(r, w).owner = w
           /\ Claimed(r, w).status = "running"
<1> DEFINE u == Leased(r, w)
<1>1. /\ u \in Row /\ u.status = "running" /\ u.owner = w
      /\ u.token = r.token /\ u.attempts = r.attempts
  BY DEF Leased, Row, Statuses
<1>2. Claimed(r, w) = [u EXCEPT !.attempts = u.attempts + 1,
                                !.token = u.token + 1]
  BY DEF Claimed
<1> HIDE DEF u
<1>3. u.attempts + 1 \in Nat /\ u.token + 1 \in Nat
  BY <1>1 DEF Row
<1>4. Claimed(r, w) \in Row
  BY <1>1, <1>2, <1>3, Zenon DEF Row
<1>5. /\ Claimed(r, w).status = "running" /\ Claimed(r, w).owner = w
      /\ Claimed(r, w).token = r.token + 1
  BY <1>1, <1>2, <1>3 DEF Row
<1>6. QED  BY <1>4, <1>5 DEF Sound

----------------------------------------------------------------------------
(* What every statement does to a row as the users of the ledger see it:   *)
(* the laws of JobLedger, which depend on no table.                        *)
Law == INSTANCE JobLedger WITH Jobs <- {}, ledger <- AbsentRow

(* The row of a running job, and no other, names the holder of its lease.  *)
Booked(r) == Sound(r) /\ (r.status = "running" <=> r.owner # None)

Abides(r, s) == Booked(s) /\ Law!Lawful(LedgerEntry(r), LedgerEntry(s))

LEMMA PhaseOf ==
    /\ LedgerPhase("absent") = "new"
    /\ \A s \in Waiting : LedgerPhase(s) = "open"
    /\ LedgerPhase("running") = "leased"
    /\ LedgerPhase("completed") = "done"
    /\ LedgerPhase("dead_letter") = "void"
    /\ LedgerPhase("cancelled") = "void"
BY DEF LedgerPhase, Waiting

LEMMA EntriesHaveType ==
    ASSUME NEW r \in Row
    PROVE  LedgerEntry(r) \in Law!Entry
<1>1. LedgerPhase(r.status) \in {"new", "open", "leased", "done", "void"}
  BY PhaseOf DEF Row, Statuses, Terminal
<1> QED BY <1>1 DEF LedgerEntry, Law!Entry, Row

(* Only the columns that JobLedger sees matter.                            *)
LEMMA SameEntryAbides ==
    ASSUME NEW r, NEW s, Booked(r), s \in Row, s.status = r.status,
           s.owner = r.owner, s.token = r.token,
           s = r \/ r.status # "absent"
    PROVE  Abides(r, s)
BY DEF Abides, Booked, Sound, LedgerEntry, Law!Lawful

(* The end of a lease, and the changes of a row that nobody holds.         *)
LEMMA UnheldAbides ==
    ASSUME NEW r, NEW s, Booked(r), s \in Row, s.owner = None, s.token = r.token,
           \/ r.status = "absent" /\ s.status = "pending"
           \/ r.status \in Waiting /\ s.status \in {"retry", "dead_letter",
                                                    "cancelled"}
           \/ r.status = "running" /\ s.status \in Terminal \cup {"retry"}
           \/ r.status \in {"dead_letter", "cancelled"} /\ s.status = "retry"
    PROVE  Abides(r, s)
<1> DEFINE e == LedgerEntry(r)
           f == LedgerEntry(s)
<1>1. Booked(s)
  BY DEF Waiting, Terminal, Booked, Sound
<1>2. f = Law!Unheld(e, f.phase)
  BY DEF LedgerEntry, Law!Unheld
<1>3. e.phase = LedgerPhase(r.status) /\ f.phase = LedgerPhase(s.status)
      /\ e.holder = r.owner
  BY DEF LedgerEntry
<1>4. CASE r.status = "absent" /\ s.status = "pending"
  BY <1>1, <1>2, <1>3, <1>4, PhaseOf
  DEF Abides, Law!Lawful, Law!Submit, Waiting
<1>5. CASE r.status \in Waiting /\ s.status = "retry"
  <2>1. r.owner = None /\ e.phase = f.phase
    BY <1>3, <1>5, PhaseOf DEF Booked, Waiting
  <2>2. e = f
    BY <2>1 DEF LedgerEntry
  <2> QED BY <1>1, <2>2 DEF Abides, Law!Lawful
<1>6. CASE r.status \in Waiting /\ s.status \in {"dead_letter", "cancelled"}
  BY <1>1, <1>2, <1>3, <1>6, PhaseOf DEF Abides, Law!Lawful, Law!Abort
<1>7. CASE r.status = "running" /\ s.status \in Terminal \cup {"retry"}
  <2>1. e.phase = "leased" /\ f.phase \in {"done", "void", "open"}
    BY <1>3, <1>7, PhaseOf DEF Terminal, Waiting
  <2> QED BY <1>1, <1>2, <2>1
          DEF Abides, Law!Lawful, Law!Finish, Law!Abort, Law!GiveBack
<1>8. CASE r.status \in {"dead_letter", "cancelled"} /\ s.status = "retry"
  BY <1>1, <1>2, <1>3, <1>8, PhaseOf
  DEF Abides, Law!Lawful, Law!Reopen, Waiting
<1> QED BY <1>4, <1>5, <1>6, <1>7, <1>8

LEMMA UnleasedRow ==
    ASSUME NEW r \in Row, NEW s \in Waiting \cup Terminal
    PROVE  /\ Unleased(r, s) \in Row
           /\ Unleased(r, s).status = s
           /\ Unleased(r, s).owner = None
           /\ Unleased(r, s).token = r.token
           /\ Unleased(r, s).attempts = r.attempts
           /\ Unleased(r, s).cancel = r.cancel
BY DEF Unleased, Row, Statuses

(* The passage of time, and the columns that only their writer reads.      *)
LEMMA ColumnsAbide ==
    ASSUME NEW r, Booked(r), r.status # "absent", NEW b \in BOOLEAN, NEW t \in Nat
    PROVE  /\ Abides(r, [r EXCEPT !.expired = b])
           /\ Abides(r, [r EXCEPT !.due = b])
           /\ Abides(r, [r EXCEPT !.overdue = b])
           /\ Abides(r, [r EXCEPT !.cancel = b])
           /\ Abides(r, [r EXCEPT !.checkpoint = t])
<1>1. r \in Row
  BY DEF Booked, Sound
<1>2. ASSUME NEW s, s \in Row, s.status = r.status, s.owner = r.owner,
             s.token = r.token
      PROVE  Abides(r, s)
  BY <1>2, SameEntryAbides
<1>3. Abides(r, [r EXCEPT !.expired = b])  BY <1>1, <1>2 DEF Row
<1>4. Abides(r, [r EXCEPT !.due = b])  BY <1>1, <1>2 DEF Row
<1>5. Abides(r, [r EXCEPT !.overdue = b])  BY <1>1, <1>2 DEF Row
<1>6. Abides(r, [r EXCEPT !.cancel = b])  BY <1>1, <1>2 DEF Row
<1>7. Abides(r, [r EXCEPT !.checkpoint = t])  BY <1>1, <1>2 DEF Row
<1> QED BY <1>3, <1>4, <1>5, <1>6, <1>7

(* Statements of callers that hold no lease.                               *)
LEMMA CallersAbide ==
    ASSUME NEW r, Booked(r), NEW b \in BOOLEAN
    PROVE  /\ Abides(r, r)
           /\ Abides(r, Enqueued(r, b))
           /\ Abides(r, CancelRequested(r))
           /\ Abides(r, Released(r))
           /\ CanRequeue(r) => Abides(r, Requeued(r, b))
<1>1. r \in Row /\ Abides(r, r)
  BY SameEntryAbides DEF Booked, Sound
<1>2. Abides(r, Enqueued(r, b))
  <2>1. CASE r.status = "absent"
    <3>1. r = AbsentRow
      BY <2>1 DEF Booked, Sound
    <3>2. /\ Enqueued(r, b) \in Row /\ Enqueued(r, b).owner = None
          /\ Enqueued(r, b).status = "pending"
          /\ Enqueued(r, b).token = r.token
      BY <2>1, <3>1 DEF Enqueued, AbsentRow, Row, Statuses, Waiting
    <3> QED BY <2>1, <3>2, UnheldAbides
  <2>2. CASE r.status # "absent"
    BY <1>1, <2>2 DEF Enqueued
  <2> QED BY <2>1, <2>2
<1>3. Abides(r, CancelRequested(r))
  <2>1. CASE r.status = "absent" \/ r.status \in Terminal
    BY <1>1, <2>1 DEF CancelRequested
  <2>2. CASE r.status \in Waiting
    <3> DEFINE u == Unleased(r, "cancelled")
    <3>1. u \in Row /\ u.status = "cancelled" /\ u.owner = None
          /\ u.token = r.token
      BY <1>1, UnleasedRow DEF Terminal
    <3>2. CancelRequested(r) = [u EXCEPT !.cancel = TRUE]
      BY <2>2 DEF CancelRequested, Waiting, Terminal
    <3> HIDE DEF u
    <3>3. /\ CancelRequested(r) \in Row
          /\ CancelRequested(r).status = "cancelled"
          /\ CancelRequested(r).owner = None
          /\ CancelRequested(r).token = r.token
      BY <3>1, <3>2 DEF Row
    <3> QED BY <2>2, <3>3, UnheldAbides
  <2>3. CASE r.status = "running"
    BY <2>3, ColumnsAbide DEF CancelRequested, Waiting, Terminal
  <2> QED BY <1>1, <2>1, <2>2, <2>3 DEF Row, Statuses
<1>4. Abides(r, Released(r))
  <2>1. CASE r.status \in Waiting
    BY <1>1, <2>1, ColumnsAbide DEF Released, Waiting
  <2>2. CASE r.status \notin Waiting
    BY <1>1, <2>2 DEF Released
  <2> QED BY <2>1, <2>2
<1>5. ASSUME CanRequeue(r)
      PROVE  Abides(r, Requeued(r, b))
  <2> DEFINE u == Unleased(r, "retry")
  <2>1. u \in Row /\ u.status = "retry" /\ u.owner = None
        /\ u.token = r.token
    BY <1>1, UnleasedRow DEF Waiting
  <2>2. Requeued(r, b) = [u EXCEPT !.attempts = 0, !.cancel = FALSE, !.due = b]
    BY DEF Requeued
  <2>3. Requeued(r, b) \in Row
    BY <1>1, RequeuedIsSteady DEF Steady, Sound
  <2> HIDE DEF u
  <2>4. /\ Requeued(r, b).status = "retry"
        /\ Requeued(r, b).owner = None /\ Requeued(r, b).token = r.token
    BY <2>1, <2>2 DEF Row
  <2> QED BY <1>5, <2>3, <2>4, UnheldAbides DEF CanRequeue
<1> QED BY <1>1, <1>2, <1>3, <1>4, <1>5

(* Statements of the holder of a lease.                                    *)
LEMMA RetryAbides ==
    ASSUME NEW r, Booked(r), r.status = "running", NEW max \in Nat,
           NEW b \in BOOLEAN
    PROVE  Abides(r, Retried(r, max, b))
<1>1. r \in Row
  BY DEF Booked, Sound
<1>2. ExpiredStatus(r, max) \in {"cancelled", "dead_letter", "retry"}
  BY DEF ExpiredStatus
<1> DEFINE u == Unleased(r, ExpiredStatus(r, max))
<1>3. u \in Row /\ u.owner = None /\ u.token = r.token
      /\ u.status \in {"cancelled", "dead_letter", "retry"}
  BY <1>1, <1>2, UnleasedRow DEF Waiting, Terminal
<1>4. Retried(r, max, b) = [u EXCEPT !.due = b]
  BY DEF Retried
<1> HIDE DEF u
<1>5. /\ Retried(r, max, b) \in Row
      /\ Retried(r, max, b).owner = None
      /\ Retried(r, max, b).token = r.token
      /\ Retried(r, max, b).status \in {"cancelled", "dead_letter", "retry"}
  BY <1>3, <1>4 DEF Row
<1> QED BY <1>5, UnheldAbides DEF Terminal

LEMMA DeferAbides ==
    ASSUME NEW r, Booked(r), r.status = "running", NEW b \in BOOLEAN
    PROVE  Abides(r, Deferred(r, b))
<1> DEFINE u == Unleased(r, "retry")
           n == IF u.attempts > 0 THEN u.attempts - 1 ELSE 0
<1>1. u \in Row /\ u.status = "retry" /\ u.owner = None /\ u.token = r.token
  BY UnleasedRow DEF Booked, Sound, Waiting
<1>2. n \in Nat
  BY <1>1 DEF Row
<1>3. Deferred(r, b) = [u EXCEPT !.attempts = n, !.due = b]
  BY <1>1 DEF Deferred, Row
<1> HIDE DEF u, n
<1>4. /\ Deferred(r, b) \in Row /\ Deferred(r, b).status = "retry"
      /\ Deferred(r, b).owner = None /\ Deferred(r, b).token = r.token
  BY <1>1, <1>2, <1>3 DEF Row
<1> QED BY <1>4, UnheldAbides

LEMMA HoldersAbide ==
    ASSUME NEW r, Booked(r), NEW max \in Nat, NEW b \in BOOLEAN,
           NEW w \in Workers, NEW t \in Nat
    PROVE  /\ CanComplete(r, w, t) => Abides(r, Completed(r))
           /\ CanRetry(r, w, t) => Abides(r, Retried(r, max, b))
           /\ CanDefer(r, w, t) => Abides(r, Deferred(r, b))
           /\ CanDeadLetter(r, w, t) => Abides(r, DeadLettered(r))
           /\ CanAcknowledgeCancel(r, w, t) => Abides(r, CancelAcknowledged(r))
           /\ CanRenew(r, w, t) => Abides(r, Renewed(r))
           /\ CanCheckpoint(r, w, t) => Abides(r, Checkpointed(r, t))
<1>1. r \in Row
  BY DEF Booked, Sound
<1>2. ASSUME r.status = "running", NEW s \in Terminal
      PROVE  Abides(r, Unleased(r, s))
  BY <1>1, <1>2, UnleasedRow, UnheldAbides
<1>3. /\ CanComplete(r, w, t) => Abides(r, Completed(r))
      /\ CanDeadLetter(r, w, t) => Abides(r, DeadLettered(r))
      /\ CanAcknowledgeCancel(r, w, t) => Abides(r, CancelAcknowledged(r))
  BY <1>2 DEF CanComplete, Completed, CanDeadLetter, DeadLettered,
     CanAcknowledgeCancel, CancelAcknowledged, HeldBy, Terminal
<1>4. CanRetry(r, w, t) => Abides(r, Retried(r, max, b))
  BY WorkersAssumption, RetryAbides DEF CanRetry, Booked
<1>5. CanDefer(r, w, t) => Abides(r, Deferred(r, b))
  BY DeferAbides DEF CanDefer, HeldBy
<1>6. /\ CanRenew(r, w, t) => Abides(r, Renewed(r))
      /\ CanCheckpoint(r, w, t) => Abides(r, Checkpointed(r, t))
  BY ColumnsAbide
  DEF CanRenew, Renewed, CanCheckpoint, Checkpointed, HeldBy
<1> QED BY <1>3, <1>4, <1>5, <1>6

(* claim_jobs: at most one of its sweeps changes a row, and a claim grants *)
(* the next lease of what the sweeps leave.                                *)
LEMMA SweptAbides ==
    ASSUME NEW r, Booked(r), NEW max \in Nat
    PROVE  /\ Abides(r, Swept(r, max))
           /\ Swept(r, max).status \in Waiting
                  => r.status \in Waiting \cup {"running"}
<1>1. r \in Row /\ Abides(r, r)
  BY SameEntryAbides DEF Booked, Sound
<1>2. CASE r.status \in Waiting /\ r.cancel
  <2>1. SweepCancelRequested(r) = Unleased(r, "cancelled")
    BY <1>2 DEF SweepCancelRequested
  <2>2. Swept(r, max) = Unleased(r, "cancelled")
    BY <1>1, <2>1, UnleasedRow
    DEF Swept, SweepOverdue, SweepExpiredLease, Waiting, Terminal
  <2> QED BY <1>1, <1>2, <2>2, UnleasedRow, UnheldAbides DEF Terminal
<1>3. CASE r.status \in Waiting /\ ~r.cancel /\ r.overdue
  <2>1. SweepOverdue(SweepCancelRequested(r)) = Unleased(r, "dead_letter")
    BY <1>3 DEF SweepCancelRequested, SweepOverdue
  <2>2. Swept(r, max) = Unleased(r, "dead_letter")
    BY <1>1, <2>1, UnleasedRow DEF Swept, SweepExpiredLease, Terminal
  <2> QED BY <1>1, <1>3, <2>2, UnleasedRow, UnheldAbides DEF Terminal
<1>4. CASE r.status = "running" /\ r.expired
  <2>1. Swept(r, max) = Retried(r, max, TRUE)
    BY <1>4 DEF Swept, SweepCancelRequested, SweepOverdue, SweepExpiredLease,
       Retried, Waiting
  <2> QED BY <1>4, <2>1, RetryAbides
<1>5. CASE /\ ~(r.status \in Waiting /\ (r.cancel \/ r.overdue))
           /\ ~(r.status = "running" /\ r.expired)
  <2>1. Swept(r, max) = r
    BY <1>5 DEF Swept, SweepCancelRequested, SweepOverdue, SweepExpiredLease
  <2> QED BY <1>1, <2>1
<1> QED BY <1>1, <1>2, <1>3, <1>4, <1>5 DEF Row

LEMMA ClaimedAbides ==
    ASSUME NEW r, Booked(r), NEW max \in Nat, NEW w \in Workers,
           Claimable(Swept(r, max), max)
    PROVE  Abides(r, Claimed(Swept(r, max), w))
<1> DEFINE s == Swept(r, max)
           c == Claimed(s, w)
<1>1. /\ s \in Row /\ s.token = r.token /\ s.status \in Waiting
  BY SweptIsSteady DEF Booked, Steady, Sound, Claimable
<1>2. r.status \in Waiting \cup {"running"}
  BY <1>1, SweptAbides
<1>3. c.status = "running" /\ c.owner = w /\ c.token = r.token + 1 /\ Booked(c)
  BY <1>1, ClaimedAdvances, WorkersAssumption DEF Booked
<1>4. LedgerEntry(r).phase \in {"open", "leased"}
      /\ LedgerEntry(r).epoch = r.token
  BY <1>2, PhaseOf DEF LedgerEntry
<1>5. LedgerEntry(c) = [phase |-> "leased", holder |-> w, epoch |-> r.token + 1]
  BY <1>3, PhaseOf DEF LedgerEntry
<1> HIDE DEF c
<1> QED BY <1>3, <1>4, <1>5 DEF Abides, Law!Lawful, Law!Grant, c
=============================================================================
