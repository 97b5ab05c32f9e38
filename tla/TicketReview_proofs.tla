------------------------- MODULE TicketReview_proofs -------------------------
(***************************************************************************)
(* What the review worker may do to a verdict, for any number of turns,    *)
(* children, attempts and crashes: it gives one only after a review, and   *)
(* it does not take one back.                                              *)
(***************************************************************************)
EXTENDS TicketReview, JobRows_proofs

Settled == {"verified", "superseded"}

TicketRow == [status: Status, manifest: SUBSET Effects,
              receipts: SUBSET Effects, rev: SUBSET Effects,
              outcome: [Effects -> Outcomes]]

TurnRecord == [pc: TurnPc, n: Nat, direct: BOOLEAN, seen: SUBSET Effects,
               agg: {"", "no_manifest", "queued", "completed", "partial",
                     "failed"}]

Plans == Status \cup {"", "clear", "verify", "repair"}

WkRecord == [pc: WkPc, alarm: Alarms \cup {None}, key: Reviews \cup {None},
             plan: Plans, rev: SUBSET Effects]

RunRecord == [key: Reviews, attempt: Nat, seen: SUBSET Effects]

(* Where a turn works on the receipts it read. *)
Seeing == {"reduce", "apply", "schedule"}

(* Where the worker has a watchdog job, a review job, and a review whose   *)
(* ticket it found waiting for it.                                         *)
Watching  == {"look", "act", "schedule", "clear"}
Reviewing == {"verifying", "judge", "conclude", "excuse", "retry", "escalate",
              "repair", "child", "parent", "promise", "dispatch", "fail"}

----------------------------------------------------------------------------
(* The inductive invariant *)

(* A good outcome comes with its receipt; what waits for a review, is in   *)
(* it or passed it has something to show, and a revision is made of        *)
(* receipts.                                                               *)
Documented(r) ==
    /\ \A c \in Effects : r.outcome[c] = "verified" => c \in r.receipts
    /\ r.status \in {"verification_pending", "verifying", "verified"} =>
           r.rev # {}
    /\ r.rev \subseteq r.receipts

TicketsOK ==
    /\ ticket \in [Tickets -> TicketRow]
    /\ \A t \in Tickets : Documented(ticket[t])

JobsOK ==
    /\ watch \in [Alarms -> Row] /\ \A a \in Alarms : Sound(watch[a])
    /\ review \in [Reviews -> Row] /\ \A k \in Reviews : Sound(review[k])

TurnOK ==
    /\ turn \in TurnRecord
    /\ turn.pc = "schedule" => turn.seen # {}
    /\ bound \in BOOLEAN
    /\ crashes \in [api: Nat, worker: Nat]

(* Receipts are never withdrawn, so what a turn read of them is there.     *)
SeenOK ==
    turn.pc \in Seeing => turn.seen \subseteq ticket[Root].receipts

WkOK ==
    /\ wk \in WkRecord
    /\ wk.pc \in Watching => wk.alarm \in Alarms
    /\ wk.pc \in Reviewing \cup {"open", "close"} => wk.key \in Reviews
    /\ wk.pc = "act" =>
           wk.plan \in {"verify", "escalated", "reconciliation_required"}
    /\ wk.pc = "schedule" \/ (wk.pc = "act" /\ wk.plan = "verify") =>
           wk.rev # {}

(* Nobody but the worker settles a ticket, so the one it works on is open, *)
(* with the receipts of the revision it was asked to review.               *)
WorkOK ==
    /\ wk.pc \in Reviewing =>
           /\ ticket[Reviewed].rev # {}
           /\ ticket[Reviewed].status \notin Settled
           /\ wk.key[2] # {} /\ wk.key[2] \subseteq ticket[Reviewed].receipts
    /\ wk.pc \in {"act", "schedule"} =>
           /\ ticket[Alarmed].status \notin Settled
           /\ wk.rev \subseteq ticket[Alarmed].receipts
    /\ wk.pc = "conclude" => \E r \in runs : r.key[1] = Reviewed

RunsOK ==
    /\ runs \subseteq RunRecord
    /\ \A r \in runs : r.key[2] # {} /\ r.key[2] \subseteq r.seen
    /\ \A t \in Tickets :
           ticket[t].status = "verified" => \E r \in runs : r.key[1] = t

IInv == TicketsOK /\ JobsOK /\ TurnOK /\ SeenOK /\ WkOK /\ WorkOK /\ RunsOK

----------------------------------------------------------------------------
(* The constants *)

LEMMA Keys ==
    /\ \A t \in Tickets : Own(t) \subseteq Effects
    /\ \A k \in Reviews : k[1] \in Tickets /\ k[2] \subseteq Effects
    /\ \A a : TicketOf(a) \in Tickets
    /\ Root \in Tickets /\ Repair \in Tickets
    /\ RepairChild \in Effects /\ Direct \in Effects /\ Children \subseteq Effects
<1>1. \A t \in Tickets : Own(t) \subseteq Effects
  BY DEF Tickets, Own, Effects
<1>2. ASSUME NEW k \in Reviews
      PROVE  k[1] \in Tickets /\ k[2] \subseteq Effects
  <2>1. PICK t \in Tickets : k \in {t} \X SUBSET Own(t)
    BY DEF Reviews
  <2>2. k[1] = t /\ k[2] \in SUBSET Own(t)
    BY <2>1
  <2> QED BY <1>1, <2>2
<1>3. QED  BY <1>1, <1>2 DEF TicketOf, Tickets, Effects

LEMMA ReviewerWorks == Reviewer \in Workers
BY ReviewerAssumption DEF Reviewer

LEMMA AllowedStatuses ==
    ASSUME NEW s \in Status
    PROVE  Allowed(s) \subseteq Status
BY DEF Allowed, Status, Reopen

(* Only the four statuses of Reopen can follow a verdict, and a verdict    *)
(* follows only a review in progress or a terminal status.                 *)
LEMMA SettledMoves ==
    ASSUME NEW t \in Tickets, ticket[t].status \in Settled, NEW s, CanMove(t, s)
    PROVE  s = ticket[t].status \/ s \in Reopen
BY DEF Settled, CanMove, Allowed

----------------------------------------------------------------------------
(* One row of the ticket table *)

(* A statement that settles no ticket and forgets neither its revision nor *)
(* a receipt.                                                              *)
Plain(r, q) ==
    /\ q \in TicketRow
    /\ Documented(q)
    /\ r.rev # {} => q.rev # {}
    /\ r.receipts \subseteq q.receipts
    /\ q.status \in Settled => q.status = r.status

LEMMA SamePlain ==
    ASSUME TicketsOK, NEW t \in Tickets
    PROVE  Plain(ticket[t], ticket[t]) /\ ticket[t] \in TicketRow
BY DEF TicketsOK, Plain

LEMMA StatusRow ==
    ASSUME NEW r \in TicketRow, Documented(r), NEW s \in Status
    PROVE  LET q == [r EXCEPT !.status = s]
           IN  /\ q \in TicketRow /\ q.status = s /\ q.rev = r.rev
               /\ q.receipts = r.receipts
               /\ (s \in {"verification_pending", "verifying", "verified"}
                      => r.rev # {}) => Documented(q)
BY DEF TicketRow, Documented

LEMMA RevisionRow ==
    ASSUME NEW r \in TicketRow, Documented(r), NEW s \in Status,
           NEW v \in SUBSET Effects, v # {}, v \subseteq r.receipts
    PROVE  LET q == [[r EXCEPT !.status = s] EXCEPT !.rev = v]
           IN  /\ q \in TicketRow /\ q.status = s /\ q.rev = v
               /\ q.receipts = r.receipts /\ Documented(q)
<1> DEFINE u == [r EXCEPT !.status = s]
           q == [u EXCEPT !.rev = v]
<1>1. /\ u \in TicketRow /\ u.status = s
      /\ u.outcome = r.outcome /\ u.receipts = r.receipts
  BY DEF TicketRow
<1> HIDE DEF u
<1>2. /\ q \in TicketRow /\ q.status = s /\ q.rev = v
      /\ q.outcome = r.outcome /\ q.receipts = r.receipts
  BY <1>1 DEF TicketRow
<1> HIDE DEF q
<1>3. Documented(q)
  BY <1>2 DEF Documented
<1> QED BY <1>2, <1>3 DEF q, u

LEMMA OutcomeRow ==
    ASSUME NEW r \in TicketRow, Documented(r), NEW c \in Effects,
           NEW s \in {"verified", "failed"}, NEW q,
           q = [[r EXCEPT !.outcome = [r.outcome EXCEPT ![c] = s]]
                   EXCEPT !.receipts = IF s = "verified"
                                       THEN r.receipts \cup {c}
                                       ELSE r.receipts]
    PROVE  Plain(r, q)
<1> DEFINE o == [r.outcome EXCEPT ![c] = s]
           u == [r EXCEPT !.outcome = o]
           g == IF s = "verified" THEN r.receipts \cup {c} ELSE r.receipts
<1>1. /\ o \in [Effects -> Outcomes] /\ o[c] = s
      /\ \A d \in Effects \ {c} : o[d] = r.outcome[d]
  BY DEF TicketRow, Outcomes
<1>2. g \subseteq Effects /\ r.receipts \subseteq g /\ (s = "verified" => c \in g)
  BY DEF TicketRow
<1> HIDE DEF o, g
<1>3. /\ u \in TicketRow /\ u.status = r.status /\ u.rev = r.rev
      /\ u.outcome = o
  BY <1>1 DEF TicketRow
<1>4. q = [u EXCEPT !.receipts = g]
  BY DEF o, g
<1> HIDE DEF u
<1>5. /\ q \in TicketRow /\ q.status = r.status /\ q.rev = r.rev
      /\ q.outcome = o /\ q.receipts = g
  BY <1>2, <1>3, <1>4 DEF TicketRow
<1>6. Documented(q)
  BY <1>1, <1>2, <1>5 DEF Documented
<1> QED BY <1>5, <1>6 DEF Plain

LEMMA ManifestRow ==
    ASSUME NEW r \in TicketRow, Documented(r), NEW S \in SUBSET Effects
    PROVE  Plain(r, [r EXCEPT !.manifest = @ \cup S])
BY DEF TicketRow, Documented, Plain

LEMMA ReceiptsRow ==
    ASSUME NEW r \in TicketRow, Documented(r), NEW S \in SUBSET Effects
    PROVE  Plain(r, [r EXCEPT !.receipts = r.receipts \cup S])
BY DEF TicketRow, Documented, Plain

----------------------------------------------------------------------------
(* The ticket table *)

TicketMove == ticket' \in [Tickets -> TicketRow]
              /\ \A t \in Tickets : Plain(ticket[t], ticket'[t])

LEMMA SameTickets ==
    ASSUME TicketsOK, ticket' = ticket
    PROVE  TicketMove
BY SamePlain DEF TicketsOK, TicketMove

LEMMA OneTicket ==
    ASSUME TicketsOK, NEW t \in Tickets, NEW q, Plain(ticket[t], q),
           ticket' = [ticket EXCEPT ![t] = q]
    PROVE  TicketMove
BY SamePlain DEF TicketsOK, TicketMove, Plain

(* A transition to a status that is no verdict. *)
LEMMA StatusMove ==
    ASSUME TicketsOK, NEW t \in Tickets, NEW s \in Status, SetStatus(t, s),
           s \notin Settled,
           s \in {"verification_pending", "verifying"} => ticket[t].rev # {}
    PROVE  TicketMove
<1>1. ticket[t] \in TicketRow /\ Documented(ticket[t])
  BY DEF TicketsOK
<1>2. Plain(ticket[t], [ticket[t] EXCEPT !.status = s])
  BY <1>1, StatusRow DEF Plain, Settled
<1>3. ticket' = [ticket EXCEPT ![t] = [ticket[t] EXCEPT !.status = s]]
  BY DEF SetStatus
<1> QED BY <1>2, <1>3, OneTicket

LEMMA TwoFields ==
    ASSUME TicketsOK, NEW t \in Tickets, NEW s, NEW v,
           ticket' = [ticket EXCEPT ![t].status = s, ![t].rev = v]
    PROVE  ticket' = [ticket EXCEPT ![t] =
                         [[ticket[t] EXCEPT !.status = s] EXCEPT !.rev = v]]
BY DEF TicketsOK

LEMMA RevisionMove ==
    ASSUME TicketsOK, NEW t \in Tickets,
           NEW s \in {"executing", "verification_pending"},
           NEW v \in SUBSET Effects, v # {}, v \subseteq ticket[t].receipts,
           ticket' = [ticket EXCEPT ![t].status = s, ![t].rev = v]
    PROVE  TicketMove
<1> DEFINE q == [[ticket[t] EXCEPT !.status = s] EXCEPT !.rev = v]
<1>1. ticket[t] \in TicketRow /\ Documented(ticket[t]) /\ s \in Status
      /\ s \notin Settled
  BY DEF TicketsOK, Status, Settled
<1>2. /\ q \in TicketRow /\ q.status = s /\ q.rev = v
      /\ q.receipts = ticket[t].receipts /\ Documented(q)
  BY <1>1, RevisionRow
<1>3. ticket' = [ticket EXCEPT ![t] = q]
  BY TwoFields
<1> HIDE DEF q
<1>4. Plain(ticket[t], q)
  BY <1>1, <1>2 DEF Plain
<1> QED BY <1>3, <1>4, OneTicket

LEMMA OutcomeMove ==
    ASSUME TicketsOK, NEW t \in Tickets, NEW c \in Effects,
           NEW s \in {"verified", "failed"}, RecordChild(t, c, s)
    PROVE  TicketMove
<1> DEFINE q == [[ticket[t] EXCEPT
                     !.outcome = [ticket[t].outcome EXCEPT ![c] = s]]
                     EXCEPT !.receipts = IF s = "verified"
                                         THEN ticket[t].receipts \cup {c}
                                         ELSE ticket[t].receipts]
<1>1. ticket[t] \in TicketRow /\ Documented(ticket[t])
  BY DEF TicketsOK
<1>2. Plain(ticket[t], q)
  BY <1>1, OutcomeRow
<1>3. ticket' = [ticket EXCEPT ![t] = q]
  BY <1>1 DEF RecordChild, TicketsOK, TicketRow
<1> HIDE DEF q
<1> QED BY <1>2, <1>3, OneTicket

LEMMA ManifestMove ==
    ASSUME TicketsOK, NEW t \in Tickets, NEW S \in SUBSET Effects,
           ticket' = Reserved(t, S)
    PROVE  TicketMove
<1>1. Plain(ticket[t], [ticket[t] EXCEPT !.manifest = @ \cup S])
  BY ManifestRow DEF TicketsOK
<1>2. ticket' = [ticket EXCEPT ![t] = [ticket[t] EXCEPT !.manifest = @ \cup S]]
  BY DEF Reserved
<1> QED BY <1>1, <1>2, OneTicket

----------------------------------------------------------------------------
(* The jobs *)

LEMMA OneAlarm ==
    ASSUME JobsOK, NEW a, NEW b \in BOOLEAN,
           watch' = [watch EXCEPT ![a] = Enqueued(@, b)]
    PROVE  watch' \in [Alarms -> Row] /\ \A x \in Alarms : Sound(watch'[x])
<1>1. \A x \in Alarms : Sound(Enqueued(watch[x], b))
  BY RequestsAreSteady DEF JobsOK, Steady
<1>2. \A x \in Alarms : watch'[x] \in {watch[x], Enqueued(watch[x], b)}
  BY DEF JobsOK
<1>3. \A x \in Alarms : Sound(watch'[x])
  BY <1>1, <1>2 DEF JobsOK
<1> QED BY <1>3 DEF JobsOK, Sound

LEMMA OneReview ==
    ASSUME JobsOK, NEW k, NEW b \in BOOLEAN,
           review' = [review EXCEPT ![k] = Enqueued(@, b)]
    PROVE  review' \in [Reviews -> Row] /\ \A x \in Reviews : Sound(review'[x])
<1>1. \A x \in Reviews : Sound(Enqueued(review[x], b))
  BY RequestsAreSteady DEF JobsOK, Steady
<1>2. \A x \in Reviews : review'[x] \in {review[x], Enqueued(review[x], b)}
  BY DEF JobsOK
<1>3. \A x \in Reviews : Sound(review'[x])
  BY <1>1, <1>2 DEF JobsOK
<1> QED BY <1>3 DEF JobsOK, Sound

LEMMA SweptTables ==
    ASSUME JobsOK
    PROVE  /\ SweptWatch \in [Alarms -> Row]
           /\ \A a \in Alarms : Sound(SweptWatch[a])
           /\ SweptReview \in [Reviews -> Row]
           /\ \A k \in Reviews : Sound(SweptReview[k])
<1>1. MaxAttempts \in Nat /\ 1 \in Nat
  BY TicketBounds DEF TicketBounds
<1>2. \A a \in Alarms : Sound(SweptWatch[a]) /\ SweptWatch[a] \in Row
  BY <1>1, SweptIsSteady DEF JobsOK, SweptWatch, Steady, Sound
<1>3. \A k \in Reviews : Sound(SweptReview[k]) /\ SweptReview[k] \in Row
  BY <1>1, SweptIsSteady DEF JobsOK, SweptReview, Steady, Sound
<1>4. DOMAIN SweptWatch = Alarms /\ DOMAIN SweptReview = Reviews
  BY DEF SweptWatch, SweptReview
<1>5. /\ SweptWatch = [a \in Alarms |-> SweptWatch[a]]
      /\ SweptReview = [k \in Reviews |-> SweptReview[k]]
  BY DEF SweptWatch, SweptReview
<1> QED BY <1>2, <1>3, <1>4, <1>5

----------------------------------------------------------------------------
(* Putting the invariant together again *)

LEMMA SeenStays ==
    ASSUME IInv, TicketMove,
           \/ turn'.pc \notin Seeing
           \/ turn.pc \in Seeing /\ turn'.seen = turn.seen
    PROVE  SeenOK'
<1>1. Plain(ticket[Root], ticket'[Root])
  BY Keys DEF TicketMove
<1> QED BY <1>1 DEF IInv, SeenOK, Plain

(* Steps of others: whatever they do to the tickets, the worker finds the  *)
(* ticket it works on open, with its revision.                             *)
LEMMA OthersKeepWork ==
    ASSUME IInv, TicketMove, UNCHANGED <<wk, runs>>
    PROVE  TicketsOK' /\ WkOK' /\ WorkOK' /\ RunsOK'
<1>1. \A t \in Tickets : Plain(ticket[t], ticket'[t])
  BY DEF TicketMove
<1>2. TicketsOK'
  BY <1>1 DEF TicketMove, Plain, TicketsOK
<1>3. WkOK'
  BY DEF IInv, WkOK
<1>4. wk.pc \in Reviewing => wk.key[1] \in Tickets
  BY Keys DEF IInv, WkOK
<1>5. TicketOf(wk.alarm) \in Tickets
  BY Keys
<1>6. WorkOK'
  BY <1>1, <1>4, <1>5 DEF IInv, WorkOK, Reviewed, Alarmed, Plain, TicketOf
<1>7. RunsOK'
  BY <1>1 DEF IInv, RunsOK, Plain, Settled
<1> QED BY <1>2, <1>3, <1>6, <1>7

(* Steps of the worker that give no verdict; a run that failed loses its   *)
(* evidence, but never one that a verdict stands on.                       *)
LEMMA WorkerKeepsRuns ==
    ASSUME IInv, TicketMove, turn' = turn, runs' \subseteq runs,
           \A r \in runs : ticket[r.key[1]].status = "verified" => r \in runs'
    PROVE  TicketsOK' /\ RunsOK' /\ SeenOK'
<1>1. \A t \in Tickets : Plain(ticket[t], ticket'[t])
  BY DEF TicketMove
<1>2. TicketsOK'
  BY <1>1 DEF TicketMove, Plain, TicketsOK
<1>3. RunsOK'
  BY <1>1 DEF IInv, RunsOK, Plain, Settled
<1>4. SeenOK'
  BY SeenStays DEF SeenOK
<1> QED BY <1>2, <1>3, <1>4

----------------------------------------------------------------------------
(* The turns, the children and the clock *)

LEMMA TurnKeepsIInv ==
    ASSUME IInv,
           \/ Begin \/ StartExecuting \/ Guard \/ SaveSession
           \/ \E S \in SUBSET Children : Reserve(S)
           \/ \E direct \in BOOLEAN : FinishTools(direct)
           \/ CapturePending \/ CaptureCancelled
           \/ CaptureReceipts \/ ReduceEffects \/ ApplyCapture
           \/ ScheduleReview \/ Unbind \/ TurnRaises \/ TurnCrash
    PROVE  IInv'
<1> USE DEF IInv, Seeing
<1>1. /\ turn \in TurnRecord /\ Root \in Tickets
      /\ ticket[Root] \in TicketRow /\ Documented(ticket[Root])
      /\ turn.pc = "schedule" => turn.seen # {}
  BY Keys DEF TurnOK, TicketsOK
<1>2. NoTurn \in TurnRecord /\ NoTurn.pc = "idle"
  BY DEF NoTurn, TurnRecord, TurnPc
<1>3. ASSUME NEW pc \in TurnPc \ Seeing, TurnGoto(pc)
      PROVE  turn' \in TurnRecord /\ turn'.pc \notin Seeing
  BY <1>1, <1>3 DEF TurnGoto, TurnRecord
<1>4. EndTurn => turn' \in TurnRecord /\ turn'.pc \notin Seeing
  BY <1>1, <1>2 DEF EndTurn, TurnRecord, NoTurn
<1>5. SUFFICES /\ TicketMove /\ JobsOK' /\ TurnOK' /\ UNCHANGED <<wk, runs>>
               /\ \/ SeenOK' \/ turn'.pc \notin Seeing
                  \/ turn.pc \in Seeing /\ turn'.seen = turn.seen
  BY OthersKeepWork, SeenStays
<1>6. CASE Begin
  <2>1. TicketMove
    <3>1. CASE ticket[Root].status = "absent"
      <4>1. SetStatus(Root, "captured") /\ "captured" \in Status
        BY <1>6, <3>1 DEF Begin, SetStatus, Status
      <4> QED BY <1>1, <4>1, StatusMove DEF Settled
    <3> QED BY <1>6, <3>1, SameTickets DEF Begin
  <2>2. turn.n + 1 \in Nat
    <3>1. turn.n \in Nat
      BY <1>1 DEF TurnRecord
    <3> QED BY <3>1
  <2>3. turn' \in TurnRecord /\ turn'.pc \notin Seeing
    BY <1>2, <1>6, <2>2 DEF Begin, TurnRecord, NoTurn, TurnPc
  <2> QED BY <1>6, <2>1, <2>3 DEF Begin, JobsOK, TurnOK
<1>7. CASE StartExecuting
  <2>1. SetStatus(Root, "executing") /\ "executing" \in Status
    BY <1>7 DEF StartExecuting, Transition, Status
  <2>2. TicketMove
    BY <1>1, <2>1, StatusMove DEF Settled
  <2>3. turn' \in TurnRecord /\ turn'.pc \notin Seeing
    BY <1>3, <1>7 DEF StartExecuting, TurnPc
  <2> QED BY <1>7, <2>2, <2>3 DEF StartExecuting, JobsOK, TurnOK
<1>8. CASE Guard
  <2>1. turn' \in TurnRecord /\ turn'.pc \notin Seeing
    BY <1>3, <1>8 DEF Guard, TurnPc
  <2>2. JobsOK'
    BY <1>8, OneAlarm DEF Guard, JobsOK
  <2> QED BY <1>8, <2>1, <2>2, SameTickets DEF Guard, TurnOK
<1>9. CASE SaveSession
  <2>1. turn' \in TurnRecord /\ turn'.pc \notin Seeing
    BY <1>3, <1>9 DEF SaveSession, TurnPc
  <2> QED BY <1>9, <2>1, SameTickets DEF SaveSession, TurnOK, JobsOK
<1>10. CASE \E S \in SUBSET Children : Reserve(S)
  <2>1. PICK S \in SUBSET Children : Reserve(S)
    BY <1>10
  <2>2. TicketMove
    BY <1>1, <2>1, Keys, ManifestMove DEF Reserve
  <2> QED BY <2>1, <2>2 DEF Reserve, JobsOK, TurnOK
<1>11. CASE \E direct \in BOOLEAN : FinishTools(direct)
  <2>1. PICK direct \in BOOLEAN : FinishTools(direct)
    BY <1>11
  <2>2. turn' \in TurnRecord /\ turn'.pc \notin Seeing
    BY <1>1, <2>1 DEF FinishTools, TurnRecord, TurnPc
  <2> QED BY <2>1, <2>2, SameTickets DEF FinishTools, JobsOK, TurnOK
<1>12. CASE CapturePending
  <2>1. SetStatus(Root, "waiting_clarification")
        /\ "waiting_clarification" \in Status
    BY <1>12 DEF CapturePending, Transition, Status
  <2>2. TicketMove
    BY <1>1, <2>1, StatusMove DEF Settled
  <2> QED BY <1>4, <1>12, <2>2 DEF CapturePending, JobsOK, TurnOK
<1>13. CASE CaptureCancelled
  <2>1. SetStatus(Root, "cancelled") /\ "cancelled" \in Status
    BY <1>13 DEF CaptureCancelled, Transition, Status
  <2>2. TicketMove
    BY <1>1, <2>1, StatusMove DEF Settled
  <2>3. turn' \in TurnRecord /\ turn'.pc \notin Seeing
    BY <1>3, <1>13 DEF CaptureCancelled, TurnPc
  <2> QED BY <1>13, <2>2, <2>3 DEF CaptureCancelled, JobsOK, TurnOK
<1>14. CASE CaptureReceipts
  <2> DEFINE more == IF turn.direct THEN {Direct} ELSE {}
             known == ticket[Root].receipts \cup more
  <2>1. more \in SUBSET Effects /\ known \in SUBSET Effects
    BY <1>1, Keys DEF TicketRow
  <2>2. /\ ticket' = [ticket EXCEPT ![Root] =
                         [ticket[Root] EXCEPT !.receipts = known]]
        /\ turn' = [turn EXCEPT !.pc = "reduce", !.seen = known]
    BY <1>14 DEF CaptureReceipts, Receipts
  <2> HIDE DEF more
  <2>3. TicketMove
    BY <1>1, <2>1, <2>2, ReceiptsRow, OneTicket
  <2>4. ticket'[Root].receipts = known
    BY <1>1, <2>2 DEF TicketsOK, TicketRow
  <2> HIDE DEF known
  <2>5. turn' \in TurnRecord /\ turn'.pc = "reduce" /\ turn'.seen = known
    BY <1>1, <2>1, <2>2 DEF TurnRecord, TurnPc
  <2> QED BY <1>14, <2>3, <2>4, <2>5 DEF CaptureReceipts, JobsOK, TurnOK, SeenOK
<1>15. CASE ReduceEffects
  <2>1. Reduced(Root) \in {"no_manifest", "queued", "completed", "failed",
                           "partial"}
    BY DEF Reduced
  <2>2. turn' \in TurnRecord /\ turn'.pc = "apply" /\ turn'.seen = turn.seen
    BY <1>1, <1>15, <2>1 DEF ReduceEffects, TurnRecord, TurnPc
  <2> QED BY <1>15, <2>2, SameTickets DEF ReduceEffects, JobsOK, TurnOK
<1>16. CASE ApplyCapture
  <2>1. CASE Captured = "executing"
    <3>1. /\ turn.seen # {} /\ turn.seen \in SUBSET Effects
          /\ turn.seen \subseteq ticket[Root].receipts
      BY <1>1, <1>16, <2>1 DEF Captured, TurnRecord, ApplyCapture, SeenOK
    <3>2. ticket' = [ticket EXCEPT ![Root].status = "executing",
                                   ![Root].rev = turn.seen]
      BY <1>16, <2>1 DEF ApplyCapture, TransitionRev
    <3>3. TicketMove
      BY <1>1, <3>1, <3>2, RevisionMove
    <3>4. turn' = [turn EXCEPT !.pc = "schedule"]
      BY <1>16, <2>1 DEF ApplyCapture, TurnGoto
    <3>5. turn' \in TurnRecord /\ turn'.seen # {} /\ turn'.seen = turn.seen
      BY <1>1, <3>1, <3>4 DEF TurnRecord, TurnPc
    <3> QED BY <1>16, <3>3, <3>5 DEF ApplyCapture, JobsOK, TurnOK
  <2>2. CASE Captured # "executing"
    <3>1. SetStatus(Root, Captured) /\ TurnGoto("unbind")
      BY <1>16, <2>2 DEF ApplyCapture, Transition
    <3>2. Captured \in {"reconciliation_required", "escalated", "unverifiable"}
      BY <2>2 DEF Captured
    <3>3. TicketMove
      BY <1>1, <3>1, <3>2, StatusMove DEF Settled, Status
    <3>4. turn' \in TurnRecord /\ turn'.pc \notin Seeing
      BY <1>3, <3>1 DEF TurnPc
    <3> QED BY <1>16, <3>3, <3>4 DEF ApplyCapture, JobsOK, TurnOK
  <2> QED BY <2>1, <2>2
<1>17. CASE ScheduleReview
  <2>1. /\ turn.seen \in SUBSET Effects /\ turn.seen # {}
        /\ turn.seen \subseteq ticket[Root].receipts
    BY <1>1, <1>17 DEF ScheduleReview, TurnRecord, SeenOK
  <2>2. ticket' = [ticket EXCEPT ![Root].status = "verification_pending",
                                 ![Root].rev = turn.seen]
    BY <1>17 DEF ScheduleReview, Schedule
  <2>3. TicketMove
    BY <1>1, <2>1, <2>2, RevisionMove
  <2>4. JobsOK'
    BY <1>17, OneReview DEF ScheduleReview, Schedule, JobsOK
  <2>5. turn' \in TurnRecord /\ turn'.pc \notin Seeing
    BY <1>3, <1>17 DEF ScheduleReview, TurnPc
  <2> QED BY <1>17, <2>3, <2>4, <2>5 DEF ScheduleReview, TurnOK
<1>18. CASE Unbind
  BY <1>4, <1>18, SameTickets DEF Unbind, JobsOK, TurnOK
<1>19. CASE TurnRaises
  BY <1>4, <1>19, SameTickets DEF TurnRaises, JobsOK, TurnOK
<1>20. CASE TurnCrash
  BY <1>4, <1>20, SameTickets DEF TurnCrash, JobsOK, TurnOK
<1> QED BY <1>6, <1>7, <1>8, <1>9, <1>10, <1>11, <1>12, <1>13, <1>14, <1>15,
           <1>16, <1>17, <1>18, <1>19, <1>20

LEMMA ChildKeepsIInv ==
    ASSUME IInv, NEW c \in Children, NEW s \in {"verified", "failed"},
           ChildEnds(c, s)
    PROVE  IInv'
<1> USE DEF IInv
<1>1. TicketMove
  BY Keys, OutcomeMove DEF ChildEnds
<1>2. JobsOK'
  BY OneAlarm DEF ChildEnds, RecordChild, JobsOK
<1>3. TurnOK' /\ SeenOK'
  BY <1>1, SeenStays DEF ChildEnds, TurnOK, SeenOK
<1> QED BY <1>1, <1>2, <1>3, OthersKeepWork DEF ChildEnds

LEMMA ClockKeepsIInv ==
    ASSUME IInv,
           \/ \E a \in Alarms : WatchDue(a)
           \/ \E k \in Reviews : ReviewDue(k)
           \/ Lapse \/ PollNothing
    PROVE  IInv'
<1> USE DEF IInv
<1>1. UNCHANGED <<ticket, runs, turn, bound, wk, crashes>>
  BY DEF WatchDue, ReviewDue, Lapse, PollNothing
<1>2. ASSUME NEW r \in Row, r.status # "absent"
      PROVE  Sound([r EXCEPT !.due = TRUE]) /\ Sound([r EXCEPT !.expired = TRUE])
  BY <1>2 DEF Sound, Row
<1>3. JobsOK'
  <2>1. CASE \E a \in Alarms : WatchDue(a)
    <3>1. PICK a \in Alarms : WatchDue(a)
      BY <2>1
    <3>2. Sound([watch[a] EXCEPT !.due = TRUE])
      BY <1>2, <3>1 DEF WatchDue, Waiting, JobsOK
    <3>3. watch' = [watch EXCEPT ![a] = [watch[a] EXCEPT !.due = TRUE]]
      BY <3>1 DEF WatchDue
    <3> QED BY <3>1, <3>2, <3>3 DEF WatchDue, JobsOK, Sound
  <2>2. CASE \E k \in Reviews : ReviewDue(k)
    <3>1. PICK k \in Reviews : ReviewDue(k)
      BY <2>2
    <3>2. Sound([review[k] EXCEPT !.due = TRUE])
      BY <1>2, <3>1 DEF ReviewDue, Waiting, JobsOK
    <3>3. review' = [review EXCEPT ![k] = [review[k] EXCEPT !.due = TRUE]]
      BY <3>1 DEF ReviewDue
    <3> QED BY <3>1, <3>2, <3>3 DEF ReviewDue, JobsOK, Sound
  <2>3. CASE Lapse
    <3>1. CASE \E a \in Alarms :
                   /\ watch[a].status = "running"
                   /\ watch' = [watch EXCEPT ![a].expired = TRUE]
                   /\ UNCHANGED review
      <4>1. PICK a \in Alarms :
                   /\ watch[a].status = "running"
                   /\ watch' = [watch EXCEPT ![a].expired = TRUE]
                   /\ UNCHANGED review
        BY <3>1
      <4>2. Sound([watch[a] EXCEPT !.expired = TRUE])
        BY <1>2, <4>1 DEF JobsOK
      <4>3. watch' = [watch EXCEPT ![a] = [watch[a] EXCEPT !.expired = TRUE]]
        BY <4>1
      <4> QED BY <4>1, <4>2, <4>3 DEF JobsOK, Sound
    <3>2. CASE \E k \in Reviews :
                   /\ review[k].status = "running"
                   /\ review' = [review EXCEPT ![k].expired = TRUE]
                   /\ UNCHANGED watch
      <4>1. PICK k \in Reviews :
                   /\ review[k].status = "running"
                   /\ review' = [review EXCEPT ![k].expired = TRUE]
                   /\ UNCHANGED watch
        BY <3>2
      <4>2. Sound([review[k] EXCEPT !.expired = TRUE])
        BY <1>2, <4>1 DEF JobsOK
      <4>3. review' = [review EXCEPT ![k] = [review[k] EXCEPT !.expired = TRUE]]
        BY <4>1
      <4> QED BY <4>1, <4>2, <4>3 DEF JobsOK, Sound
    <3> QED BY <2>3, <3>1, <3>2 DEF Lapse
  <2>4. CASE PollNothing
    BY <2>4, SweptTables DEF PollNothing, JobsOK
  <2> QED BY <2>1, <2>2, <2>3, <2>4
<1>4. TicketMove /\ SeenOK'
  BY <1>1, SameTickets, SeenStays DEF SeenOK
<1> QED BY <1>1, <1>3, <1>4, OthersKeepWork DEF TurnOK

----------------------------------------------------------------------------
(* The worker *)

LEMMA Goto ==
    ASSUME WkOK, NEW pc \in WkPc, WkGoto(pc)
    PROVE  /\ wk' \in WkRecord /\ wk'.pc = pc /\ wk'.alarm = wk.alarm
           /\ wk'.key = wk.key /\ wk'.plan = wk.plan /\ wk'.rev = wk.rev
BY DEF WkOK, WkRecord, WkGoto

LEMMA Idle == IdleWk \in WkRecord /\ IdleWk.pc = "idle"
BY DEF IdleWk, WkRecord, WkPc, Plans

(* It is done with the job. *)
LEMMA Stops ==
    ASSUME IInv, TicketMove, UNCHANGED <<runs, turn>>, wk' = IdleWk
    PROVE  TicketsOK' /\ SeenOK' /\ WkOK' /\ WorkOK' /\ RunsOK'
BY Idle, WorkerKeepsRuns DEF WkOK, WorkOK, Watching, Reviewing

(* It goes on with its review, without a verdict. *)
LEMMA GoesOn ==
    ASSUME IInv, TicketMove, turn' = turn, wk.pc \in Reviewing,
           runs' \subseteq runs,
           \A r \in runs : ticket[r.key[1]].status = "verified" => r \in runs',
           NEW pc \in (Reviewing \ {"conclude"}) \cup {"close"}, WkGoto(pc)
    PROVE  TicketsOK' /\ SeenOK' /\ WkOK' /\ WorkOK' /\ RunsOK'
<1> USE DEF IInv
<1>1. pc \in WkPc
  BY DEF Reviewing, WkPc
<1>2. wk' \in WkRecord /\ wk'.pc = pc /\ wk'.key = wk.key
  BY <1>1, Goto
<1>3. wk.key \in Reviews /\ wk.key[1] \in Tickets
  BY Keys DEF WkOK
<1>4. WkOK'
  BY <1>2, <1>3 DEF WkOK, Reviewing, Watching
<1>5. /\ ticket[Reviewed].rev # {} /\ ticket[Reviewed].status \notin Settled
      /\ wk.key[2] # {} /\ wk.key[2] \subseteq ticket[Reviewed].receipts
  BY DEF WorkOK
<1>6. Plain(ticket[Reviewed], ticket'[Reviewed])
  BY <1>3 DEF TicketMove, Reviewed
<1>7. WorkOK'
  BY <1>2, <1>5, <1>6 DEF WorkOK, Reviewed, Plain, Reviewing
<1> QED BY <1>4, <1>7, WorkerKeepsRuns

LEMMA TryMove ==
    ASSUME TicketsOK, NEW t \in Tickets, NEW s \in Status \ Settled,
           s \in {"verification_pending", "verifying"} => ticket[t].rev # {},
           NEW next, NEW caught, Try(t, s, next, caught)
    PROVE  TicketMove /\ (WkGoto(next) \/ WkGoto(caught))
BY StatusMove, SameTickets DEF Try

(* Only a live execution is the watchdog's business, and it sends to the   *)
(* review what has receipts.                                               *)
LEMMA Findings ==
    ASSUME TicketsOK, NEW t \in Tickets
    PROVE  /\ Finding(t) \in {"clear", "verify", "escalated",
                              "reconciliation_required"}
           /\ Finding(t) # "clear" => ticket[t].status \notin Settled
           /\ Finding(t) = "verify" => Receipts(t) # {}
<1>1. ticket[t] \in TicketRow /\ Documented(ticket[t])
  BY DEF TicketsOK
<1>2. Reduced(t) = "completed" => Receipts(t) # {}
  <2> SUFFICES ASSUME Reduced(t) = "completed"
               PROVE  Receipts(t) # {}
    OBVIOUS
  <2> DEFINE promised == ticket[t].manifest
             got == {c \in promised : Outcome(t, c) = "verified"}
  <2>1. promised # {} /\ got = promised
    BY DEF Reduced
  <2>2. PICK c \in promised : Outcome(t, c) = "verified"
    BY <2>1
  <2>3. c \in Effects
    BY <1>1, <2>2 DEF TicketRow
  <2> QED BY <1>1, <2>2, <2>3 DEF Documented, Outcome, Receipts
<1>3. Finding(t) # "clear" =>
          ticket[t].status \in {"captured", "executing",
                                "reconciliation_required"}
  BY DEF Finding
<1>4. Reduced(t) \in {"no_manifest", "queued", "completed", "failed",
                      "partial"}
  BY DEF Reduced
<1> QED BY <1>2, <1>3, <1>4 DEF Finding, Settled

LEMMA WatchKeepsIInv ==
    ASSUME IInv,
           \/ \E a \in Alarms : ClaimWatch(a)
           \/ Look \/ Act \/ WatchSchedules \/ ClearWatch
    PROVE  IInv'
<1> USE DEF IInv
<1>1. runs' = runs /\ turn' = turn /\ TurnOK'
  BY DEF ClaimWatch, Look, Act, WatchSchedules, ClearWatch, TurnOK
<1>2. SUFFICES TicketMove /\ JobsOK' /\ WkOK' /\ WorkOK'
  BY <1>1, WorkerKeepsRuns
<1>3. wk \in WkRecord /\ Alarmed \in Tickets
  BY Keys DEF WkOK, Alarmed
<1>4. CASE \E a \in Alarms : ClaimWatch(a)
  <2>1. PICK a \in Alarms : ClaimWatch(a)
    BY <1>4
  <2>2. TicketMove
    BY <2>1, SameTickets DEF ClaimWatch
  <2>3. JobsOK'
    <3>1. Sound(Claimed(SweptWatch[a], Reviewer))
      BY SweptTables, ReviewerWorks, ClaimedAdvances
    <3>2. watch' = [SweptWatch EXCEPT ![a] = Claimed(SweptWatch[a], Reviewer)]
      BY <2>1 DEF ClaimWatch
    <3> QED BY <2>1, <3>1, <3>2, SweptTables DEF ClaimWatch, JobsOK, Sound
  <2>4. wk' \in WkRecord /\ wk'.pc = "look" /\ wk'.alarm = a
    BY <2>1, Idle DEF ClaimWatch, IdleWk, WkRecord, WkPc
  <2> QED BY <2>2, <2>3, <2>4 DEF WkOK, WorkOK, Watching, Reviewing
<1>5. CASE Look
  <2>1. TicketMove /\ JobsOK' /\ ticket' = ticket
    BY <1>5, SameTickets DEF Look, JobsOK
  <2> DEFINE f == Finding(Alarmed)
             rev == Receipts(Alarmed)
             pc == IF f = "clear" THEN "clear" ELSE "act"
  <2>2. /\ f \in {"clear", "verify", "escalated", "reconciliation_required"}
        /\ f # "clear" => ticket[Alarmed].status \notin Settled
        /\ f = "verify" => rev # {}
    BY <1>3, Findings
  <2>3. f \in Plans /\ rev \in SUBSET Effects /\ pc \in WkPc
    BY <1>3, <2>2 DEF Plans, Status, Receipts, TicketsOK, TicketRow, WkPc
  <2>4. wk' = [wk EXCEPT !.plan = f, !.rev = rev, !.pc = pc]
    BY <1>5 DEF Look
  <2> HIDE DEF f, rev
  <2>5. /\ wk' \in WkRecord /\ wk'.pc = pc /\ wk'.plan = f /\ wk'.rev = rev
        /\ wk'.alarm = wk.alarm
    BY <1>3, <2>3, <2>4 DEF WkRecord
  <2>6. wk.alarm \in Alarms
    BY <1>5 DEF WkOK, Look, Watching
  <2>7. WkOK'
    BY <2>2, <2>5, <2>6 DEF WkOK, Watching, Reviewing
  <2>8. WorkOK'
    BY <2>1, <2>2, <2>5 DEF WorkOK, Reviewing, Alarmed, rev, Receipts
  <2> QED BY <2>1, <2>7, <2>8
<1>6. CASE Act
  <2>1. /\ wk.pc = "act" /\ wk.alarm \in Alarms
        /\ wk.plan \in {"verify", "escalated", "reconciliation_required"}
        /\ wk.plan = "verify" => wk.rev # {} /\ wk.rev \in SUBSET Effects
        /\ ticket[Alarmed].status \notin Settled
        /\ wk.rev \subseteq ticket[Alarmed].receipts
    BY <1>3, <1>6 DEF Act, WkOK, WorkOK, Watching, WkRecord
  <2>2. JobsOK'
    BY <1>6 DEF Act, JobsOK
  <2>3. CASE wk.plan = "verify"
    <3>1. /\ ticket' = [ticket EXCEPT ![Alarmed].status = "executing",
                                      ![Alarmed].rev = wk.rev]
          /\ WkGoto("schedule")
      BY <1>6, <2>3 DEF Act, TransitionRev
    <3>2. TicketMove
      BY <1>3, <2>1, <2>3, <3>1, RevisionMove
    <3>3. /\ wk' \in WkRecord /\ wk'.pc = "schedule" /\ wk'.alarm = wk.alarm
          /\ wk'.rev = wk.rev
      BY <3>1, Goto DEF WkPc
    <3>4. /\ ticket'[Alarmed].status \notin Settled
          /\ wk.rev \subseteq ticket'[Alarmed].receipts
      BY <1>3, <2>1, <3>2 DEF TicketMove, Plain
    <3> QED BY <2>1, <2>2, <2>3, <3>2, <3>3, <3>4
            DEF WkOK, WorkOK, Watching, Reviewing, Alarmed
  <2>4. CASE wk.plan # "verify"
    <3>1. SetStatus(Alarmed, wk.plan) /\ WkGoto("clear")
      BY <1>6, <2>4 DEF Act, Transition
    <3>2. TicketMove
      BY <1>3, <2>1, <2>4, <3>1, StatusMove DEF Settled, Status
    <3>3. wk' \in WkRecord /\ wk'.pc = "clear" /\ wk'.alarm = wk.alarm
      BY <3>1, Goto DEF WkPc
    <3> QED BY <2>1, <2>2, <3>2, <3>3 DEF WkOK, WorkOK, Watching, Reviewing
  <2> QED BY <2>3, <2>4
<1>7. CASE WatchSchedules
  <2>1. /\ wk.alarm \in Alarms /\ wk.rev # {} /\ wk.rev \in SUBSET Effects
        /\ wk.rev \subseteq ticket[Alarmed].receipts /\ WkGoto("clear")
    BY <1>3, <1>7 DEF WatchSchedules, WkOK, WorkOK, Watching, WkRecord
  <2>2. TicketMove
    BY <1>3, <1>7, <2>1, RevisionMove DEF WatchSchedules, Schedule
  <2>3. JobsOK'
    BY <1>7, OneReview DEF WatchSchedules, Schedule, JobsOK
  <2>4. wk' \in WkRecord /\ wk'.pc = "clear" /\ wk'.alarm = wk.alarm
    BY <2>1, Goto DEF WkPc
  <2> QED BY <2>1, <2>2, <2>3, <2>4 DEF WkOK, WorkOK, Watching, Reviewing
<1>8. CASE ClearWatch
  <2>1. TicketMove
    BY <1>8, SameTickets DEF ClearWatch
  <2>2. JobsOK'
    <3>1. \A a \in Alarms : Sound(Completed(watch[a]))
      <4>1. 1 \in Nat /\ TRUE \in BOOLEAN
        OBVIOUS
      <4> QED BY <4>1, SettledIsSteady DEF JobsOK, Steady
    <3>2. \A a \in Alarms : watch'[a] \in {watch[a], Completed(watch[a])}
      BY <1>8 DEF ClearWatch, JobsOK
    <3>3. \A a \in Alarms : Sound(watch'[a])
      BY <3>1, <3>2 DEF JobsOK
    <3> QED BY <1>8, <3>3 DEF ClearWatch, JobsOK, Sound
  <2> QED BY <1>1, <1>8, <2>1, <2>2, Stops DEF ClearWatch
<1> QED BY <1>4, <1>5, <1>6, <1>7, <1>8

LEMMA UnderReview ==
    ASSUME IInv, wk.pc \in Reviewing
    PROVE  /\ wk.key \in Reviews /\ Reviewed \in Tickets
           /\ ticket[Reviewed] \in TicketRow /\ Documented(ticket[Reviewed])
           /\ ticket[Reviewed].rev # {} /\ ticket[Reviewed].status \notin Settled
           /\ wk.key[2] # {} /\ wk.key[2] \subseteq ticket[Reviewed].receipts
BY Keys DEF IInv, WkOK, WorkOK, TicketsOK, Reviewed

(* process_job: the review runs against the revision it was asked for, and *)
(* the verdict comes after the run is recorded.                            *)
LEMMA ReviewKeepsIInv ==
    ASSUME IInv,
           \/ \E k \in Reviews : ClaimReview(k)
           \/ Open \/ MarkVerifying \/ ReviewFails \/ Conclude
           \/ \E v \in Verdicts(Root) \cup Verdicts(Repair) : Judge(v)
    PROVE  IInv'
<1> USE DEF IInv
<1>1. turn' = turn /\ TurnOK'
  BY DEF ClaimReview, Open, MarkVerifying, ReviewFails, Conclude, Judge, TurnOK
<1>2. wk \in WkRecord
  BY DEF WkOK
<1>3. CASE \E k \in Reviews : ClaimReview(k)
  <2>1. PICK k \in Reviews : ClaimReview(k)
    BY <1>3
  <2>2. TicketMove
    BY <2>1, SameTickets DEF ClaimReview
  <2>3. JobsOK'
    <3>1. Sound(Claimed(SweptReview[k], Reviewer))
      BY SweptTables, ReviewerWorks, ClaimedAdvances
    <3>2. review' = [SweptReview EXCEPT ![k] = Claimed(SweptReview[k], Reviewer)]
      BY <2>1 DEF ClaimReview
    <3> QED BY <2>1, <3>1, <3>2, SweptTables DEF ClaimReview, JobsOK, Sound
  <2>4. wk' \in WkRecord /\ wk'.pc = "open" /\ wk'.key = k
    BY <2>1, Idle DEF ClaimReview, IdleWk, WkRecord, WkPc
  <2>5. WkOK' /\ WorkOK'
    BY <2>4 DEF WkOK, WorkOK, Watching, Reviewing
  <2> QED BY <1>1, <2>1, <2>2, <2>3, <2>5, WorkerKeepsRuns DEF ClaimReview
<1>4. CASE Open
  <2>1. TicketMove /\ JobsOK' /\ ticket' = ticket /\ runs' = runs
    BY <1>4, SameTickets DEF Open, JobsOK
  <2>2. wk.key \in Reviews /\ Reviewed \in Tickets
    BY <1>4, Keys DEF Open, WkOK, Reviewed
  <2>3. Documented(ticket[Reviewed])
    BY <2>2 DEF TicketsOK
  <2>4. WkOK' /\ WorkOK'
    <3>1. CASE Reviewable
      <4>1. wk' \in WkRecord /\ wk'.pc = "verifying" /\ wk'.key = wk.key
        BY <1>4, <3>1, Goto DEF Open, WkPc
      <4>2. /\ ticket[Reviewed].rev # {} /\ ticket[Reviewed].status \notin Settled
            /\ wk.key[2] = ticket[Reviewed].rev
            /\ wk.key[2] \subseteq ticket[Reviewed].receipts
        BY <2>3, <3>1 DEF Reviewable, Documented, Settled
      <4> QED BY <2>1, <2>2, <4>1, <4>2
              DEF WkOK, WorkOK, Watching, Reviewing, Reviewed
    <3>2. CASE ~Reviewable
      <4>1. wk' \in WkRecord /\ wk'.pc = "close" /\ wk'.key = wk.key
        BY <1>4, <3>2, Goto DEF Open, WkPc
      <4> QED BY <2>2, <4>1 DEF WkOK, WorkOK, Watching, Reviewing
    <3> QED BY <3>1, <3>2
  <2> QED BY <1>1, <2>1, <2>4, WorkerKeepsRuns
<1>5. CASE MarkVerifying
  <2>1. wk.pc \in Reviewing
    BY <1>5 DEF MarkVerifying, Reviewing
  <2>2. TicketMove /\ (WkGoto("judge") \/ WkGoto("retry"))
    BY <1>5, <2>1, UnderReview, TryMove DEF MarkVerifying, Status, Settled
  <2> QED BY <1>1, <1>5, <2>1, <2>2, GoesOn DEF MarkVerifying, JobsOK, Reviewing
<1>6. CASE ReviewFails
  BY <1>1, <1>6, SameTickets, GoesOn DEF ReviewFails, JobsOK, Reviewing
<1>7. CASE \E v \in Verdicts(Root) \cup Verdicts(Repair) : Judge(v)
  <2>1. PICK v \in Verdicts(Root) \cup Verdicts(Repair) : Judge(v)
    BY <1>7
  <2> DEFINE pc == IF v = "repair" THEN "repair" ELSE "conclude"
             run == [key |-> wk.key, attempt |-> Attempt,
                     seen |-> ticket[Reviewed].receipts]
  <2>2. wk.pc \in Reviewing
    BY <2>1 DEF Judge, Reviewing
  <2>3. TicketMove /\ JobsOK' /\ ticket' = ticket
    BY <2>1, SameTickets DEF Judge, JobsOK
  <2>4. /\ wk' = [wk EXCEPT !.plan = v, !.pc = pc]
        /\ runs' = runs \cup {run}
    BY <2>1 DEF Judge, Receipts
  <2>5. v \in Plans /\ pc \in WkPc /\ pc \in {"repair", "conclude"}
    BY DEF Verdicts, Plans, Status, WkPc
  <2> HIDE DEF pc
  <2>6. wk' \in WkRecord /\ wk'.pc = pc /\ wk'.key = wk.key
    BY <1>2, <2>4, <2>5 DEF WkRecord
  <2>7. /\ run \in RunRecord /\ run.key = wk.key
        /\ run.key[2] # {} /\ run.key[2] \subseteq run.seen
    BY <2>2, UnderReview DEF RunRecord, TicketRow, Attempt, JobsOK, Row
  <2> HIDE DEF run
  <2>8. WkOK'
    BY <2>2, <2>5, <2>6, UnderReview DEF WkOK, Watching, Reviewing
  <2>9. WorkOK'
    BY <2>2, <2>3, <2>4, <2>5, <2>6, <2>7, UnderReview
    DEF WorkOK, Reviewing, Reviewed
  <2>10. RunsOK'
    BY <2>3, <2>4, <2>7 DEF RunsOK
  <2>11. TicketsOK' /\ SeenOK'
    BY <1>1, <2>3 DEF TicketsOK, SeenOK
  <2> QED BY <1>1, <2>3, <2>8, <2>9, <2>10, <2>11
<1>8. CASE Conclude
  <2>1. wk.pc \in Reviewing /\ wk.pc = "conclude"
    BY <1>8 DEF Conclude, Reviewing
  <2>2. JobsOK' /\ runs' = runs
    BY <1>8 DEF Conclude, JobsOK
  <2>3. CASE CanMove(Reviewed, wk.plan)
    <3>1. SetStatus(Reviewed, wk.plan) /\ WkGoto("close")
      BY <1>8, <2>3 DEF Conclude, Try
    <3>2. wk' \in WkRecord /\ wk'.pc = "close" /\ wk'.key = wk.key
      BY <3>1, Goto DEF WkPc
    <3>3. WkOK' /\ WorkOK'
      BY <2>1, <3>2, UnderReview DEF WkOK, WorkOK, Watching, Reviewing
    <3> DEFINE q == [ticket[Reviewed] EXCEPT !.status = wk.plan]
    <3>4. wk.plan \in Status
      BY <2>1, <2>3, UnderReview, AllowedStatuses DEF CanMove, TicketRow
    <3>5. /\ q \in TicketRow /\ Documented(q)
          /\ q.receipts = ticket[Reviewed].receipts
      BY <2>1, <3>4, UnderReview, StatusRow
    <3>6. ticket' = [ticket EXCEPT ![Reviewed] = q]
      BY <3>1 DEF SetStatus
    <3> HIDE DEF q
    <3>7. TicketsOK'
      BY <3>5, <3>6 DEF TicketsOK
    <3>8. RunsOK'
      BY <2>1, <2>2, <3>6 DEF RunsOK, WorkOK, TicketsOK
    <3>9. SeenOK'
      BY <1>1, <3>5, <3>6, Keys DEF SeenOK, TicketsOK
    <3> QED BY <1>1, <2>2, <3>3, <3>7, <3>8, <3>9
  <2>4. CASE ~CanMove(Reviewed, wk.plan)
    <3>1. TicketMove /\ WkGoto("excuse")
      BY <1>8, <2>4, SameTickets DEF Conclude, Try
    <3> QED BY <1>1, <2>1, <2>2, <3>1, GoesOn DEF Reviewing
  <2> QED BY <2>3, <2>4
<1> QED BY <1>3, <1>4, <1>5, <1>6, <1>7, <1>8

(* A run that fails is of a ticket without a verdict. *)
LEMMA FailedRuns ==
    ASSUME IInv, Excuse
    PROVE  /\ runs' \subseteq runs
           /\ \A r \in runs : ticket[r.key[1]].status = "verified" => r \in runs'
<1>1. ticket[Reviewed].status # "verified"
  BY UnderReview DEF Excuse, Reviewing, Settled
<1> QED BY <1>1 DEF Excuse, Reviewed

(* Where a review ends, with its ticket or without it. *)
LEMMA EndingKeepsIInv ==
    ASSUME IInv,
           \/ Excuse \/ RetryReview \/ Escalate \/ CloseReview
           \/ WorkerRaises \/ WorkerCrash
    PROVE  IInv'
<1> USE DEF IInv
<1>1. UNCHANGED <<turn, bound>> /\ TurnOK'
  <2>1. UNCHANGED <<turn, bound>>
    BY DEF Excuse, RetryReview, Escalate, CloseReview, WorkerRaises, WorkerCrash
  <2>2. \/ crashes' = crashes
        \/ crashes' = [crashes EXCEPT !.worker = crashes.worker + 1]
    BY DEF Excuse, RetryReview, Escalate, CloseReview, WorkerRaises, WorkerCrash
  <2>3. crashes.worker + 1 \in Nat
    <3>1. crashes.worker \in Nat
      BY DEF TurnOK
    <3> QED BY <3>1
  <2> QED BY <2>1, <2>2, <2>3 DEF TurnOK
<1>2. CASE Excuse
  <2>1. wk.pc \in Reviewing
    BY <1>2 DEF Excuse, Reviewing
  <2>2. TicketMove
    BY <1>2, <2>1, UnderReview, StatusMove, SameTickets
    DEF Excuse, Status, Settled
  <2> QED BY <1>1, <1>2, <2>1, <2>2, FailedRuns, GoesOn
          DEF Excuse, JobsOK, Reviewing
<1>3. CASE RetryReview
  <2>1. wk.pc \in Reviewing
    BY <1>3 DEF RetryReview, Reviewing
  <2>2. TicketMove
    BY <1>3, SameTickets DEF RetryReview
  <2>3. JobsOK'
    <3>1. MaxAttempts \in Nat /\ FALSE \in BOOLEAN
      BY TicketBounds DEF TicketBounds
    <3>2. \A k \in Reviews : Sound(Retried(review[k], MaxAttempts, FALSE))
      BY <3>1, SettledIsSteady DEF JobsOK, Steady
    <3>3. \A k \in Reviews :
              review'[k] \in {review[k], Retried(review[k], MaxAttempts, FALSE)}
      BY <1>3 DEF RetryReview, JobsOK
    <3>4. \A k \in Reviews : Sound(review'[k])
      BY <3>2, <3>3 DEF JobsOK
    <3> QED BY <1>3, <3>4 DEF RetryReview, JobsOK, Sound
  <2>4. WkGoto("escalate") \/ wk' = IdleWk
    BY <1>3 DEF RetryReview, WkGoto
  <2> QED BY <1>1, <1>3, <2>1, <2>2, <2>3, <2>4, GoesOn, Stops
          DEF RetryReview, Reviewing
<1>4. CASE Escalate
  <2>1. TicketMove
    BY <1>4, UnderReview, StatusMove
    DEF Escalate, Transition, Status, Settled, Reviewing
  <2> QED BY <1>1, <1>4, <2>1, Stops DEF Escalate, JobsOK
<1>5. CASE CloseReview
  <2>1. JobsOK'
    <3>1. \A k \in Reviews : Sound(Completed(review[k]))
      <4>1. 1 \in Nat /\ TRUE \in BOOLEAN
        OBVIOUS
      <4> QED BY <4>1, SettledIsSteady DEF JobsOK, Steady
    <3>2. \A k \in Reviews : review'[k] \in {review[k], Completed(review[k])}
      BY <1>5 DEF CloseReview, JobsOK
    <3>3. \A k \in Reviews : Sound(review'[k])
      BY <3>1, <3>2 DEF JobsOK
    <3> QED BY <1>5, <3>3 DEF CloseReview, JobsOK, Sound
  <2> QED BY <1>1, <1>5, <2>1, SameTickets, Stops DEF CloseReview
<1>6. CASE WorkerRaises
  BY <1>1, <1>6, SameTickets, Stops DEF WorkerRaises, JobsOK
<1>7. CASE WorkerCrash
  BY <1>1, <1>7, SameTickets, Stops DEF WorkerCrash, JobsOK
<1> QED BY <1>2, <1>3, <1>4, <1>5, <1>6, <1>7

Remediation == CreateChild \/ StartChild \/ MarkParent \/ PromiseRepair
               \/ Dispatch \/ FailClosed

LEMMA RepairKeepsIInv ==
    ASSUME IInv, Remediation
    PROVE  IInv'
<1> USE DEF IInv, Remediation
<1>1. /\ UNCHANGED <<turn, runs, bound, crashes, review>> /\ TurnOK'
      /\ wk.pc \in Reviewing /\ Root \in Tickets /\ Repair \in Tickets
  BY Keys DEF CreateChild, StartChild, MarkParent, PromiseRepair, Dispatch,
              FailClosed, Repairing, TurnOK, Reviewing
<1>2. SUFFICES /\ TicketMove /\ JobsOK'
               /\ \E pc \in (Reviewing \ {"conclude"}) \cup {"close"} : WkGoto(pc)
  BY <1>1, GoesOn
<1>3. CASE CreateChild
  <2>1. TicketMove
    BY <1>1, <1>3, SameTickets, StatusMove
    DEF CreateChild, SetStatus, Status, Settled
  <2> QED BY <1>3, <2>1, <1>1 DEF CreateChild, Reviewing, JobsOK
<1>4. CASE StartChild
  <2>1. Try(Repair, "executing", "parent", "excuse")
    BY <1>4 DEF StartChild
  <2>2. TicketMove /\ (WkGoto("parent") \/ WkGoto("excuse"))
    BY <1>1, <2>1, TryMove DEF Status, Settled
  <2> QED BY <1>1, <1>4, <2>2 DEF StartChild, Reviewing, JobsOK
<1>5. CASE MarkParent
  <2>1. Try(Root, "remediation_queued", "promise", "excuse")
    BY <1>5 DEF MarkParent
  <2>2. TicketMove /\ (WkGoto("promise") \/ WkGoto("excuse"))
    BY <1>1, <2>1, TryMove DEF Status, Settled
  <2> QED BY <1>1, <1>5, <2>2 DEF MarkParent, Reviewing, JobsOK
<1>6. CASE PromiseRepair
  <2>1. TicketMove
    BY <1>1, <1>6, Keys, ManifestMove DEF PromiseRepair
  <2> QED BY <1>1, <1>6, <2>1 DEF PromiseRepair, Reviewing, JobsOK
<1>7. CASE Dispatch
  <2>1. TicketMove
    BY <1>1, <1>7, Keys, OutcomeMove, SameTickets DEF Dispatch
  <2>2. JobsOK'
    BY <1>1, <1>7, OneAlarm DEF Dispatch, RecordChild, JobsOK
  <2> QED BY <1>7, <2>1, <2>2 DEF Dispatch, Reviewing
<1>8. CASE FailClosed
  <2>1. Try(Repair, "reconciliation_required", "close", "excuse")
    BY <1>8 DEF FailClosed
  <2>2. TicketMove /\ (WkGoto("close") \/ WkGoto("excuse"))
    BY <1>1, <2>1, TryMove DEF Status, Settled
  <2> QED BY <1>1, <1>8, <2>2 DEF FailClosed, Reviewing, JobsOK
<1> QED BY <1>3, <1>4, <1>5, <1>6, <1>7, <1>8

----------------------------------------------------------------------------
(* The theorems *)

LEMMA InitIInv ==
    ASSUME Init
    PROVE  IInv
<1> USE DEF Init
<1>1. NewTicket \in TicketRow /\ Documented(NewTicket)
      /\ NewTicket.status = "absent"
  BY DEF NewTicket, TicketRow, Status, Outcomes, Documented
<1>2. TicketsOK
  BY <1>1 DEF TicketsOK
<1>3. AbsentRow \in Row /\ Sound(AbsentRow)
  BY DEF AbsentRow, Row, Statuses, Sound
<1>4. JobsOK
  BY <1>3 DEF JobsOK
<1>5. TurnOK /\ SeenOK
  BY DEF TurnOK, SeenOK, Seeing, NoTurn, TurnRecord, TurnPc
<1>6. WkOK /\ WorkOK
  BY Idle DEF WkOK, WorkOK, Watching, Reviewing
<1>7. RunsOK
  BY <1>1 DEF RunsOK
<1> QED BY <1>2, <1>4, <1>5, <1>6, <1>7 DEF IInv

LEMMA NextIInv ==
    ASSUME IInv, [Next]_vars
    PROVE  IInv'
<1>1. CASE Next
  BY <1>1, TurnKeepsIInv, ChildKeepsIInv, ClockKeepsIInv, WatchKeepsIInv,
     ReviewKeepsIInv, EndingKeepsIInv, RepairKeepsIInv
  DEF Next, Progress, TurnStep, WorkerStep, Remediation
<1>2. CASE UNCHANGED vars
  BY <1>2 DEF vars, IInv, TicketsOK, JobsOK, TurnOK, SeenOK, WkOK, WorkOK,
              RunsOK, Reviewed, Alarmed
<1> QED BY <1>1, <1>2

(* Tickets, receipts, jobs, the turn and the worker's statement fit        *)
(* together in every state.                                                *)
THEOREM Invariant == Spec => []IInv
<1>1. Init => IInv
  BY InitIInv
<1>2. IInv /\ [Next]_vars => IInv'
  BY NextIInv
<1> QED BY <1>1, <1>2, PTL DEF Spec

(* Every row of the ledger, the turn and the worker keep their types       *)
(* through every transition, schedule, sweep and crash.                    *)
THEOREM TypeCorrect == Spec => []TypeOK
<1>1. IInv => TypeOK
  BY DEF IInv, TypeOK, TicketsOK, TicketRow, JobsOK, RunsOK, RunRecord,
         TurnOK, TurnRecord, WkOK, WkRecord
<1> QED BY <1>1, Invariant, PTL

(* No ticket shows verified without evidence: it has a revision, all of it *)
(* receipts that were recorded, and a review of the ticket was asked about *)
(* something and saw all it was asked about.                               *)
Substantiated ==
    \A t \in Tickets : ticket[t].status = "verified" =>
        /\ ticket[t].rev # {} /\ ticket[t].rev \subseteq ticket[t].receipts
        /\ \E r \in runs : r.key[1] = t /\ r.key[2] # {}
                           /\ r.key[2] \subseteq r.seen

(* Only process_job gives verified, after the revision check and after     *)
(* save_review; what turns, watchdogs and repairs write meanwhile takes    *)
(* neither the revision nor a receipt away.                                *)
THEOREM VerdictsAreSubstantiated == Spec => []Substantiated
<1>1. IInv => Substantiated
  BY DEF IInv, TicketsOK, Documented, RunsOK, Substantiated
<1> QED BY <1>1, Invariant, PTL

----------------------------------------------------------------------------
(* Verdicts stay *)

Kept == \A t \in Tickets :
            ticket[t].status \in Settled => ticket'[t].status = ticket[t].status

LEMMA OpenTicketWritten ==
    ASSUME TicketsOK, NEW t \in Tickets, ticket[t].status \notin Settled, NEW q,
           ticket' = [ticket EXCEPT ![t] = q]
    PROVE  Kept
BY DEF TicketsOK, Kept

LEMMA OpenTicketMoved ==
    ASSUME TicketsOK, NEW t \in Tickets, ticket[t].status \notin Settled,
           NEW s, SetStatus(t, s)
    PROVE  Kept
BY OpenTicketWritten DEF SetStatus

(* The statuses of a repair and of a failed dispatch do not follow a       *)
(* verdict, so the attempt is refused.                                     *)
LEMMA RepairRefused ==
    ASSUME TicketsOK, NEW t \in Tickets,
           NEW s \in Status \ (Reopen \cup Settled),
           NEW next, NEW caught, Try(t, s, next, caught)
    PROVE  Kept
<1>1. CASE ticket[t].status \in Settled
  <2>1. ~CanMove(t, s)
    BY <1>1, SettledMoves
  <2> QED BY <2>1 DEF Try, Kept
<1>2. CASE ticket[t].status \notin Settled
  BY <1>2, OpenTicketMoved DEF Try, Kept
<1> QED BY <1>1, <1>2

LEMMA OutcomeKeepsStatus ==
    ASSUME TicketsOK, NEW t \in Tickets, NEW c \in Effects,
           NEW s \in {"verified", "failed"}, RecordChild(t, c, s)
    PROVE  Kept
BY DEF RecordChild, Kept, TicketsOK, TicketRow

LEMMA ManifestKeepsStatus ==
    ASSUME TicketsOK, NEW t \in Tickets, NEW S, ticket' = Reserved(t, S)
    PROVE  Kept
BY DEF Reserved, Kept, TicketsOK, TicketRow

(* Every statement of a turn but a reservation moves the turn on.          *)
LEMMA TurnMovesOn ==
    ASSUME IInv, TurnStep \/ Begin \/ TurnCrash
    PROVE  turn' # turn
<1>1. turn \in TurnRecord
  BY DEF IInv, TurnOK
<1>2. EndTurn /\ turn.pc # "idle" => turn'.pc # turn.pc
  BY DEF EndTurn, NoTurn
<1>3. ASSUME NEW pc \in TurnPc, TurnGoto(pc), turn.pc # pc
      PROVE  turn' # turn
  BY <1>1, <1>3 DEF TurnGoto, TurnRecord
<1>4. ApplyCapture => TurnGoto("schedule") \/ TurnGoto("unbind")
  BY DEF ApplyCapture
<1>5. Begin => turn'.pc # turn.pc
  BY DEF Begin, NoTurn
<1>6. \A direct \in BOOLEAN : FinishTools(direct) => turn'.pc # turn.pc
  BY <1>1 DEF FinishTools, TurnRecord
<1>7. CaptureReceipts \/ ReduceEffects => turn'.pc # turn.pc
  BY <1>1 DEF CaptureReceipts, ReduceEffects, TurnRecord
<1>8. CapturePending \/ Unbind \/ TurnRaises \/ TurnCrash => turn'.pc # turn.pc
  BY <1>2 DEF CapturePending, Unbind, TurnRaises, TurnCrash
<1>9. StartExecuting \/ Guard \/ SaveSession \/ CaptureCancelled
         \/ ApplyCapture \/ ScheduleReview => turn' # turn
  BY <1>3, <1>4 DEF StartExecuting, Guard, SaveSession, CaptureCancelled,
                    ApplyCapture, ScheduleReview, TurnPc
<1> QED BY <1>5, <1>6, <1>7, <1>8, <1>9 DEF TurnStep

LEMMA StepsKeepVerdicts ==
    ASSUME IInv, [Next]_vars, turn' = turn
    PROVE  Kept
<1> USE DEF IInv
<1>1. ticket' = ticket => Kept
  BY DEF Kept
<1>2. ~(TurnStep \/ Begin \/ TurnCrash)
  BY TurnMovesOn
<1>3. CASE \E S \in SUBSET Children : Reserve(S)
  BY <1>3, Keys, ManifestKeepsStatus DEF Reserve
<1>4. CASE \E c \in Children, s \in {"verified", "failed"} : ChildEnds(c, s)
  BY <1>4, Keys, OutcomeKeepsStatus DEF ChildEnds
<1>5. CASE Act \/ WatchSchedules
  <2>1. Alarmed \in Tickets /\ ticket[Alarmed].status \notin Settled
    BY <1>5, Keys DEF Act, WatchSchedules, WorkOK, Alarmed
  <2>2. \/ \E s : SetStatus(Alarmed, s)
        \/ \E s, v : ticket' = [ticket EXCEPT ![Alarmed].status = s,
                                             ![Alarmed].rev = v]
    BY <1>5 DEF Act, WatchSchedules, Schedule, Transition, TransitionRev
  <2>3. CASE \E s : SetStatus(Alarmed, s)
    BY <2>1, <2>3, OpenTicketMoved
  <2>4. CASE \E s, v : ticket' = [ticket EXCEPT ![Alarmed].status = s,
                                               ![Alarmed].rev = v]
    <3>1. PICK s, v : ticket' = [ticket EXCEPT ![Alarmed].status = s,
                                               ![Alarmed].rev = v]
      BY <2>4
    <3> DEFINE q == [[ticket[Alarmed] EXCEPT !.status = s] EXCEPT !.rev = v]
    <3>2. ticket' = [ticket EXCEPT ![Alarmed] = q]
      BY <2>1, <3>1, TwoFields
    <3> QED BY <2>1, <3>2, OpenTicketWritten
  <2> QED BY <2>2, <2>3, <2>4
<1>6. CASE MarkVerifying \/ Conclude \/ Excuse \/ Escalate
  <2>1. Reviewed \in Tickets /\ ticket[Reviewed].status \notin Settled
    BY <1>6, UnderReview
    DEF MarkVerifying, Conclude, Excuse, Escalate, Reviewing
  <2>2. ticket' = ticket \/ \E s : SetStatus(Reviewed, s)
    BY <1>6 DEF MarkVerifying, Conclude, Excuse, Escalate, Try, Transition
  <2> QED BY <1>1, <2>1, <2>2, OpenTicketMoved
<1>7. CASE Remediation
  <2>1. Root \in Tickets /\ Repair \in Tickets /\ RepairChild \in Effects
    BY Keys
  <2>2. CASE CreateChild
    <3>1. ticket' = ticket \/
             (ticket[Repair].status = "absent" /\ SetStatus(Repair, "captured"))
      BY <2>2 DEF CreateChild, SetStatus
    <3> QED BY <1>1, <2>1, <3>1, OpenTicketMoved DEF Settled
  <2>3. CASE StartChild
    <3>1. Try(Repair, "executing", "parent", "excuse")
      BY <2>3 DEF StartChild
    <3> QED BY <2>1, <3>1, RepairRefused DEF Status, Reopen, Settled
  <2>4. CASE MarkParent
    <3>1. Try(Root, "remediation_queued", "promise", "excuse")
      BY <2>4 DEF MarkParent
    <3> QED BY <2>1, <3>1, RepairRefused DEF Status, Reopen, Settled
  <2>5. CASE PromiseRepair
    BY <2>1, <2>5, ManifestKeepsStatus DEF PromiseRepair
  <2>6. CASE Dispatch
    BY <1>1, <2>1, <2>6, OutcomeKeepsStatus DEF Dispatch
  <2>7. CASE FailClosed
    <3>1. Try(Repair, "reconciliation_required", "close", "excuse")
      BY <2>7 DEF FailClosed
    <3> QED BY <2>1, <3>1, RepairRefused DEF Status, Reopen, Settled
  <2> QED BY <1>7, <2>2, <2>3, <2>4, <2>5, <2>6, <2>7 DEF Remediation
<1>8. CASE \/ \E a \in Alarms : ClaimWatch(a) \/ WatchDue(a)
           \/ \E k \in Reviews : ClaimReview(k) \/ ReviewDue(k)
           \/ \E v \in Verdicts(Root) \cup Verdicts(Repair) : Judge(v)
           \/ Look \/ ClearWatch \/ Open \/ ReviewFails \/ RetryReview
           \/ CloseReview \/ WorkerRaises \/ PollNothing \/ Lapse
           \/ WorkerCrash \/ UNCHANGED vars
  BY <1>1, <1>8
  DEF ClaimWatch, WatchDue, ClaimReview, ReviewDue, Judge, Look, ClearWatch,
      Open, ReviewFails, RetryReview, CloseReview, WorkerRaises, PollNothing,
      Lapse, WorkerCrash, vars
<1> QED BY <1>2, <1>3, <1>4, <1>5, <1>6, <1>7, <1>8
        DEF Next, Progress, WorkerStep, Remediation

(* The review worker never takes a verdict back while the turn stands      *)
(* still: its stale watchdogs, retries and repairs find it work on an open *)
(* ticket only, or are refused by _ALLOWED_TRANSITIONS.                    *)
THEOREM VerdictsStay == Spec => WorkerKeepsVerdicts
<1> DEFINE Steps == \A t \in Tickets :
        /\ turn' = turn
        /\ ticket[t].status \in {"verified", "superseded"}
        => ticket'[t].status = ticket[t].status \/ ticket'[t].rev # ticket[t].rev
<1>1. IInv /\ [Next]_vars => Steps
  BY StepsKeepVerdicts DEF Kept, Settled
<1> HIDE DEF Steps
<1>2. IInv /\ [Next]_vars => [Steps]_vars
  BY <1>1
<1>3. [][Steps]_vars <=> WorkerKeepsVerdicts
  BY DEF Steps, WorkerKeepsVerdicts
<1> QED BY <1>2, <1>3, Invariant, PTL DEF Spec

----------------------------------------------------------------------------
(* Verdicts on evidence *)

(* While a review is at work, a ticket that is still being verified shows  *)
(* the revision the review saw: every writer that brings another revision  *)
(* takes the ticket out of verifying, and none of them brings it back.     *)
JudgedOK ==
    /\ wk.pc = "conclude" /\ ticket[Reviewed].status = "verifying" =>
           \E r \in runs : r.key[1] = Reviewed
                           /\ ticket[Reviewed].rev \subseteq r.seen
    /\ wk.pc \in {"judge", "conclude"} =>
           ticket[Reviewed].status \notin {"absent", "remediation_queued"}
    /\ wk.pc = "conclude" => wk.plan \notin {"verification_pending", "verifying"}

Judged == {"absent", "verifying", "verified", "remediation_queued"}

(* Tickets come to a status of S by no statement of this step, nor do      *)
(* those that have one get another revision.                               *)
Carries(S) ==
    \A t \in Tickets : ticket'[t].status \in S =>
        ticket'[t].status = ticket[t].status /\ ticket'[t].rev = ticket[t].rev

LEMMA TicketCarried ==
    ASSUME TicketsOK, NEW S, NEW t \in Tickets, NEW q,
           ticket' = [ticket EXCEPT ![t] = q],
           q.status \in S => q.status = ticket[t].status /\ q.rev = ticket[t].rev
    PROVE  Carries(S)
BY DEF TicketsOK, Carries

LEMMA StatusCarried ==
    ASSUME TicketsOK, NEW S, NEW t \in Tickets, NEW s, s \notin S,
           SetStatus(t, s)
    PROVE  Carries(S)
<1> DEFINE q == [ticket[t] EXCEPT !.status = s]
<1>1. ticket' = [ticket EXCEPT ![t] = q]
  BY DEF SetStatus
<1>2. q.status = s
  BY DEF TicketsOK, TicketRow
<1> HIDE DEF q
<1> QED BY <1>1, <1>2, TicketCarried

LEMMA RevisionCarried ==
    ASSUME TicketsOK, NEW S, NEW t \in Tickets, NEW s, s \notin S, NEW v,
           ticket' = [ticket EXCEPT ![t].status = s, ![t].rev = v]
    PROVE  Carries(S)
<1> DEFINE q == [[ticket[t] EXCEPT !.status = s] EXCEPT !.rev = v]
<1>1. ticket' = [ticket EXCEPT ![t] = q]
  BY TwoFields
<1>2. q.status = s
  BY DEF TicketsOK, TicketRow
<1> HIDE DEF q
<1> QED BY <1>1, <1>2, TicketCarried

LEMMA OutcomeCarried ==
    ASSUME TicketsOK, NEW S, NEW t \in Tickets, NEW c \in Effects,
           NEW s \in {"verified", "failed"}, RecordChild(t, c, s)
    PROVE  Carries(S)
BY DEF RecordChild, Carries, TicketsOK, TicketRow

LEMMA ManifestCarried ==
    ASSUME TicketsOK, NEW S, NEW t \in Tickets, NEW M, ticket' = Reserved(t, M)
    PROVE  Carries(S)
BY DEF Reserved, Carries, TicketsOK, TicketRow

LEMMA SameCarried ==
    ASSUME NEW S, ticket' = ticket
    PROVE  Carries(S)
BY DEF Carries

(* What the steps below show of every ticket. *)
Evidenced ==
    \A t \in Tickets : OnEvidence(t) => OnEvidence(t)' \/ LateVerdict(t)

LEMMA CarriedEvidence ==
    ASSUME Carries({"verified"}),
           \A r \in runs : ticket[r.key[1]].status = "verified" => r \in runs'
    PROVE  Evidenced
BY DEF Carries, Evidenced, OnEvidence

(* Steps of the turns, the children and the clock. *)
LEMMA OthersCarry ==
    ASSUME IInv, JudgedOK, Carries(Judged), UNCHANGED <<wk, runs>>
    PROVE  JudgedOK' /\ Evidenced
<1>1. Evidenced
  BY CarriedEvidence DEF Carries, Judged
<1>2. wk.pc \in {"judge", "conclude"} => wk.key[1] \in Tickets
  BY Keys DEF IInv, WkOK, Reviewing
<1>3. JudgedOK'
  BY <1>2 DEF JudgedOK, Carries, Judged, Reviewed
<1> QED BY <1>1, <1>3

(* Steps of the worker that are no review. *)
LEMMA WorkerCarries ==
    ASSUME Carries({"verified"}),
           \A r \in runs : ticket[r.key[1]].status = "verified" => r \in runs',
           wk'.pc \notin {"judge", "conclude"}
    PROVE  JudgedOK' /\ Evidenced
BY CarriedEvidence DEF JudgedOK

LEMMA TurnsOnEvidence ==
    ASSUME IInv, JudgedOK,
           \/ TurnStep \/ Begin \/ TurnCrash
           \/ \E S \in SUBSET Children : Reserve(S)
           \/ \E c \in Children, s \in {"verified", "failed"} : ChildEnds(c, s)
    PROVE  JudgedOK' /\ Evidenced
<1>1. /\ TicketsOK /\ Root \in Tickets /\ Children \subseteq Effects
      /\ ticket[Root] \in TicketRow
  BY Keys DEF IInv, TicketsOK
<1>2. ASSUME NEW s \in Status \ Judged, SetStatus(Root, s)
      PROVE  Carries(Judged)
  BY <1>1, <1>2, StatusCarried
<1>3. ASSUME NEW s \in {"executing", "verification_pending"}, NEW v,
             ticket' = [ticket EXCEPT ![Root].status = s, ![Root].rev = v]
      PROVE  Carries(Judged)
  BY <1>1, <1>3, RevisionCarried DEF Judged
<1>4. UNCHANGED <<wk, runs>>
  BY DEF TurnStep, Begin, TurnCrash, Reserve, ChildEnds, StartExecuting, Guard,
         SaveSession, FinishTools, CapturePending, CaptureCancelled,
         CaptureReceipts, ReduceEffects, ApplyCapture, ScheduleReview, Unbind,
         TurnRaises
<1>5. SUFFICES Carries(Judged)
  BY <1>4, OthersCarry
<1>6. CASE Guard \/ SaveSession \/ ReduceEffects \/ Unbind \/ TurnRaises
           \/ TurnCrash \/ \E direct \in BOOLEAN : FinishTools(direct)
  BY <1>6, SameCarried DEF Guard, SaveSession, ReduceEffects, Unbind, TurnRaises,
                           TurnCrash, FinishTools
<1>7. CASE Begin
  BY <1>2, <1>7, SameCarried DEF Begin, SetStatus, Status, Judged
<1>8. CASE StartExecuting \/ CapturePending \/ CaptureCancelled
  BY <1>2, <1>8 DEF StartExecuting, CapturePending, CaptureCancelled, Transition,
                    Status, Judged
<1>9. CASE CaptureReceipts
  <2> DEFINE known == Receipts(Root) \cup IF turn.direct THEN {Direct} ELSE {}
             q == [ticket[Root] EXCEPT !.receipts = known]
  <2>1. ticket' = [ticket EXCEPT ![Root] = q]
    BY <1>9 DEF CaptureReceipts
  <2>2. q.status = ticket[Root].status /\ q.rev = ticket[Root].rev
    BY <1>1 DEF TicketRow
  <2> HIDE DEF q
  <2> QED BY <1>1, <2>1, <2>2, TicketCarried
<1>10. CASE ApplyCapture
  <2>1. Captured \in Status \ Judged
    BY DEF Captured, Status, Judged
  <2> QED BY <1>2, <1>3, <1>10, <2>1 DEF ApplyCapture, Transition, TransitionRev
<1>11. CASE ScheduleReview
  BY <1>3, <1>11 DEF ScheduleReview, Schedule
<1>12. CASE \E S \in SUBSET Children : Reserve(S)
  BY <1>1, <1>12, ManifestCarried DEF Reserve
<1>13. CASE \E c \in Children, s \in {"verified", "failed"} : ChildEnds(c, s)
  BY <1>1, <1>13, OutcomeCarried DEF ChildEnds
<1> QED BY <1>6, <1>7, <1>8, <1>9, <1>10, <1>11, <1>12, <1>13 DEF TurnStep

LEMMA GoesElsewhere ==
    ASSUME WkOK, NEW pc \in WkPc \ {"judge", "conclude"}, WkGoto(pc)
    PROVE  wk'.pc \notin {"judge", "conclude"}
BY Goto

LEMMA WatchOnEvidence ==
    ASSUME IInv, JudgedOK, Look \/ Act \/ WatchSchedules \/ ClearWatch
    PROVE  JudgedOK' /\ Evidenced
<1>1. /\ TicketsOK /\ Alarmed \in Tickets /\ runs' = runs
      /\ wk \in WkRecord
  BY Keys DEF IInv, WkOK, Alarmed, Look, Act, WatchSchedules, ClearWatch
<1>2. wk'.pc \notin {"judge", "conclude"}
  <2>1. Act \/ WatchSchedules => WkGoto("schedule") \/ WkGoto("clear")
    BY DEF Act, WatchSchedules
  <2>2. Look => wk'.pc \in {"clear", "act"}
    BY <1>1 DEF Look, WkRecord
  <2> QED BY <2>1, <2>2, Idle, GoesElsewhere DEF ClearWatch, IInv, WkPc
<1>3. SUFFICES Carries({"verified"})
  BY <1>1, <1>2, WorkerCarries
<1>4. CASE Look \/ ClearWatch
  BY <1>4, SameCarried DEF Look, ClearWatch
<1>5. CASE Act
  <2>1. CASE wk.plan = "verify"
    BY <1>1, <1>5, <2>1, RevisionCarried DEF Act, TransitionRev
  <2>2. CASE wk.plan # "verify"
    <3>1. wk.plan # "verified"
      BY <1>5 DEF Act, IInv, WkOK
    <3> QED BY <1>1, <1>5, <2>2, <3>1, StatusCarried DEF Act, Transition
  <2> QED BY <2>1, <2>2
<1>6. CASE WatchSchedules
  BY <1>1, <1>6, RevisionCarried DEF WatchSchedules, Schedule
<1> QED BY <1>4, <1>5, <1>6

(* The statements of process_job: the review sees the whole revision, and  *)
(* a verdict on a ticket that is no longer being verified can only be a    *)
(* late one.                                                               *)
LEMMA ReviewOnEvidence ==
    ASSUME IInv, JudgedOK,
           \/ Open \/ MarkVerifying \/ ReviewFails \/ Conclude
           \/ \E v \in Verdicts(Root) \cup Verdicts(Repair) : Judge(v)
    PROVE  JudgedOK' /\ Evidenced
<1>1. TicketsOK /\ WkOK
  BY DEF IInv
<1>2. CASE Open \/ ReviewFails
  <2>1. /\ WkGoto("verifying") \/ WkGoto("close") \/ WkGoto("excuse")
        /\ runs' = runs /\ ticket' = ticket
    BY <1>2 DEF Open, ReviewFails
  <2> QED BY <1>1, <2>1, SameCarried, GoesElsewhere, WorkerCarries DEF WkPc
<1>3. CASE MarkVerifying
  <2>1. Reviewed \in Tickets /\ ticket[Reviewed] \in TicketRow /\ runs' = runs
    BY <1>3, UnderReview DEF MarkVerifying, Reviewing
  <2>2. CASE SetStatus(Reviewed, "verifying") /\ WkGoto("judge")
    <3>1. Evidenced
      BY <1>1, <2>1, <2>2, StatusCarried, CarriedEvidence
    <3>2. wk'.pc = "judge" /\ wk'.key = wk.key
      BY <1>1, <2>2, Goto DEF WkPc
    <3>3. ticket'[Reviewed].status = "verifying"
      BY <1>1, <2>1, <2>2 DEF SetStatus, TicketsOK, TicketRow
    <3> QED BY <3>1, <3>2, <3>3 DEF JudgedOK, Reviewed
  <2>3. CASE UNCHANGED ticket /\ WkGoto("retry")
    BY <1>1, <2>1, <2>3, SameCarried, GoesElsewhere, WorkerCarries DEF WkPc
  <2> QED BY <1>3, <2>2, <2>3 DEF MarkVerifying, Try
<1>4. CASE \E v \in Verdicts(Root) \cup Verdicts(Repair) : Judge(v)
  <2>1. PICK v : Judge(v)
    BY <1>4
  <2> DEFINE run == [key |-> wk.key, attempt |-> Attempt,
                     seen |-> Receipts(Reviewed)]
  <2>2. /\ ticket' = ticket /\ runs' = runs \cup {run} /\ wk.pc = "judge"
        /\ wk'.key = wk.key
        /\ wk'.pc \in {"repair", "conclude"}
        /\ wk'.plan \notin {"verification_pending", "verifying"}
    BY <1>1, <2>1 DEF Judge, WkOK, WkRecord, Verdicts
  <2>3. Evidenced
    BY <2>2, SameCarried, CarriedEvidence
  <2>4. ticket[Reviewed].rev \subseteq ticket[Reviewed].receipts
    BY <2>2, UnderReview DEF Reviewing, Documented
  <2>5. run \in runs' /\ run.key[1] = Reviewed
        /\ ticket[Reviewed].rev \subseteq run.seen
    BY <2>2, <2>4 DEF Receipts, Reviewed
  <2> HIDE DEF run
  <2>6. JudgedOK'
    BY <2>2, <2>5 DEF JudgedOK, Reviewed
  <2> QED BY <2>3, <2>6
<1>5. CASE Conclude
  <2>1. /\ Reviewed \in Tickets /\ ticket[Reviewed] \in TicketRow
        /\ ticket[Reviewed].rev # {} /\ ticket[Reviewed].status \notin Settled
        /\ runs' = runs /\ wk.pc = "conclude"
    BY <1>5, UnderReview DEF Conclude, Reviewing
  <2>2. wk'.pc \notin {"judge", "conclude"}
    BY <1>1, <1>5, GoesElsewhere DEF Conclude, Try, WkPc
  <2>3. CASE ticket' = ticket
    BY <2>1, <2>2, <2>3, SameCarried, WorkerCarries
  <2>4. CASE SetStatus(Reviewed, wk.plan) /\ wk.plan # "verified"
    BY <1>1, <2>1, <2>2, <2>4, StatusCarried, WorkerCarries
  <2>5. CASE CanMove(Reviewed, "verified") /\ SetStatus(Reviewed, "verified")
    <3>1. ticket[Reviewed].status \in {"verifying"} \cup
                  {"cancelled", "escalated", "unverifiable"}
      BY <2>1, <2>5 DEF CanMove, Allowed, Settled, TicketRow, Status, JudgedOK
    <3>2. /\ ticket'[Reviewed].status = "verified"
          /\ ticket'[Reviewed].rev = ticket[Reviewed].rev
          /\ \A t \in Tickets \ {Reviewed} : ticket'[t] = ticket[t]
      BY <1>1, <2>1, <2>5 DEF SetStatus, TicketsOK, TicketRow
    <3>3. ASSUME NEW t \in Tickets, OnEvidence(t)
          PROVE  OnEvidence(t)' \/ LateVerdict(t)
      <4>1. CASE t # Reviewed
        BY <2>1, <3>2, <3>3, <4>1 DEF OnEvidence
      <4>2. CASE t = Reviewed /\ ticket[t].status = "verifying"
        <5>1. \E r \in runs : r.key[1] = t /\ ticket[t].rev \subseteq r.seen
          BY <2>1, <4>2 DEF JudgedOK
        <5> QED BY <2>1, <3>2, <4>2, <5>1 DEF OnEvidence
      <4>3. CASE t = Reviewed /\ ticket[t].status # "verifying"
        BY <3>1, <3>2, <4>3 DEF LateVerdict
      <4> QED BY <4>1, <4>2, <4>3
    <3>4. Evidenced
      BY <3>3 DEF Evidenced
    <3> QED BY <2>2, <3>4 DEF JudgedOK
  <2> QED BY <1>5, <2>3, <2>4, <2>5 DEF Conclude, Try
<1> QED BY <1>2, <1>3, <1>4, <1>5

LEMMA EndingOnEvidence ==
    ASSUME IInv, JudgedOK,
           \/ Excuse \/ RetryReview \/ Escalate \/ CloseReview
           \/ WorkerRaises \/ WorkerCrash
    PROVE  JudgedOK' /\ Evidenced
<1>1. /\ TicketsOK /\ WkOK
      /\ \A r \in runs : ticket[r.key[1]].status = "verified" => r \in runs'
  BY FailedRuns DEF IInv, RetryReview, Escalate, CloseReview, WorkerRaises,
                    WorkerCrash
<1>2. wk'.pc \notin {"judge", "conclude"}
  <2>1. WkGoto("retry") \/ WkGoto("escalate") \/ wk' = IdleWk
    BY DEF Excuse, RetryReview, Escalate, CloseReview, WorkerRaises,
           WorkerCrash, WkGoto
  <2> QED BY <1>1, <2>1, Idle, GoesElsewhere DEF WkPc
<1>3. Carries({"verified"})
  <2>1. CASE Excuse \/ Escalate
    <3>1. Reviewed \in Tickets
      BY <2>1, UnderReview DEF Excuse, Escalate, Reviewing
    <3> QED BY <1>1, <2>1, <3>1, StatusCarried, SameCarried
            DEF Excuse, Escalate, Transition
  <2>2. CASE ticket' = ticket
    BY <2>2, SameCarried
  <2> QED BY <2>1, <2>2 DEF RetryReview, CloseReview, WorkerRaises, WorkerCrash
<1> QED BY <1>1, <1>2, <1>3, WorkerCarries

LEMMA RepairOnEvidence ==
    ASSUME IInv, JudgedOK, Remediation
    PROVE  JudgedOK' /\ Evidenced
<1>1. /\ TicketsOK /\ WkOK /\ runs' = runs
      /\ Root \in Tickets /\ Repair \in Tickets /\ RepairChild \in Effects
  BY Keys DEF IInv, Remediation, Repairing, CreateChild, StartChild, MarkParent,
              PromiseRepair, Dispatch, FailClosed
<1>2. wk'.pc \notin {"judge", "conclude"}
  <2>1. \E pc \in {"close", "child", "parent", "excuse", "promise", "dispatch",
                   "fail"} : WkGoto(pc)
    BY DEF Remediation, CreateChild, StartChild, MarkParent, PromiseRepair,
           Dispatch, FailClosed, Try
  <2> QED BY <1>1, <2>1, GoesElsewhere DEF WkPc
<1>3. ASSUME NEW t \in Tickets, NEW s, s # "verified", NEW next, NEW caught,
             Try(t, s, next, caught)
      PROVE  Carries({"verified"})
  BY <1>1, <1>3, StatusCarried, SameCarried DEF Try
<1>4. Carries({"verified"})
  <2>1. CASE CreateChild
    <3>1. ticket' = ticket \/ SetStatus(Repair, "captured")
      BY <2>1 DEF CreateChild, SetStatus
    <3> QED BY <1>1, <3>1, StatusCarried, SameCarried
  <2>2. CASE StartChild \/ MarkParent \/ FailClosed
    BY <1>1, <1>3, <2>2 DEF StartChild, MarkParent, FailClosed
  <2>3. CASE PromiseRepair
    BY <1>1, <2>3, ManifestCarried DEF PromiseRepair
  <2>4. CASE Dispatch
    BY <1>1, <2>4, OutcomeCarried, SameCarried DEF Dispatch
  <2> QED BY <2>1, <2>2, <2>3, <2>4 DEF Remediation
<1> QED BY <1>1, <1>2, <1>4, WorkerCarries

LEMMA ClaimsOnEvidence ==
    ASSUME IInv, JudgedOK,
           \/ \E a \in Alarms : ClaimWatch(a) \/ WatchDue(a)
           \/ \E k \in Reviews : ClaimReview(k) \/ ReviewDue(k)
           \/ PollNothing \/ Lapse \/ UNCHANGED vars
    PROVE  JudgedOK' /\ Evidenced
<1>1. ticket' = ticket /\ runs' = runs
  BY DEF ClaimWatch, WatchDue, ClaimReview, ReviewDue, PollNothing, Lapse, vars
<1>2. wk' = wk \/ wk'.pc \in {"look", "open"}
  BY DEF ClaimWatch, WatchDue, ClaimReview, ReviewDue, PollNothing, Lapse, vars,
         IdleWk
<1>3. CASE wk' = wk
  BY <1>1, <1>3, SameCarried, OthersCarry
<1>4. CASE wk'.pc \in {"look", "open"}
  BY <1>1, <1>4, SameCarried, WorkerCarries
<1> QED BY <1>2, <1>3, <1>4

LEMMA NextOnEvidence ==
    ASSUME IInv, JudgedOK, [Next]_vars
    PROVE  JudgedOK' /\ Evidenced
<1>1. CASE Next
  BY <1>1, TurnsOnEvidence, WatchOnEvidence, ReviewOnEvidence,
     EndingOnEvidence, RepairOnEvidence, ClaimsOnEvidence
  DEF Next, Progress, WorkerStep, Remediation
<1>2. CASE UNCHANGED vars
  BY <1>2, ClaimsOnEvidence
<1> QED BY <1>1, <1>2

LEMMA JudgedInvariant == Spec => [](IInv /\ JudgedOK)
<1>1. Init => JudgedOK
  <2>1. Init => wk.pc = "idle"
    BY Idle DEF Init
  <2> QED BY <2>1 DEF JudgedOK
<1>2. IInv /\ JudgedOK /\ [Next]_vars => JudgedOK'
  BY NextOnEvidence
<1> QED BY <1>1, <1>2, Invariant, PTL DEF Spec

(* Whatever turns, watchdogs and repairs write between the statements of   *)
(* process_job, a ticket comes to be verified without a review of its      *)
(* whole revision in one way only: the last transition of process_job      *)
(* reopens a ticket that was ended meanwhile.                              *)
THEOREM OnlyLateVerdictsLackEvidence == Spec => VerdictsNeedEvidence
<1>1. IInv /\ JudgedOK /\ [Next]_vars => [Evidenced]_vars
  BY NextOnEvidence
<1>2. [][Evidenced]_vars <=> VerdictsNeedEvidence
  BY DEF Evidenced, VerdictsNeedEvidence
<1> QED BY <1>1, <1>2, JudgedInvariant, PTL DEF Spec

(* process_job ends before anybody cancels, escalates or gives up the      *)
(* ticket that it has judged.                                              *)
ReviewsEndInTime == [][\A t \in Tickets : ~LateVerdict(t)]_vars

(* As long as reviews end in time, no ticket is verified unless one review *)
(* saw the whole revision it shows.                                        *)
THEOREM TimelyVerdictsRestOnEvidence ==
    Spec /\ ReviewsEndInTime => []VerifiedOnEvidence
<1> DEFINE InTime == \A t \in Tickets : ~LateVerdict(t)
<1>1. Init => VerifiedOnEvidence
  BY DEF Init, NewTicket, VerifiedOnEvidence, OnEvidence
<1>2. VerifiedOnEvidence /\ IInv /\ JudgedOK /\ [Next]_vars /\ [InTime]_vars
        => VerifiedOnEvidence'
  <2> SUFFICES ASSUME VerifiedOnEvidence, IInv, JudgedOK, [Next]_vars,
                      [InTime]_vars
               PROVE  VerifiedOnEvidence'
    OBVIOUS
  <2>1. CASE InTime
    <3>1. Evidenced
      BY NextOnEvidence
    <3>2. \A t \in Tickets : OnEvidence(t)'
      BY <2>1, <3>1 DEF Evidenced, VerifiedOnEvidence
    <3> QED BY <3>2 DEF VerifiedOnEvidence
  <2>2. CASE UNCHANGED vars
    BY <2>2 DEF vars, VerifiedOnEvidence, OnEvidence
  <2> QED BY <2>1, <2>2
<1>3. ReviewsEndInTime <=> [][InTime]_vars
  BY DEF ReviewsEndInTime
<1> HIDE DEF InTime
<1> QED BY <1>1, <1>2, <1>3, JudgedInvariant, PTL DEF Spec

----------------------------------------------------------------------------
(* Reviews are not lost *)

Waits == {"verification_pending", "verifying"}
Gone  == {"absent", "completed"}

(* A ticket has receipts of its own effects only, so the job of any        *)
(* revision it shows is in the table.                                      *)
OwnOK == \A t \in Tickets : ticket[t].receipts \subseteq Own(t)

Brings == \A t \in Tickets :
              ticket'[t].receipts \subseteq ticket[t].receipts \cup Own(t)

(* No review job is completed by this step. *)
JobsLive == \A k \in Reviews :
                review[k].status \notin Gone => review'[k].status \notin Gone

(* What the steps below show of every ticket. *)
ReviewKept ==
    \A t \in Tickets : HasReview(t) =>
        HasReview(t)' \/ Repeated(t) \/ ClosedBeneath(t) \/ ExcusedElsewhere(t)

LEMMA ShownKey ==
    ASSUME IInv, OwnOK, NEW t \in Tickets
    PROVE  <<t, ticket[t].rev>> \in Reviews
<1>1. ticket[t].rev \subseteq Own(t)
  BY DEF IInv, TicketsOK, Documented, OwnOK
<1> QED BY <1>1 DEF Reviews

LEMMA CarriedReviews ==
    ASSUME IInv, OwnOK, Carries(Waits), JobsLive
    PROVE  ReviewKept
<1> SUFFICES ASSUME NEW t \in Tickets, HasReview(t) PROVE HasReview(t)'
  BY DEF ReviewKept
<1>1. <<t, ticket[t].rev>> \in Reviews
  BY ShownKey
<1> QED BY <1>1 DEF HasReview, Carries, Waits, JobsLive, Gone

LEMMA SameJobs ==
    ASSUME review' = review
    PROVE  JobsLive
BY DEF JobsLive

(* Statements that put no ticket up for review. *)
LEMMA SameKeeps ==
    ASSUME IInv, OwnOK, JobsLive, ticket' = ticket
    PROVE  Brings /\ ReviewKept
BY SameCarried, CarriedReviews DEF Brings

LEMMA StatusKeeps ==
    ASSUME IInv, OwnOK, JobsLive, NEW t \in Tickets, NEW s, s \notin Waits,
           SetStatus(t, s)
    PROVE  Brings /\ ReviewKept
<1>1. Brings
  BY DEF Brings, SetStatus, IInv, TicketsOK, TicketRow
<1> QED BY <1>1, StatusCarried, CarriedReviews DEF IInv

LEMMA RevisionBrings ==
    ASSUME IInv, NEW t \in Tickets, NEW s, NEW v,
           ticket' = [ticket EXCEPT ![t].status = s, ![t].rev = v]
    PROVE  Brings
<1> DEFINE u == [ticket[t] EXCEPT !.status = s]
           q == [u EXCEPT !.rev = v]
<1>1. ticket \in [Tickets -> TicketRow] /\ ticket' = [ticket EXCEPT ![t] = q]
  BY TwoFields DEF IInv, TicketsOK
<1>2. q.receipts = ticket[t].receipts
  BY <1>1 DEF TicketRow
<1> HIDE DEF q
<1> QED BY <1>1, <1>2 DEF Brings

LEMMA RevisionKeeps ==
    ASSUME IInv, OwnOK, JobsLive, NEW t \in Tickets, NEW v,
           ticket' = [ticket EXCEPT ![t].status = "executing", ![t].rev = v]
    PROVE  Brings /\ ReviewKept
<1>1. Carries(Waits)
  BY RevisionCarried DEF IInv, Waits
<1> QED BY <1>1, RevisionBrings, CarriedReviews

LEMMA ManifestKeeps ==
    ASSUME IInv, OwnOK, JobsLive, NEW t \in Tickets, NEW M,
           ticket' = Reserved(t, M)
    PROVE  Brings /\ ReviewKept
<1>1. Brings
  BY DEF Brings, Reserved, IInv, TicketsOK, TicketRow
<1> QED BY <1>1, ManifestCarried, CarriedReviews DEF IInv

LEMMA OutcomeKeeps ==
    ASSUME IInv, OwnOK, JobsLive, NEW t \in Tickets, NEW c \in Effects,
           c \in Own(t), NEW s \in {"verified", "failed"}, RecordChild(t, c, s)
    PROVE  Brings /\ ReviewKept
<1> DEFINE o == [ticket[t].outcome EXCEPT ![c] = s]
           g == IF s = "verified" THEN ticket[t].receipts \cup {c}
                                  ELSE ticket[t].receipts
           u == [ticket[t] EXCEPT !.outcome = o]
           q == [u EXCEPT !.receipts = g]
<1>1. ticket \in [Tickets -> TicketRow] /\ ticket' = [ticket EXCEPT ![t] = q]
  BY DEF RecordChild, IInv, TicketsOK, TicketRow
<1>2. q.receipts = g
  BY <1>1 DEF TicketRow
<1>3. g \subseteq ticket[t].receipts \cup Own(t)
  OBVIOUS
<1> HIDE DEF q, g
<1>4. Brings
  BY <1>1, <1>2, <1>3 DEF Brings
<1> QED BY <1>4, OutcomeCarried, CarriedReviews DEF IInv

(* schedule_verification: the ticket has the job it finds or makes, unless *)
(* that one is completed.                                                  *)
LEMMA ScheduleKeeps ==
    ASSUME IInv, OwnOK, NEW t \in Tickets, NEW r, r \subseteq Own(t),
           Schedule(t, r)
    PROVE  Brings /\ ReviewKept
<1>1. Brings
  BY RevisionBrings DEF Schedule
<1>2. JobsLive
  BY DEF Schedule, JobsLive, Enqueued, IInv, JobsOK, Gone, AbsentRow
<1>3. <<t, r>> \in Reviews
  BY DEF Reviews
<1>4. ticket'[t].rev = r
  BY DEF Schedule, IInv, TicketsOK, TicketRow
<1>5. review'[<<t, r>>] = Enqueued(review[<<t, r>>], FALSE)
  BY <1>3 DEF Schedule, IInv, JobsOK
<1>6. review[<<t, r>>].status # "completed" =>
          review'[<<t, r>>].status \notin Gone
  BY <1>5 DEF Enqueued, AbsentRow, Gone
<1>7. \A x \in Tickets \ {t} : ticket'[x] = ticket[x]
  BY DEF Schedule, IInv, TicketsOK
<1>8. ASSUME NEW x \in Tickets, HasReview(x)
      PROVE  HasReview(x)' \/ Repeated(x)
  <2>1. CASE x = t
    BY <1>4, <1>6, <2>1 DEF HasReview, Repeated, Gone
  <2>2. CASE x # t
    BY <1>2, <1>7, <1>8, <2>2, ShownKey DEF HasReview, JobsLive, Gone
  <2> QED BY <2>1, <2>2
<1> QED BY <1>1, <1>8 DEF ReviewKept

(* A transition within the review. *)
LEMMA WaitingKeeps ==
    ASSUME IInv, OwnOK, JobsLive, NEW t \in Tickets, NEW s, SetStatus(t, s)
    PROVE  /\ Brings
           /\ \A x \in Tickets :
                  HasReview(x) /\ (x # t \/ ticket[t].status \in Waits)
                      => HasReview(x)'
<1>1. Brings
  BY DEF Brings, SetStatus, IInv, TicketsOK, TicketRow
<1>2. \A x \in Tickets : ticket'[x].rev = ticket[x].rev
  BY DEF SetStatus, IInv, TicketsOK, TicketRow
<1>3. \A x \in Tickets \ {t} : ticket'[x].status = ticket[x].status
  BY DEF SetStatus, IInv, TicketsOK
<1>4. ASSUME NEW x \in Tickets, HasReview(x),
             x # t \/ ticket[t].status \in Waits
      PROVE  HasReview(x)'
  <2>1. <<x, ticket[x].rev>> \in Reviews
    BY ShownKey
  <2> QED BY <1>2, <1>3, <1>4, <2>1 DEF HasReview, JobsLive, Waits, Gone
<1> QED BY <1>1, <1>4

LEMMA TurnsKeepReviews ==
    ASSUME IInv, OwnOK,
           \/ TurnStep \/ Begin \/ TurnCrash
           \/ \E S \in SUBSET Children : Reserve(S)
           \/ \E c \in Children, s \in {"verified", "failed"} : ChildEnds(c, s)
    PROVE  Brings /\ ReviewKept
<1>1. /\ Root \in Tickets /\ Children \subseteq Effects
      /\ Own(Root) = Children \cup {Direct}
      /\ ticket \in [Tickets -> TicketRow]
  BY Keys DEF IInv, TicketsOK, Own
<1>2. ~ScheduleReview => JobsLive
  BY SameJobs
  DEF TurnStep, Begin, TurnCrash, Reserve, ChildEnds, StartExecuting, Guard,
      SaveSession, FinishTools, CapturePending, CaptureCancelled,
      CaptureReceipts, ReduceEffects, ApplyCapture, Unbind, TurnRaises
<1>3. ASSUME NEW s \in Status \ Waits, SetStatus(Root, s), ~ScheduleReview
      PROVE  Brings /\ ReviewKept
  BY <1>1, <1>2, <1>3, StatusKeeps
<1>4. CASE ScheduleReview
  <2>1. turn.seen \subseteq Own(Root)
    BY <1>1, <1>4 DEF ScheduleReview, IInv, SeenOK, Seeing, OwnOK
  <2> QED BY <1>1, <1>4, <2>1, ScheduleKeeps DEF ScheduleReview
<1>5. CASE ~ScheduleReview /\ ticket' = ticket
  BY <1>2, <1>5, SameKeeps
<1>6. CASE ~ScheduleReview /\ (Begin \/ StartExecuting \/ CapturePending
                               \/ CaptureCancelled)
  BY <1>3, <1>5, <1>6 DEF Begin, StartExecuting, CapturePending,
                     CaptureCancelled, Transition, SetStatus, Status, Waits
<1>7. CASE ~ScheduleReview /\ CaptureReceipts
  <2> DEFINE known == Receipts(Root) \cup IF turn.direct THEN {Direct} ELSE {}
             q == [ticket[Root] EXCEPT !.receipts = known]
  <2>1. ticket' = [ticket EXCEPT ![Root] = q]
    BY <1>7 DEF CaptureReceipts
  <2>2. /\ q.status = ticket[Root].status /\ q.rev = ticket[Root].rev
        /\ q.receipts = known
    BY <1>1 DEF TicketRow
  <2>3. known \subseteq ticket[Root].receipts \cup Own(Root)
    BY <1>1 DEF Receipts
  <2> HIDE DEF q, known
  <2>4. Carries(Waits)
    BY <1>1, <2>1, <2>2, TicketCarried DEF IInv
  <2>5. Brings
    BY <1>1, <2>1, <2>2, <2>3 DEF Brings
  <2> QED BY <1>2, <1>7, <2>4, <2>5, CarriedReviews
<1>8. CASE ~ScheduleReview /\ ApplyCapture
  <2>1. Captured \in Status \ Waits
    BY DEF Captured, Status, Waits
  <2>2. CASE Captured = "executing"
    BY <1>1, <1>2, <1>8, <2>2, RevisionKeeps DEF ApplyCapture, TransitionRev
  <2>3. CASE Captured # "executing"
    BY <1>3, <1>8, <2>1, <2>3 DEF ApplyCapture, Transition
  <2> QED BY <2>2, <2>3
<1>9. CASE ~ScheduleReview /\ \E S \in SUBSET Children : Reserve(S)
  BY <1>1, <1>2, <1>9, ManifestKeeps DEF Reserve
<1>10. CASE /\ ~ScheduleReview
            /\ \E c \in Children, s \in {"verified", "failed"} : ChildEnds(c, s)
  BY <1>1, <1>2, <1>10, OutcomeKeeps DEF ChildEnds
<1>11. CASE ~ScheduleReview /\
            (\/ Guard \/ SaveSession \/ ReduceEffects \/ Unbind \/ TurnRaises
             \/ TurnCrash \/ \E direct \in BOOLEAN : FinishTools(direct))
  BY <1>5, <1>11 DEF Guard, SaveSession, ReduceEffects, Unbind, TurnRaises,
                     TurnCrash, FinishTools
<1> QED BY <1>4, <1>6, <1>7, <1>8, <1>9, <1>10, <1>11 DEF TurnStep

LEMMA WatchKeepsReviews ==
    ASSUME IInv, OwnOK, Look \/ Act \/ WatchSchedules \/ ClearWatch
    PROVE  Brings /\ ReviewKept
<1>1. Alarmed \in Tickets
  BY Keys DEF Alarmed
<1>2. CASE Look \/ ClearWatch
  BY <1>2, SameJobs, SameKeeps DEF Look, ClearWatch
<1>3. CASE Act
  <2>1. JobsLive
    BY <1>3, SameJobs DEF Act
  <2>2. CASE wk.plan = "verify"
    BY <1>1, <1>3, <2>1, <2>2, RevisionKeeps DEF Act, TransitionRev
  <2>3. CASE wk.plan # "verify"
    <3>1. wk.plan \notin Waits
      BY <1>3 DEF Act, IInv, WkOK, Waits
    <3> QED BY <1>1, <1>3, <2>1, <2>3, <3>1, StatusKeeps DEF Act, Transition
  <2> QED BY <2>2, <2>3
<1>4. CASE WatchSchedules
  <2>1. wk.rev \subseteq Own(Alarmed)
    BY <1>1, <1>4 DEF WatchSchedules, IInv, WorkOK, OwnOK
  <2> QED BY <1>1, <1>4, <2>1, ScheduleKeeps DEF WatchSchedules
<1> QED BY <1>2, <1>3, <1>4

LEMMA ReviewKeepsReviews ==
    ASSUME IInv, JudgedOK, OwnOK,
           \/ Open \/ MarkVerifying \/ ReviewFails \/ Conclude
           \/ \E v \in Verdicts(Root) \cup Verdicts(Repair) : Judge(v)
    PROVE  Brings /\ ReviewKept
<1>1. JobsLive
  BY SameJobs DEF Open, MarkVerifying, ReviewFails, Conclude, Judge
<1>2. CASE ticket' = ticket
  BY <1>1, <1>2, SameKeeps
<1>3. CASE MarkVerifying
  <2>1. Reviewed \in Tickets /\ ticket[Reviewed] \in TicketRow
    BY <1>3, UnderReview DEF MarkVerifying, Reviewing
  <2>2. CASE CanMove(Reviewed, "verifying") /\ SetStatus(Reviewed, "verifying")
    <3>1. ticket[Reviewed].status \in Waits
      BY <2>1, <2>2 DEF CanMove, Allowed, Waits, TicketRow, Status, Reopen
    <3>2. Brings /\ \A x \in Tickets : HasReview(x) => HasReview(x)'
      BY <1>1, <2>1, <2>2, <3>1, WaitingKeeps
    <3> QED BY <3>2 DEF ReviewKept
  <2> QED BY <1>2, <1>3, <2>2 DEF MarkVerifying, Try
<1>4. CASE Conclude
  <2>1. Reviewed \in Tickets /\ wk.plan \notin Waits
    BY <1>4, UnderReview DEF Conclude, Reviewing, JudgedOK, Waits
  <2> QED BY <1>1, <1>2, <1>4, <2>1, StatusKeeps DEF Conclude, Try
<1> QED BY <1>2, <1>3, <1>4 DEF Open, ReviewFails, Judge

LEMMA EndingKeepsReviews ==
    ASSUME IInv, OwnOK,
           \/ Excuse \/ RetryReview \/ Escalate \/ CloseReview
           \/ WorkerRaises \/ WorkerCrash
    PROVE  Brings /\ ReviewKept
<1>1. review \in [Reviews -> Row] /\ WkOK
  BY DEF IInv, JobsOK
<1>2. CASE Excuse
  <2>1. Reviewed \in Tickets /\ JobsLive
    BY <1>2, UnderReview, SameJobs DEF Excuse, Reviewing
  <2>2. CASE ticket' = ticket
    BY <2>1, <2>2, SameKeeps
  <2>3. CASE SetStatus(Reviewed, "verification_pending")
    <3>1. Brings
      BY <2>1, <2>3, WaitingKeeps
    <3>2. ASSUME NEW x \in Tickets, HasReview(x), x # Reviewed
          PROVE  HasReview(x)'
      BY <2>1, <2>3, <3>2, WaitingKeeps
    <3>3. ASSUME HasReview(Reviewed), ticket[Reviewed].status = "verifying",
                 NEW x \in Tickets, x = Reviewed
          PROVE  HasReview(x)'
      BY <2>1, <2>3, <3>3, WaitingKeeps DEF Waits
    <3>4. ticket[Reviewed].status # "verifying" => ExcusedElsewhere(Reviewed)
      BY <1>2 DEF Excuse, ExcusedElsewhere
    <3> QED BY <3>1, <3>2, <3>3, <3>4 DEF ReviewKept, ExcusedElsewhere
  <2> QED BY <1>2, <2>2, <2>3 DEF Excuse
<1>3. CASE RetryReview
  <2>1. ticket' = ticket
        /\ \A k \in Reviews :
               review'[k] \in {review[k], Retried(review[k], MaxAttempts, FALSE)}
    BY <1>1, <1>3 DEF RetryReview
  <2>2. \A k \in Reviews :
            Retried(review[k], MaxAttempts, FALSE).status \notin Gone
    BY <1>1 DEF Retried, Unleased, ExpiredStatus, Row, Gone
  <2>3. JobsLive
    BY <2>1, <2>2 DEF JobsLive
  <2> QED BY <2>1, <2>3, SameKeeps
<1>4. CASE Escalate
  <2>1. Reviewed \in Tickets /\ JobsLive
    BY <1>4, UnderReview, SameJobs DEF Escalate, Reviewing
  <2> QED BY <1>4, <2>1, StatusKeeps DEF Escalate, Transition, Waits
<1>5. CASE CloseReview
  <2>1. /\ ticket' = ticket /\ wk.pc = "close"
        /\ \A k \in Reviews : k # wk.key => review'[k] = review[k]
    BY <1>1, <1>5 DEF CloseReview
  <2>2. ASSUME NEW x \in Tickets, HasReview(x), ~ClosedBeneath(x)
        PROVE  HasReview(x)'
    <3>1. <<x, ticket[x].rev>> \in Reviews /\ <<x, ticket[x].rev>> # wk.key
      BY <2>1, <2>2, ShownKey DEF ClosedBeneath
    <3> QED BY <2>1, <2>2, <3>1 DEF HasReview
  <2> QED BY <2>1, <2>2 DEF Brings, ReviewKept
<1>6. CASE WorkerRaises \/ WorkerCrash
  BY <1>6, SameJobs, SameKeeps DEF WorkerRaises, WorkerCrash
<1> QED BY <1>2, <1>3, <1>4, <1>5, <1>6

LEMMA RepairKeepsReviews ==
    ASSUME IInv, OwnOK, Remediation
    PROVE  Brings /\ ReviewKept
<1>1. /\ JobsLive
      /\ Root \in Tickets /\ Repair \in Tickets /\ RepairChild \in Effects
      /\ RepairChild \in Own(Repair)
  BY Keys, SameJobs, TicketIds
  DEF Remediation, Repairing, CreateChild, StartChild, MarkParent,
      PromiseRepair, Dispatch, FailClosed, Own
<1>2. CASE ticket' = ticket
  BY <1>1, <1>2, SameKeeps
<1>3. ASSUME NEW t \in Tickets, NEW s, s \notin Waits, NEW next, NEW caught,
             Try(t, s, next, caught)
      PROVE  Brings /\ ReviewKept
  BY <1>1, <1>2, <1>3, StatusKeeps DEF Try
<1>4. CASE CreateChild
  <2>1. ticket' = ticket \/ SetStatus(Repair, "captured")
    BY <1>4 DEF CreateChild, SetStatus
  <2> QED BY <1>1, <1>2, <2>1, StatusKeeps DEF Waits
<1>5. CASE StartChild \/ MarkParent \/ FailClosed
  BY <1>1, <1>3, <1>5 DEF StartChild, MarkParent, FailClosed, Waits
<1>6. CASE PromiseRepair
  BY <1>1, <1>6, ManifestKeeps DEF PromiseRepair
<1>7. CASE Dispatch
  BY <1>1, <1>2, <1>7, OutcomeKeeps DEF Dispatch
<1> QED BY <1>4, <1>5, <1>6, <1>7 DEF Remediation

LEMMA ClaimsKeepReviews ==
    ASSUME IInv, OwnOK,
           \/ \E a \in Alarms : ClaimWatch(a) \/ WatchDue(a)
           \/ \E k \in Reviews : ClaimReview(k) \/ ReviewDue(k)
           \/ PollNothing \/ Lapse \/ UNCHANGED vars
    PROVE  Brings /\ ReviewKept
<1>1. ticket' = ticket /\ review \in [Reviews -> Row]
  BY DEF IInv, JobsOK, ClaimWatch, WatchDue, ClaimReview, ReviewDue,
         PollNothing, Lapse, vars
<1>2. \A k \in Reviews :
          review[k].status \notin Gone => SweptReview[k].status \notin Gone
  BY <1>1 DEF SweptReview, Swept, SweepCancelRequested, SweepOverdue,
              SweepExpiredLease, Unleased, ExpiredStatus, Row, Gone
<1>3. CASE review' = review
  BY <1>1, <1>3, SameJobs, SameKeeps
<1>4. CASE review' = SweptReview
  BY <1>1, <1>2, <1>4, SameKeeps DEF JobsLive
<1>5. CASE \E k \in Reviews : ClaimReview(k)
  <2>1. PICK k \in Reviews : ClaimReview(k)
    BY <1>5
  <2>2. SweptReview \in [Reviews -> Row]
    BY SweptTables DEF IInv
  <2>3. review'[k].status = "running"
    BY <2>1, <2>2, ClaimedAdvances, ReviewerWorks DEF ClaimReview
  <2>4. \A x \in Reviews \ {k} : review'[x] = SweptReview[x]
    BY <2>1, <2>2 DEF ClaimReview
  <2> QED BY <1>1, <1>2, <2>3, <2>4, SameKeeps DEF JobsLive, Gone
<1>6. CASE \E k \in Reviews : ReviewDue(k)
  <2>1. \A x \in Reviews : review'[x].status = review[x].status
    BY <1>1, <1>6 DEF ReviewDue, Row
  <2> QED BY <1>1, <2>1, SameKeeps DEF JobsLive
<1>7. CASE Lapse
  <2>1. \A x \in Reviews : review'[x].status = review[x].status
    BY <1>1, <1>7 DEF Lapse, Row
  <2> QED BY <1>1, <2>1, SameKeeps DEF JobsLive
<1> QED BY <1>3, <1>4, <1>5, <1>6, <1>7
        DEF ClaimWatch, WatchDue, PollNothing, vars

LEMMA NextKeepsReviews ==
    ASSUME IInv, JudgedOK, OwnOK, [Next]_vars
    PROVE  OwnOK' /\ ReviewKept
<1>1. Brings /\ ReviewKept
  BY TurnsKeepReviews, WatchKeepsReviews, ReviewKeepsReviews,
     EndingKeepsReviews, RepairKeepsReviews, ClaimsKeepReviews
  DEF Next, Progress, WorkerStep, Remediation
<1> QED BY <1>1 DEF Brings, OwnOK

(* A ticket that waits for a review loses the job of its revision only     *)
(* when schedule_verification finds that job completed, when process_job   *)
(* completes a job whose revision was scheduled anew, or when its handler  *)
(* puts a ticket back that turns or watchdogs have moved meanwhile.        *)
THEOREM ReviewsAreLostInThreeWays == Spec => ReviewsAreNotLost
<1>1. Init => OwnOK
  BY DEF Init, NewTicket, OwnOK
<1>2. IInv /\ JudgedOK /\ OwnOK /\ [Next]_vars => OwnOK' /\ [ReviewKept]_vars
  BY NextKeepsReviews
<1>3. [][ReviewKept]_vars <=> ReviewsAreNotLost
  BY DEF ReviewKept, ReviewsAreNotLost
<1> QED BY <1>1, <1>2, <1>3, JudgedInvariant, PTL DEF Spec

----------------------------------------------------------------------------
(* The watchdogs and the reviews as job ledgers *)

TablesBooked ==
    /\ \A a \in Alarms : Booked(watch[a])
    /\ \A k \in Reviews : Booked(review[k])

WatchAbides == \A a \in Alarms : Abides(watch[a], watch'[a])
ReviewAbides == \A k \in Reviews : Abides(review[k], review'[k])

LEMMA SameTablesAbide ==
    ASSUME TablesBooked
    PROVE  /\ UNCHANGED watch => WatchAbides
           /\ UNCHANGED review => ReviewAbides
BY CallersAbide DEF TablesBooked, WatchAbides, ReviewAbides

(* One row is written, if the table has it.                                *)
LEMMA OneRowAbides ==
    ASSUME IInv, TablesBooked, NEW k, NEW r
    PROVE  /\ /\ watch' = [watch EXCEPT ![k] = r]
              /\ k \in Alarms => Abides(watch[k], r)
              => WatchAbides
           /\ /\ review' = [review EXCEPT ![k] = r]
              /\ k \in Reviews => Abides(review[k], r)
              => ReviewAbides
BY CallersAbide DEF IInv, JobsOK, TablesBooked, WatchAbides, ReviewAbides

(* Enqueuing finds the row or makes it.                                    *)
LEMMA EnqueuedAbides ==
    ASSUME IInv, TablesBooked, NEW k, NEW b \in BOOLEAN
    PROVE  /\ watch' = [watch EXCEPT ![k] = Enqueued(@, b)] => WatchAbides
           /\ review' = [review EXCEPT ![k] = Enqueued(@, b)] => ReviewAbides
BY CallersAbide, OneRowAbides DEF TablesBooked

LEMMA SweptTablesAbide ==
    ASSUME TablesBooked
    PROVE  /\ \A a \in Alarms : Abides(watch[a], SweptWatch[a])
           /\ \A k \in Reviews : Abides(review[k], SweptReview[k])
BY TicketBounds, SweptAbides
DEF TicketBounds, TablesBooked, SweptWatch, SweptReview

LEMMA TurnsAbide ==
    ASSUME IInv, TablesBooked,
           \/ Begin \/ TurnStep \/ TurnCrash
           \/ \E S \in SUBSET Children : Reserve(S)
           \/ \E c \in Children, s \in {"verified", "failed"} : ChildEnds(c, s)
    PROVE  WatchAbides /\ ReviewAbides
<1>1. CASE Guard
  BY <1>1, EnqueuedAbides, SameTablesAbide DEF Guard
<1>2. CASE ScheduleReview
  BY <1>2, EnqueuedAbides, SameTablesAbide DEF ScheduleReview, Schedule
<1>3. CASE \E c \in Children, s \in {"verified", "failed"} : ChildEnds(c, s)
  BY <1>3, EnqueuedAbides, SameTablesAbide DEF ChildEnds, RecordChild
<1>4. CASE UNCHANGED <<watch, review>>
  BY <1>4, SameTablesAbide
<1> QED
  BY <1>1, <1>2, <1>3, <1>4
  DEF Begin, TurnStep, TurnCrash, Reserve, StartExecuting, SaveSession,
      FinishTools, CapturePending, CaptureCancelled, CaptureReceipts,
      ReduceEffects, ApplyCapture, Unbind, TurnRaises

LEMMA WorkersAbide ==
    ASSUME IInv, TablesBooked, WorkerStep \/ WorkerCrash
    PROVE  WatchAbides /\ ReviewAbides
<1>1. /\ \A a \in Alarms : Booked(watch[a])
      /\ \A k \in Reviews : Booked(review[k])
  BY DEF TablesBooked
<1>2. Reviewer \in Workers /\ NoToken \in Nat /\ MaxAttempts \in Nat
  BY ReviewerWorks, TicketBounds DEF TicketBounds, NoToken
<1>3. CASE WatchSchedules
  BY <1>3, EnqueuedAbides, SameTablesAbide DEF WatchSchedules, Schedule
<1>4. CASE ClearWatch
  <2>1. wk.alarm \in Alarms /\ CanComplete(watch[wk.alarm], Reviewer, NoToken)
            => Abides(watch[wk.alarm], Completed(watch[wk.alarm]))
    BY <1>1, <1>2, HoldersAbide
  <2> QED BY <1>4, <2>1, OneRowAbides, SameTablesAbide DEF ClearWatch
<1>5. CASE CloseReview
  <2>1. wk.key \in Reviews /\ CanComplete(review[wk.key], Reviewer, NoToken)
            => Abides(review[wk.key], Completed(review[wk.key]))
    BY <1>1, <1>2, HoldersAbide
  <2> QED BY <1>5, <2>1, OneRowAbides, SameTablesAbide DEF CloseReview
<1>6. CASE RetryReview
  <2> DEFINE row == review[wk.key]
             new == IF CanRetry(row, Reviewer, NoToken)
                    THEN Retried(row, MaxAttempts, FALSE) ELSE row
  <2>1. wk.key \in Reviews => Abides(row, new)
    BY <1>1, <1>2, HoldersAbide, CallersAbide
  <2>2. review' = [review EXCEPT ![wk.key] = new] /\ UNCHANGED watch
    BY <1>6 DEF RetryReview
  <2> HIDE DEF row, new
  <2> QED BY <2>1, <2>2, OneRowAbides, SameTablesAbide DEF row
<1>7. CASE Dispatch
  BY <1>7, EnqueuedAbides, SameTablesAbide
  DEF Dispatch, Repairing, RecordChild
<1>8. CASE UNCHANGED <<watch, review>>
  BY <1>8, SameTablesAbide
<1> QED
  BY <1>3, <1>4, <1>5, <1>6, <1>7, <1>8
  DEF WorkerStep, WorkerCrash, Look, Act, Open, MarkVerifying, ReviewFails,
      Conclude, Judge, Excuse, Escalate, CreateChild, StartChild, MarkParent,
      PromiseRepair, FailClosed, Repairing, WorkerRaises

LEMMA ClaimsAbide ==
    ASSUME IInv, TablesBooked,
           \/ \E a \in Alarms : ClaimWatch(a)
           \/ \E k \in Reviews : ClaimReview(k)
           \/ PollNothing
    PROVE  WatchAbides /\ ReviewAbides
<1>1. /\ DOMAIN SweptWatch = Alarms /\ DOMAIN SweptReview = Reviews
      /\ \A a \in Alarms : SweptWatch[a] = Swept(watch[a], 1)
      /\ \A k \in Reviews : SweptReview[k] = Swept(review[k], MaxAttempts)
  BY DEF SweptWatch, SweptReview
<1>2. Reviewer \in Workers /\ MaxAttempts \in Nat
  BY ReviewerWorks, TicketBounds DEF TicketBounds
<1>3. ASSUME NEW a \in Alarms, ClaimWatch(a)
      PROVE  WatchAbides /\ ReviewAbides
  <2>1. Abides(watch[a], Claimed(SweptWatch[a], Reviewer))
    BY <1>1, <1>2, <1>3, ClaimedAbides DEF ClaimWatch, TablesBooked
  <2> QED BY <1>1, <1>3, <2>1, SweptTablesAbide
          DEF ClaimWatch, WatchAbides, ReviewAbides
<1>4. ASSUME NEW k \in Reviews, ClaimReview(k)
      PROVE  WatchAbides /\ ReviewAbides
  <2>1. Abides(review[k], Claimed(SweptReview[k], Reviewer))
    BY <1>1, <1>2, <1>4, ClaimedAbides DEF ClaimReview, TablesBooked
  <2> QED BY <1>1, <1>4, <2>1, SweptTablesAbide
          DEF ClaimReview, WatchAbides, ReviewAbides
<1>5. CASE PollNothing
  BY <1>5, SweptTablesAbide DEF PollNothing, WatchAbides, ReviewAbides
<1> QED BY <1>3, <1>4, <1>5

LEMMA ClockAbides ==
    ASSUME IInv, TablesBooked,
           \/ \E a \in Alarms : WatchDue(a)
           \/ \E k \in Reviews : ReviewDue(k)
           \/ Lapse
    PROVE  WatchAbides /\ ReviewAbides
<1>1. /\ \A a \in Alarms : Booked(watch[a])
      /\ \A k \in Reviews : Booked(review[k])
  BY DEF TablesBooked
<1>2. ASSUME NEW a \in Alarms, watch[a].status \in Waiting \cup {"running"},
             UNCHANGED review,
             \/ watch' = [watch EXCEPT ![a] = [@ EXCEPT !.due = TRUE]]
             \/ watch' = [watch EXCEPT ![a] = [@ EXCEPT !.expired = TRUE]]
      PROVE  WatchAbides /\ ReviewAbides
  <2>1. /\ Abides(watch[a], [watch[a] EXCEPT !.due = TRUE])
        /\ Abides(watch[a], [watch[a] EXCEPT !.expired = TRUE])
    BY <1>1, <1>2, ColumnsAbide DEF Waiting
  <2> QED BY <1>2, <2>1, OneRowAbides, SameTablesAbide
<1>3. ASSUME NEW k \in Reviews, review[k].status \in Waiting \cup {"running"},
             UNCHANGED watch,
             \/ review' = [review EXCEPT ![k] = [@ EXCEPT !.due = TRUE]]
             \/ review' = [review EXCEPT ![k] = [@ EXCEPT !.expired = TRUE]]
      PROVE  WatchAbides /\ ReviewAbides
  <2>1. /\ Abides(review[k], [review[k] EXCEPT !.due = TRUE])
        /\ Abides(review[k], [review[k] EXCEPT !.expired = TRUE])
    BY <1>1, <1>3, ColumnsAbide DEF Waiting
  <2> QED BY <1>3, <2>1, OneRowAbides, SameTablesAbide
<1> QED BY <1>2, <1>3 DEF WatchDue, ReviewDue, Lapse

LEMMA StepAbides ==
    ASSUME IInv, TablesBooked, [Next]_vars
    PROVE  WatchAbides /\ ReviewAbides
<1>1. CASE UNCHANGED vars
  BY <1>1, SameTablesAbide DEF vars
<1> QED BY <1>1, TurnsAbide, WorkersAbide, ClaimsAbide, ClockAbides
        DEF Next, Progress

(* Every watchdog and every review is leased under epochs without gaps and *)
(* is never done again once it is done, although the worker settles its    *)
(* jobs without a fencing token, turns and children enqueue them again,    *)
(* and every claim sweeps both tables.                                     *)
THEOREM TicketJobsKeepTheLedger == Spec => LedgerSpec
<1>1. Init => /\ TablesBooked
              /\ WatchLedger!Init /\ ReviewLedger!Init
  <2>1. AbsentRow \in Row
    BY DEF AbsentRow, Row, Statuses
  <2>2. Booked(AbsentRow)
    BY <2>1 DEF Booked, Sound, AbsentRow
  <2>3. /\ LedgerEntry(AbsentRow) = WatchLedger!NewEntry
        /\ LedgerEntry(AbsentRow) = ReviewLedger!NewEntry
    BY PhaseOf
    DEF AbsentRow, LedgerEntry, WatchLedger!NewEntry, ReviewLedger!NewEntry
  <2> QED BY <2>2, <2>3
          DEF Init, TablesBooked, WatchLedger!Init, ReviewLedger!Init,
              WatchView, ReviewView
<1>2. IInv /\ TablesBooked /\ [Next]_vars =>
          /\ TablesBooked'
          /\ [WatchLedger!Next]_WatchView /\ [ReviewLedger!Next]_ReviewView
  <2> SUFFICES ASSUME IInv, TablesBooked, [Next]_vars
               PROVE  TablesBooked' /\ WatchLedger!Next /\ ReviewLedger!Next
    OBVIOUS
  <2>1. WatchAbides /\ ReviewAbides
    BY StepAbides
  <2>2. \A a \in Alarms : Booked(watch'[a]) /\ watch'[a] \in Row
    BY <2>1 DEF WatchAbides, Abides, Booked, Sound
  <2>3. \A k \in Reviews : Booked(review'[k]) /\ review'[k] \in Row
    BY <2>1 DEF ReviewAbides, Abides, Booked, Sound
  <2>4. WatchLedger!Next
    <3>1. \A a \in Alarms :
            WatchLedger!Lawful(LedgerEntry(watch[a]), LedgerEntry(watch'[a]))
      BY <2>1
      DEF WatchAbides, Abides, Law!Lawful, Law!Submit, Law!Grant, Law!Finish,
          Law!GiveBack, Law!Abort, Law!Reopen, Law!Unheld,
          WatchLedger!Lawful, WatchLedger!Submit, WatchLedger!Grant,
          WatchLedger!Finish, WatchLedger!GiveBack, WatchLedger!Abort,
          WatchLedger!Reopen, WatchLedger!Unheld
    <3>2. \A a \in Alarms : LedgerEntry(watch'[a]) \in WatchLedger!Entry
      BY <2>2, EntriesHaveType DEF Law!Entry, WatchLedger!Entry
    <3> QED BY <3>1, <3>2 DEF WatchLedger!Next, WatchView
  <2>5. ReviewLedger!Next
    <3>1. \A k \in Reviews :
            ReviewLedger!Lawful(LedgerEntry(review[k]), LedgerEntry(review'[k]))
      BY <2>1
      DEF ReviewAbides, Abides, Law!Lawful, Law!Submit, Law!Grant, Law!Finish,
          Law!GiveBack, Law!Abort, Law!Reopen, Law!Unheld,
          ReviewLedger!Lawful, ReviewLedger!Submit, ReviewLedger!Grant,
          ReviewLedger!Finish, ReviewLedger!GiveBack, ReviewLedger!Abort,
          ReviewLedger!Reopen, ReviewLedger!Unheld
    <3>2. \A k \in Reviews : LedgerEntry(review'[k]) \in ReviewLedger!Entry
      BY <2>3, EntriesHaveType DEF Law!Entry, ReviewLedger!Entry
    <3> QED BY <3>1, <3>2 DEF ReviewLedger!Next, ReviewView
  <2> QED BY <2>2, <2>3, <2>4, <2>5 DEF TablesBooked
<1> QED BY <1>1, <1>2, Invariant, PTL
        DEF Spec, LedgerSpec, WatchLedger!Spec, ReviewLedger!Spec
=============================================================================
