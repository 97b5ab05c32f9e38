----------------------- MODULE ActionApproval_proofs -----------------------
(***************************************************************************)
(* The inductive invariant of ActionApproval, that an approved action      *)
(* takes effect at most once and under one worker at a time, that the      *)
(* proposals keep the documented lifecycle, and that their cards and jobs  *)
(* keep up with them: for any set of proposals and workers and any attempt *)
(* budgets.                                                                *)
(***************************************************************************)
EXTENDS ActionApproval, JobRows_proofs

Busy == {"check", "finish"}

(* The moves of a proposal that neither begin nor end an execution. *)
QuietMoves ==
    {<<"absent", "pending">>}
        \cup {"pending"} \X {"approved", "rejected", "expired", "superseded"}
        \cup {"approved"} \X {"expired", "canceled"}

Keeps(r, s) ==
    /\ s \in Proposal
    /\ s.fence = r.fence
    /\ s.state = r.state \/ <<r.state, s.state>> \in QuietMoves

QuietJobs == \A j \in Jobs : Steady(job[j], job'[j])
QuietProposals == \A p \in Proposals : Keeps(proposal[p], proposal'[p])

Entry(r, n) == [state |-> r.state, effects |-> n]

Lawfully ==
    \A p \in Proposals :
        Lifecycle!Lawful(Entry(proposal[p], effects[p]),
                         Entry(proposal'[p], effects'[p]))

Others(w) ==
    \A v \in Workers \ {w} :
        /\ pc'[v] = pc[v] /\ current'[v] = current[v]
        /\ held'[v] = held[v] /\ answer'[v] = answer[v]

LEMMA RowFacts ==
    ASSUME IInv, NEW j \in Jobs
    PROVE  /\ job[j] \in Row
           /\ Sound(job[j])
           /\ Steady(job[j], job[j])
BY DEF IInv, TypeOK, RowsOK, Sound, Steady

LEMMA ProposalFacts ==
    ASSUME IInv, NEW p \in Proposals
    PROVE  /\ proposal[p] \in Proposal
           /\ Keeps(proposal[p], proposal[p])
           /\ effects[p] \in 0 .. 1
BY DEF IInv, TypeOK, EffectsOK, Keeps

LEMMA ClaimFacts ==
    ASSUME IInv, NEW w \in Workers, NEW c \in held[w]
    PROVE  /\ c \in Claims
           /\ c.job \in Jobs
           /\ c.job[1] \in Proposals
           /\ c.job = <<c.job[1], Kind(c)>>
BY DEF IInv, TypeOK, Claims, Jobs, Kind

LEMMA BudgetsAreNat ==
    ASSUME NEW k
    PROVE  MaxAttempts(k) \in Nat
BY BudgetAssumption DEF MaxAttempts

----------------------------------------------------------------------------
(* Quiet steps *)

LEMMA KeepsIsLawful ==
    ASSUME NEW r, NEW s, NEW n, Keeps(r, s)
    PROVE  Lifecycle!Lawful(Entry(r, n), Entry(s, n))
<1>1. CASE s.state = r.state
  BY <1>1 DEF Lifecycle!Lawful, Entry
<1>2. CASE <<r.state, s.state>> \in QuietMoves
  <2>1. r.state # "executing"
    BY <1>2 DEF QuietMoves
  <2>2. <<r.state, s.state>> \in Lifecycle!Diagram
    BY <1>2 DEF QuietMoves, Lifecycle!Diagram
  <2>3. QED
    BY <2>1, <2>2 DEF Lifecycle!Lawful, Lifecycle!Move, Entry
<1>3. QED  BY <1>1, <1>2 DEF Keeps

LEMMA QuietIsLawful ==
    ASSUME IInv, QuietProposals, effects' = effects
    PROVE  Lawfully
BY KeepsIsLawful DEF QuietProposals, Lawfully

(* What a quiet move leaves alone. *)
LEMMA KeepsFacts ==
    ASSUME NEW r \in Proposal, NEW s, Keeps(r, s)
    PROVE  /\ r.state = "executing" <=> s.state = "executing"
           /\ r.state \in {"executing", "executed", "failed_terminal"}
                  => s.state = r.state
           /\ s.fence = r.fence
BY DEF Keeps, QuietMoves

LEMMA ClaimsKept ==
    ASSUME IInv, QuietJobs, \A w \in Workers : held'[w] \subseteq held[w]
    PROVE  ClaimsOK'
<1> SUFFICES ASSUME NEW w \in Workers, NEW c \in held'[w]
             PROVE  /\ c.token \in 1 .. job'[c.job].token
                    /\ \A v \in Workers \ {w} : c \notin held'[v]
  BY DEF ClaimsOK
<1>1. c \in held[w] /\ c.job \in Jobs
  BY ClaimFacts
<1>2. c.token \in 1 .. job[c.job].token /\ \A v \in Workers \ {w} : c \notin held[v]
  BY <1>1 DEF IInv, ClaimsOK
<1>3. job'[c.job].token = job[c.job].token
  BY <1>1 DEF QuietJobs, Steady
<1>4. QED  BY <1>1, <1>2, <1>3

LEMMA RowsKept ==
    ASSUME QuietJobs
    PROVE  RowsOK'
BY DEF QuietJobs, Steady, Sound, RowsOK

LEMMA DispatchKept ==
    ASSUME IInv, QuietProposals, effects' = effects,
           \A w \in Workers : pc'[w] \in Busy =>
               pc'[w] = pc[w] /\ current'[w] = current[w] /\ answer'[w] = answer[w]
    PROVE  DispatchOK'
<1> SUFFICES ASSUME NEW w \in Workers, pc'[w] \in Busy
             PROVE  LET p == current'[w].job[1]
                    IN  /\ proposal'[p].state = "executing"
                        /\ proposal'[p].fence = current'[w].token
                        /\ pc'[w] = "check" => effects'[p] = 0
                        /\ pc'[w] = "finish" => Agrees(answer'[w], effects'[p])
  BY DEF DispatchOK, Busy
<1> DEFINE p == current[w].job[1]
<1>1. pc[w] \in Busy /\ pc'[w] = pc[w] /\ current'[w] = current[w]
      /\ answer'[w] = answer[w]
  OBVIOUS
<1>2. current[w] \in held[w]
  BY <1>1 DEF IInv, CurrentOK, Busy, Idle
<1>3. p \in Proposals
  BY <1>2, ClaimFacts
<1>4. /\ proposal[p].state = "executing"
      /\ proposal[p].fence = current[w].token
      /\ pc[w] = "check" => effects[p] = 0
      /\ pc[w] = "finish" => Agrees(answer[w], effects[p])
  BY <1>1 DEF IInv, DispatchOK, Busy
<1>5. proposal'[p].state = "executing" /\ proposal'[p].fence = proposal[p].fence
  BY <1>3, <1>4, KeepsFacts, ProposalFacts DEF QuietProposals
<1>6. QED  BY <1>1, <1>4, <1>5

LEMMA EffectsKept ==
    ASSUME IInv, QuietProposals, effects' = effects
    PROVE  EffectsOK'
<1> SUFFICES ASSUME NEW p \in Proposals
             PROVE  /\ effects'[p] \in 0 .. 1
                    /\ effects'[p] = 1 => proposal'[p].state \in
                            {"executing", "executed", "failed_terminal"}
  BY DEF EffectsOK
<1>1. Keeps(proposal[p], proposal'[p]) /\ proposal[p] \in Proposal
  BY ProposalFacts DEF QuietProposals
<1>2. QED  BY <1>1, KeepsFacts DEF IInv, EffectsOK

(* A quiet step of a human, an operator or the clock. *)
LEMMA OutsideStep ==
    ASSUME IInv, TypeOK', QuietJobs, QuietProposals, effects' = effects,
           UNCHANGED workerVars
    PROVE  IInv' /\ Lawfully
<1>1. CurrentOK'
  BY DEF IInv, CurrentOK, workerVars
<1>2. ClaimsOK'
  BY ClaimsKept DEF workerVars
<1>3. DispatchOK'
  BY DispatchKept DEF workerVars
<1>4. QED
  BY <1>1, <1>2, <1>3, RowsKept, EffectsKept, QuietIsLawful DEF IInv

(* A quiet step of a worker. *)
LEMMA WorkerStep ==
    ASSUME IInv, TypeOK', QuietJobs, QuietProposals, effects' = effects,
           NEW w \in Workers, Others(w),
           held'[w] \subseteq held[w],
           pc'[w] \notin Busy,
           pc'[w] \notin Idle => current'[w] \in held'[w],
           pc'[w] = "begin" => Kind(current'[w]) = "execution",
           pc'[w] \in Delivering => Kind(current'[w]) \in Cards
    PROVE  IInv' /\ Lawfully
<1>1. CurrentOK'
  <2> SUFFICES ASSUME NEW v \in Workers
               PROVE  /\ pc'[v] \notin Idle => current'[v] \in held'[v]
                      /\ pc'[v] \in Executing => Kind(current'[v]) = "execution"
                      /\ pc'[v] \in Delivering => Kind(current'[v]) \in Cards
                      /\ pc'[v] = "finish" => answer'[v] \in Answers
    BY DEF CurrentOK, Kind
  <2>1. CASE v = w
    BY <2>1 DEF Busy, Executing
  <2>2. CASE v # w
    BY <2>2 DEF Others, IInv, CurrentOK, Kind
  <2>3. QED  BY <2>1, <2>2
<1>2. ClaimsOK'
  BY ClaimsKept DEF Others
<1>3. DispatchOK'
  BY DispatchKept DEF Others
<1>4. QED
  BY <1>1, <1>2, <1>3, RowsKept, EffectsKept, QuietIsLawful DEF IInv

----------------------------------------------------------------------------
(* expire_due *)

LEMMA ExpiredKeeps ==
    ASSUME NEW r \in Proposal
    PROVE  Keeps(r, Expired(r))
BY DEF Expired, Proposal, States, Keeps, QuietMoves

LEMMA DroppedIsSteady ==
    ASSUME NEW r, Sound(r)
    PROVE  Steady(r, Dropped(r))
BY RequestsAreSteady DEF Dropped, Steady

LEMMA ExpiredJobFacts ==
    ASSUME IInv
    PROVE  /\ ExpiredJobs \in [Jobs -> Row]
           /\ \A j \in Jobs : Steady(job[j], ExpiredJobs[j])
<1>1. ASSUME NEW j \in Jobs
      PROVE  ExpiredJobs[j] = Dropped(job[j]) \/ ExpiredJobs[j] = job[j]
  BY DEF ExpiredJobs
<1>2. \A j \in Jobs : Steady(job[j], ExpiredJobs[j])
  BY <1>1, RowFacts, DroppedIsSteady
<1>3. \A j \in Jobs : ExpiredJobs[j] \in Row
  BY <1>2 DEF Steady, Sound
<1>4. QED  BY <1>2, <1>3 DEF ExpiredJobs

LEMMA ExpiredProposalFacts ==
    ASSUME IInv
    PROVE  /\ ExpiredProposals \in [Proposals -> Proposal]
           /\ \A p \in Proposals : /\ ExpiredProposals[p] = Expired(proposal[p])
                                    /\ Keeps(proposal[p], ExpiredProposals[p])
<1>1. \A p \in Proposals : ExpiredProposals[p] = Expired(proposal[p])
  BY DEF ExpiredProposals
<1>2. \A p \in Proposals : Keeps(proposal[p], ExpiredProposals[p])
  BY <1>1, ProposalFacts, ExpiredKeeps
<1>3. \A p \in Proposals : ExpiredProposals[p] \in Proposal
  BY <1>2 DEF Keeps
<1>4. QED  BY <1>1, <1>2, <1>3 DEF ExpiredProposals

(* A row of one job is replaced after expire_due, or without it. *)
LEMMA OneRow ==
    ASSUME IInv, NEW jobs \in [Jobs -> Row],
           \A j \in Jobs : Steady(job[j], jobs[j]),
           NEW j \in Jobs, NEW r, Steady(jobs[j], r),
           job' = [jobs EXCEPT ![j] = r]
    PROVE  job' \in [Jobs -> Row] /\ QuietJobs
<1>1. r \in Row  BY DEF Steady, Sound
<1>2. job' \in [Jobs -> Row]  BY <1>1
<1>3. ASSUME NEW i \in Jobs PROVE Steady(job[i], job'[i])
  BY DEF Steady
<1>4. QED  BY <1>2, <1>3 DEF QuietJobs

LEMMA SameJobs ==
    ASSUME IInv, UNCHANGED job
    PROVE  job' \in [Jobs -> Row] /\ QuietJobs
BY RowFacts DEF QuietJobs, IInv, TypeOK

LEMMA SweptJobsByExpiry ==
    ASSUME IInv, job' = ExpiredJobs
    PROVE  job' \in [Jobs -> Row] /\ QuietJobs
BY ExpiredJobFacts DEF QuietJobs

LEMMA JobRow ==
    ASSUME IInv, NEW j \in Jobs, NEW r, Steady(job[j], r),
           job' = [job EXCEPT ![j] = r]
    PROVE  job' \in [Jobs -> Row] /\ QuietJobs
BY OneRow, RowFacts DEF IInv, TypeOK

(* A proposal is replaced after expire_due, or without it. *)
LEMMA OneProposal ==
    ASSUME IInv, NEW props \in [Proposals -> Proposal],
           \A p \in Proposals : Keeps(proposal[p], props[p]),
           NEW p \in Proposals, NEW r, Keeps(proposal[p], r),
           proposal' = [props EXCEPT ![p] = r]
    PROVE  proposal' \in [Proposals -> Proposal] /\ QuietProposals
<1>1. r \in Proposal  BY DEF Keeps
<1>2. proposal' \in [Proposals -> Proposal]  BY <1>1
<1>3. ASSUME NEW q \in Proposals PROVE Keeps(proposal[q], proposal'[q])
  OBVIOUS
<1>4. QED  BY <1>2, <1>3 DEF QuietProposals

LEMMA ProposalRow ==
    ASSUME IInv, NEW p \in Proposals, NEW r, Keeps(proposal[p], r),
           proposal' = [proposal EXCEPT ![p] = r]
    PROVE  proposal' \in [Proposals -> Proposal] /\ QuietProposals
BY OneProposal, ProposalFacts DEF IInv, TypeOK

LEMMA SameProposals ==
    ASSUME IInv, UNCHANGED proposal
    PROVE  proposal' \in [Proposals -> Proposal] /\ QuietProposals
BY ProposalFacts DEF QuietProposals, IInv, TypeOK

LEMMA ExpiredProposalsOnly ==
    ASSUME IInv, proposal' = ExpiredProposals
    PROVE  proposal' \in [Proposals -> Proposal] /\ QuietProposals
BY ExpiredProposalFacts DEF QuietProposals

----------------------------------------------------------------------------
(* Humans, operators and the clock *)

LEMMA OutsideTypes ==
    ASSUME IInv, job' \in [Jobs -> Row],
           proposal' \in [Proposals -> Proposal],
           effects' = effects, UNCHANGED workerVars, calls' \in Nat
    PROVE  TypeOK'
BY DEF IInv, TypeOK, workerVars

LEMMA HumanStep ==
    ASSUME IInv, NEW p \in Proposals, Human(p)
    PROVE  IInv' /\ Lawfully
<1>0. proposal[p] \in Proposal /\ calls \in Nat
      /\ <<p, "notification">> \in Jobs /\ <<p, "execution">> \in Jobs
  BY ProposalFacts DEF IInv, TypeOK, Jobs, Kinds
<1>1. CASE CreateActionProposal(p)
  <2>1. proposal' \in [Proposals -> Proposal] /\ QuietProposals
    <3>1. Keeps(proposal[p], [proposal[p] EXCEPT !.state = "pending"])
      BY <1>0, <1>1
      DEF CreateActionProposal, Keeps, QuietMoves, Proposal, States
    <3>2. QED  BY <1>1, <3>1, ProposalRow DEF CreateActionProposal
  <2>2. job' \in [Jobs -> Row] /\ QuietJobs
    <3>1. CASE p \in Local
      BY <1>1, <3>1, SameJobs DEF CreateActionProposal
    <3>2. CASE p \notin Local
      <4>1. job' = [job EXCEPT ![<<p, "notification">>] =
                        Enqueued(job[<<p, "notification">>], TRUE)]
        BY <1>1, <3>2 DEF CreateActionProposal
      <4>2. QED  BY <1>0, <4>1, RowFacts, RequestsAreSteady, JobRow
    <3>3. QED  BY <3>1, <3>2
  <2>3. QED
    BY <1>0, <1>1, <2>1, <2>2, OutsideTypes, OutsideStep
    DEF CreateActionProposal
<1>2. CASE Approve(p)
  <2>1. proposal' \in [Proposals -> Proposal] /\ QuietProposals
    <3>1. Keeps(proposal[p],
                [ExpiredProposals[p] EXCEPT !.state = "approved"])
      BY <1>0, <1>2, ExpiredProposalFacts
      DEF Approve, Decidable, Expired, Keeps, QuietMoves, Proposal, States
    <3>2. QED
      BY <1>2, <3>1, ExpiredProposalFacts, OneProposal DEF Approve, SetState
  <2>2. job' \in [Jobs -> Row] /\ QuietJobs
    <3>1. job' = [ExpiredJobs EXCEPT ![<<p, "execution">>] =
                      Enqueued(ExpiredJobs[<<p, "execution">>], TRUE)]
      BY <1>2 DEF Approve
    <3>2. Sound(ExpiredJobs[<<p, "execution">>])
      BY <1>0, ExpiredJobFacts DEF Steady
    <3>3. QED
      BY <1>0, <3>1, <3>2, ExpiredJobFacts, RequestsAreSteady, OneRow
  <2>3. QED
    BY <1>0, <1>2, <2>1, <2>2, OutsideTypes, OutsideStep DEF Approve
<1>3. CASE Reject(p)
  <2>1. proposal' \in [Proposals -> Proposal] /\ QuietProposals
    <3>1. Keeps(proposal[p],
                [ExpiredProposals[p] EXCEPT !.state = "rejected"])
      BY <1>0, <1>3, ExpiredProposalFacts
      DEF Reject, Decidable, Expired, Keeps, QuietMoves, Proposal, States
    <3>2. QED
      BY <1>3, <3>1, ExpiredProposalFacts, OneProposal DEF Reject, SetState
  <2>2. QED
    BY <1>0, <1>3, <2>1, SweptJobsByExpiry, OutsideTypes, OutsideStep
    DEF Reject
<1>4. CASE Supersede(p)
  <2>1. Keeps(proposal[p], [proposal[p] EXCEPT !.state = "superseded"])
    BY <1>0, <1>4 DEF Supersede, Keeps, QuietMoves, Proposal, States
  <2>2. QED
    BY <1>0, <1>4, <2>1, ProposalRow, SameJobs, OutsideTypes, OutsideStep
    DEF Supersede
<1>5. CASE CancelApprovedAction(p)
  <2>1. Keeps(proposal[p], [proposal[p] EXCEPT !.state = "canceled"])
    BY <1>0, <1>5
    DEF CancelApprovedAction, Cancelable, Keeps, QuietMoves, Proposal, States
  <2>2. job' = [job EXCEPT ![<<p, "execution">>] =
                    Dropped(job[<<p, "execution">>])]
    BY <1>5 DEF CancelApprovedAction
  <2>3. job' \in [Jobs -> Row] /\ QuietJobs
    BY <1>0, <2>2, RowFacts, DroppedIsSteady, JobRow
  <2>4. QED
    BY <1>0, <1>5, <2>1, <2>3, ProposalRow, OutsideTypes, OutsideStep
    DEF CancelApprovedAction
<1>6. QED  BY <1>1, <1>2, <1>3, <1>4, <1>5 DEF Human

LEMMA ExpireDueStep ==
    ASSUME IInv, ExpireDue
    PROVE  IInv' /\ Lawfully
BY ExpiredProposalsOnly, SweptJobsByExpiry, OutsideTypes, OutsideStep
DEF ExpireDue, IInv, TypeOK

LEMMA ClockAndOperatorStep ==
    ASSUME IInv,
           \/ \E p \in Proposals : ApprovalRunsOut(p)
           \/ \E j \in Jobs : CancelJob(j) \/ RequeueJob(j) \/ LeaseExpires(j)
    PROVE  IInv' /\ Lawfully
<1>0. calls \in Nat  BY DEF IInv, TypeOK
<1>1. ASSUME NEW p \in Proposals, ApprovalRunsOut(p)
      PROVE  IInv' /\ Lawfully
  <2>1. Keeps(proposal[p], [proposal[p] EXCEPT !.overdue = TRUE])
    BY ProposalFacts DEF Keeps, Proposal
  <2>2. QED
    BY <1>0, <1>1, <2>1, ProposalRow, SameJobs, OutsideTypes, OutsideStep
    DEF ApprovalRunsOut
<1>2. ASSUME NEW j \in Jobs, NEW r, Steady(job[j], r), OperatorSets(j, r)
      PROVE  IInv' /\ Lawfully
  <2>1. job' \in [Jobs -> Row] /\ QuietJobs
    BY <1>2, JobRow DEF OperatorSets
  <2>2. QED
    BY <1>0, <1>2, <2>1, SameProposals, OutsideTypes, OutsideStep
    DEF OperatorSets
<1>3. ASSUME NEW j \in Jobs, CancelJob(j)
      PROVE  IInv' /\ Lawfully
  BY <1>2, <1>3, RowFacts, RequestsAreSteady DEF CancelJob
<1>4. ASSUME NEW j \in Jobs, RequeueJob(j)
      PROVE  IInv' /\ Lawfully
  BY <1>2, <1>4, RowFacts, RequeuedIsSteady DEF RequeueJob
<1>5. ASSUME NEW j \in Jobs, LeaseExpires(j)
      PROVE  IInv' /\ Lawfully
  <2>1. Steady(job[j], [job[j] EXCEPT !.expired = TRUE])
    BY <1>5, RowFacts, ExpiryIsSteady DEF LeaseExpires
  <2>2. job' \in [Jobs -> Row] /\ QuietJobs
    BY <1>5, <2>1, JobRow DEF LeaseExpires
  <2>3. QED
    BY <1>0, <1>5, <2>2, SameProposals, OutsideTypes, OutsideStep
    DEF LeaseExpires
<1>6. QED  BY <1>1, <1>3, <1>4, <1>5

----------------------------------------------------------------------------
(* Quiet steps of a worker *)

Becomes(w, h, s, c, a) ==
    /\ held' = [held EXCEPT ![w] = h]
    /\ pc' = [pc EXCEPT ![w] = s]
    /\ current' = [current EXCEPT ![w] = c]
    /\ answer' = [answer EXCEPT ![w] = a]
    /\ UNCHANGED calls

LEMMA ItselfFacts ==
    ASSUME IInv, NEW w \in Workers
    PROVE  /\ held = [held EXCEPT ![w] = held[w]]
           /\ current = [current EXCEPT ![w] = current[w]]
           /\ answer = [answer EXCEPT ![w] = answer[w]]
           /\ held[w] \subseteq Claims
           /\ answer[w] \in Answers \cup {None}
BY DEF IInv, TypeOK

(* A worker that is in a job holds the claim of the job. *)
LEMMA InAJob ==
    ASSUME IInv, NEW w \in Workers, pc[w] \notin Idle
    PROVE  /\ current[w] \in held[w]
           /\ current[w] \in Claims
           /\ current[w].job \in Jobs
           /\ current[w].job[1] \in Proposals
           /\ current[w].job = <<current[w].job[1], Kind(current[w])>>
<1>1. current[w] \in held[w]  BY DEF IInv, CurrentOK
<1>2. QED  BY <1>1, ClaimFacts

LEMMA Becoming ==
    ASSUME IInv, job' \in [Jobs -> Row],
           proposal' \in [Proposals -> Proposal],
           effects' \in [Proposals -> Nat],
           NEW w \in Workers, NEW h \in SUBSET Claims, NEW s \in Steps,
           NEW c \in Claims \cup {NoClaim}, NEW a \in Answers \cup {None},
           Becomes(w, h, s, c, a)
    PROVE  /\ TypeOK' /\ Others(w)
           /\ held'[w] = h /\ pc'[w] = s /\ current'[w] = c /\ answer'[w] = a
<1>1. TypeOK'  BY DEF IInv, TypeOK, Becomes
<1>2. QED  BY <1>1 DEF IInv, TypeOK, Becomes, Others

LEMMA QuietWorkerStep ==
    ASSUME IInv, job' \in [Jobs -> Row], QuietJobs,
           proposal' \in [Proposals -> Proposal], QuietProposals,
           UNCHANGED effects,
           NEW w \in Workers, NEW h \in SUBSET held[w],
           NEW s \in Steps \ Busy, NEW c \in held[w] \cup {NoClaim},
           NEW a \in Answers \cup {None},
           s \notin Idle => c \in h,
           s = "begin" => Kind(c) = "execution",
           s \in Delivering => Kind(c) \in Cards,
           Becomes(w, h, s, c, a)
    PROVE  IInv' /\ Lawfully
<1>1. h \in SUBSET Claims /\ c \in Claims \cup {NoClaim}
  BY ItselfFacts
<1>2. effects' \in [Proposals -> Nat]
  BY DEF IInv, TypeOK
<1>3. /\ TypeOK' /\ Others(w)
      /\ held'[w] = h /\ pc'[w] = s /\ current'[w] = c /\ answer'[w] = a
  BY <1>1, <1>2, Becoming
<1>4. QED  BY <1>3, WorkerStep

LEMMA TakeStep ==
    ASSUME IInv, NEW w \in Workers, NEW c \in held[w],
           TakeNotification(w, c) \/ TakeExecution(w, c) \/ TakeOutcome(w, c)
    PROVE  IInv' /\ Lawfully
<1>1. PICK k \in Kinds, s \in Steps \ Busy :
          /\ Take(w, c, k) /\ Goto(w, s)
          /\ s \notin Idle
          /\ s = "begin" => Kind(c) = "execution"
          /\ s \in Delivering => Kind(c) \in Cards
  <2>1. CASE TakeNotification(w, c)
    <3>1. Take(w, c, "notification") /\ Kind(c) \in Cards
      BY <2>1 DEF TakeNotification, Take, Cards
    <3>2. PICK s \in {"complete", "dead_letter", "send", "retry"} : Goto(w, s)
      BY <2>1 DEF TakeNotification
    <3>3. QED  BY <3>1, <3>2 DEF Kinds, Steps, Busy, Idle
  <2>2. CASE TakeExecution(w, c)
    <3> DEFINE s == CASE Expired(proposal[c.job[1]]).state = "approved" -> "begin"
                      [] Expired(proposal[c.job[1]]).state = "executing" -> "dead_letter"
                      [] OTHER -> "complete"
    <3>1. s \in {"begin", "dead_letter", "complete"}
      OBVIOUS
    <3>2. Take(w, c, "execution") /\ Goto(w, s) /\ Kind(c) = "execution"
      BY <2>2 DEF TakeExecution, Take
    <3> HIDE DEF s
    <3>3. QED  BY <3>1, <3>2 DEF Kinds, Steps, Busy, Idle, Delivering
  <2>3. CASE TakeOutcome(w, c)
    <3>1. Take(w, c, "outcome") /\ Kind(c) \in Cards
      BY <2>3 DEF TakeOutcome, Take, Cards
    <3>2. PICK s \in {"complete", "dead_letter", "send", "retry"} : Goto(w, s)
      BY <2>3 DEF TakeOutcome
    <3>3. QED  BY <3>1, <3>2 DEF Kinds, Steps, Busy, Idle
  <2>4. QED  BY <2>1, <2>2, <2>3
<1>2. Becomes(w, held[w], s, c, answer[w])
  BY <1>1, ItselfFacts DEF Take, Goto, Becomes
<1>3. proposal' \in [Proposals -> Proposal] /\ QuietProposals
  BY <1>1, ExpiredProposalsOnly DEF Take
<1>4. job' \in [Jobs -> Row] /\ QuietJobs
  BY <1>1, SweptJobsByExpiry DEF Take
<1>5. answer[w] \in Answers \cup {None} /\ UNCHANGED effects
  BY <1>1, ItselfFacts DEF Take
<1>6. QED  BY <1>1, <1>2, <1>3, <1>4, <1>5, QuietWorkerStep

LEMMA SendStep ==
    ASSUME IInv, NEW w \in Workers, Send(w)
    PROVE  IInv' /\ Lawfully
<1>1. PICK s \in {"mark", "retry"} : Goto(w, s)
  BY DEF Send
<1>2. Becomes(w, held[w], s, current[w], answer[w])
  BY <1>1, ItselfFacts DEF Send, Goto, Becomes
<1>3. current[w] \in held[w] /\ answer[w] \in Answers \cup {None}
  BY InAJob, ItselfFacts DEF Send, Idle
<1>4. /\ s \in Steps \ Busy /\ s # "begin"
      /\ Kind(current[w]) \in Cards
  BY DEF Steps, Busy, Send, IInv, CurrentOK, Delivering
<1>5. QED
  BY <1>2, <1>3, <1>4, SameJobs, SameProposals, QuietWorkerStep DEF Send

LEMMA MarkDeliveredStep ==
    ASSUME IInv, NEW w \in Workers, MarkDelivered(w)
    PROVE  IInv' /\ Lawfully
<1> DEFINE p == current[w].job[1]
           k == Kind(current[w])
<1>1. current[w] \in held[w] /\ p \in Proposals
  BY InAJob DEF MarkDelivered, Idle
<1>2. PICK s \in {"complete", "retry"} : Goto(w, s)
  BY DEF MarkDelivered
<1>3. Becomes(w, held[w], s, current[w], answer[w])
  BY <1>2, ItselfFacts DEF MarkDelivered, Goto, Becomes
<1>4. proposal' \in [Proposals -> Proposal] /\ QuietProposals
  <2>1. CASE Markable(p, k)
    <3>1. k \in Cards
      BY DEF MarkDelivered, IInv, CurrentOK, Delivering
    <3>2. Keeps(proposal[p],
                [proposal[p] EXCEPT !.cards = proposal[p].cards \cup {k}])
      BY <1>1, <3>1, ProposalFacts DEF Keeps, Proposal
    <3>3. proposal' = [proposal EXCEPT ![p] =
              [proposal[p] EXCEPT !.cards = proposal[p].cards \cup {k}]]
      BY <2>1 DEF MarkDelivered
    <3>4. QED  BY <1>1, <3>2, <3>3, ProposalRow
  <2>2. CASE ~Markable(p, k)
    BY <2>2, SameProposals DEF MarkDelivered
  <2>3. QED  BY <2>1, <2>2
<1>5. /\ answer[w] \in Answers \cup {None}
      /\ s \in Steps \ Busy /\ s # "begin" /\ s \notin Delivering
  BY ItselfFacts DEF Steps, Busy, Delivering
<1>6. QED
  BY <1>1, <1>3, <1>4, <1>5, SameJobs, QuietWorkerStep DEF MarkDelivered

LEMMA RaiseStep ==
    ASSUME IInv, NEW w \in Workers, Raise(w)
    PROVE  IInv' /\ Lawfully
<1>1. PICK s \in {"retry", "dead_letter"} : Goto(w, s)
  BY DEF Raise
<1>2. Becomes(w, held[w], s, current[w], None)
  BY <1>1, ItselfFacts DEF Raise, Goto, Becomes
<1>3. current[w] \in held[w]
  BY InAJob DEF Raise, Idle
<1>4. s \in Steps \ Busy /\ s # "begin" /\ s \notin Delivering
  BY DEF Steps, Busy, Delivering
<1>5. QED
  BY <1>2, <1>3, <1>4, SameJobs, SameProposals, QuietWorkerStep DEF Raise

LEMMA CrashStep ==
    ASSUME IInv, NEW w \in Workers, Crash(w)
    PROVE  IInv' /\ Lawfully
<1>1. Becomes(w, {}, "next", NoClaim, None)
  BY DEF Crash, Goto, Becomes
<1>2. "next" \in Steps \ Busy /\ "next" \in Idle /\ "next" \notin Delivering
  BY DEF Steps, Busy, Idle, Delivering
<1>3. QED
  BY <1>1, <1>2, SameJobs, SameProposals, QuietWorkerStep DEF Crash

LEMMA SettleStep ==
    ASSUME IInv, NEW w \in Workers, pc[w] \notin Idle,
           NEW can \in BOOLEAN, NEW r, Steady(job[current[w].job], r),
           Settle(w, can, r)
    PROVE  IInv' /\ Lawfully
<1> DEFINE h == IF can THEN held[w] \ {current[w]} ELSE {}
<1>1. Becomes(w, h, "next", NoClaim, answer[w])
  BY ItselfFacts DEF Settle, Goto, Becomes
<1>2. /\ "next" \in Steps \ Busy /\ "next" \in Idle /\ "next" \notin Delivering
      /\ answer[w] \in Answers \cup {None}
  BY ItselfFacts DEF Steps, Busy, Idle, Delivering
<1>3. job' \in [Jobs -> Row] /\ QuietJobs
  <2>1. CASE can
    BY <2>1, InAJob, JobRow DEF Settle
  <2>2. CASE ~can
    BY <2>2, SameJobs DEF Settle
  <2>3. QED  BY <2>1, <2>2
<1>4. h \in SUBSET held[w]
  OBVIOUS
<1> HIDE DEF h
<1>5. QED
  BY <1>1, <1>2, <1>3, <1>4, SameProposals, QuietWorkerStep DEF Settle

LEMMA SettlingStep ==
    ASSUME IInv, NEW w \in Workers, Complete(w) \/ Retry(w) \/ DeadLetter(w)
    PROVE  IInv' /\ Lawfully
<1> DEFINE c == current[w]
           r == job[c.job]
           max == MaxAttempts(Kind(c))
<1>1. pc[w] \notin Idle
  BY DEF Complete, Retry, DeadLetter, Idle
<1>2. r \in Row /\ max \in Nat
  BY <1>1, InAJob, RowFacts, BudgetsAreNat
<1>3. /\ Steady(r, Completed(r))
      /\ Steady(r, DeadLettered(r))
      /\ Steady(r, Retried(r, max, TRUE))
  BY <1>2, SettledIsSteady
<1>4. CASE Complete(w)
  <2>1. CanComplete(r, w, c.token) \in BOOLEAN  BY DEF CanComplete
  <2>2. QED  BY <1>1, <1>3, <1>4, <2>1, SettleStep DEF Complete
<1>5. CASE Retry(w)
  <2>1. CanRetry(r, w, c.token) \in BOOLEAN  BY DEF CanRetry
  <2>2. QED  BY <1>1, <1>3, <1>5, <2>1, SettleStep DEF Retry
<1>6. CASE DeadLetter(w)
  <2>1. CanDeadLetter(r, w, c.token) \in BOOLEAN
    BY DEF CanDeadLetter, HeldBy
  <2>2. QED  BY <1>1, <1>3, <1>6, <2>1, SettleStep DEF DeadLetter
<1>7. QED  BY <1>4, <1>5, <1>6

----------------------------------------------------------------------------
(* claim_jobs *)

LEMMA SweptJobsFacts ==
    ASSUME IInv, NEW j \in Jobs
    PROVE  /\ SweptJobs[j] \in Row
           /\ Steady(job[j], SweptJobs[j])
<1>1. SweptJobs[j] = Swept(job[j], MaxAttempts(j[2]))
  BY DEF SweptJobs
<1>2. Steady(job[j], SweptJobs[j])
  BY <1>1, RowFacts, BudgetsAreNat, SweptIsSteady
<1>3. QED  BY <1>2 DEF Steady, Sound

LEMMA ClaimJobsRows ==
    ASSUME IInv, NEW w \in Workers, NEW k \in Kinds, ClaimJobs(w, k)
    PROVE  /\ job' \in [Jobs -> Row]
           /\ Candidates(k) \subseteq Jobs
           /\ \A j \in Jobs :
                 /\ Sound(job'[j])
                 /\ job'[j].token = IF j \in Candidates(k)
                                    THEN job[j].token + 1 ELSE job[j].token
<1>1. Candidates(k) \subseteq Jobs
  BY DEF Candidates, Jobs
<1>2. ASSUME NEW j \in Jobs
      PROVE  /\ Sound(job'[j])
             /\ job'[j].token = IF j \in Candidates(k)
                                THEN job[j].token + 1 ELSE job[j].token
  <2>1. job'[j] = IF j \in Candidates(k)
                  THEN Claimed(SweptJobs[j], w) ELSE SweptJobs[j]
    BY DEF ClaimJobs
  <2>2. SweptJobs[j] \in Row /\ Steady(job[j], SweptJobs[j])
    BY SweptJobsFacts
  <2>3. QED  BY <2>1, <2>2, ClaimedAdvances DEF Steady
<1>3. \A j \in Jobs : job'[j] \in Row
  BY <1>2 DEF Sound
<1>4. job' \in [Jobs -> Row]
  BY <1>3 DEF ClaimJobs
<1>5. QED  BY <1>1, <1>2, <1>4

LEMMA PollStep ==
    ASSUME IInv, NEW w \in Workers, Poll(w)
    PROVE  IInv' /\ Lawfully
<1>1. PICK k \in Kinds, s \in Idle :
          pc[w] \in Idle /\ ClaimJobs(w, k) /\ Goto(w, s)
  BY DEF Poll, PollNotification, PollExecution, PollOutcome, Kinds, Idle
<1> DEFINE new == {[job |-> j, token |-> job[j].token + 1] : j \in Candidates(k)}
<1>2. /\ job' \in [Jobs -> Row]
      /\ Candidates(k) \subseteq Jobs
      /\ \A j \in Jobs :
            /\ Sound(job'[j])
            /\ job'[j].token = IF j \in Candidates(k)
                               THEN job[j].token + 1 ELSE job[j].token
  BY <1>1, ClaimJobsRows
<1>3. \A j \in Jobs : job[j].token \in Nat
  BY RowFacts DEF Row
<1>4. ASSUME NEW c \in new
      PROVE  /\ c \in Claims
             /\ c.job \in Candidates(k) /\ c.token = job[c.job].token + 1
  BY <1>2, <1>3 DEF Claims
<1>5. held[w] \cup new \in SUBSET Claims
  BY <1>4, ItselfFacts
<1>6. Becomes(w, held[w] \cup new, s, current[w], answer[w])
  BY <1>1, ItselfFacts DEF ClaimJobs, Goto, Becomes
<1>7. /\ s \in Steps /\ current[w] \in Claims \cup {NoClaim}
      /\ answer[w] \in Answers \cup {None}
      /\ effects' \in [Proposals -> Nat]
  BY <1>1 DEF IInv, TypeOK, Steps, Idle, ClaimJobs
<1>8. proposal' \in [Proposals -> Proposal] /\ QuietProposals /\ UNCHANGED effects
  BY <1>1, SameProposals DEF ClaimJobs
<1>9. /\ TypeOK' /\ Others(w)
      /\ held'[w] = held[w] \cup new /\ pc'[w] = s
      /\ current'[w] = current[w] /\ answer'[w] = answer[w]
  BY <1>2, <1>5, <1>6, <1>7, <1>8, Becoming
<1>10. RowsOK'
  BY <1>2 DEF RowsOK, Sound
<1>11. ClaimsOK'
  <2>1. ASSUME NEW v \in Workers, NEW c \in held[v]
        PROVE  /\ c.token \in 1 .. job[c.job].token
               /\ c.token \in 1 .. job'[c.job].token
               /\ c \notin new
    <3>1. c.job \in Jobs /\ c.token \in 1 .. job[c.job].token
      BY ClaimFacts DEF IInv, ClaimsOK
    <3>2. job[c.job].token \in Nat
      BY <1>3, <3>1
    <3>3. c \notin new
      BY <1>4, <3>1, <3>2
    <3>4. QED  BY <1>2, <3>1, <3>2, <3>3
  <2>2. ASSUME NEW c \in new
        PROVE  c.token \in 1 .. job'[c.job].token
    BY <1>2, <1>3, <1>4
  <2> HIDE DEF new
  <2>3. ASSUME NEW v \in Workers, NEW c \in held'[v], NEW u \in Workers \ {v}
        PROVE  c.token \in 1 .. job'[c.job].token /\ c \notin held'[u]
    <3>1. held'[v] = IF v = w THEN held[w] \cup new ELSE held[v]
      BY <1>9 DEF Others
    <3>2. held'[u] = IF u = w THEN held[w] \cup new ELSE held[u]
      BY <1>9 DEF Others
    <3>3. CASE c \in held[v]
      <4>1. c \notin held[u]  BY <3>3 DEF IInv, ClaimsOK
      <4>2. QED  BY <2>1, <3>2, <3>3, <4>1
    <3>4. CASE c \notin held[v]
      <4>1. v = w /\ c \in new  BY <3>1, <3>4
      <4>2. c \notin held[u]  BY <2>1, <4>1
      <4>3. QED  BY <2>2, <3>2, <4>1, <4>2
    <3>5. QED  BY <3>3, <3>4
  <2>4. ASSUME NEW v \in Workers, NEW c \in held'[v]
        PROVE  c.token \in 1 .. job'[c.job].token
    <3>1. held'[v] = IF v = w THEN held[w] \cup new ELSE held[v]
      BY <1>9 DEF Others
    <3>2. QED  BY <2>1, <2>2, <3>1
  <2>5. QED  BY <2>3, <2>4 DEF ClaimsOK
<1>12. CurrentOK'
  <2> SUFFICES ASSUME NEW v \in Workers, pc'[v] \notin Idle
               PROVE  /\ current'[v] \in held'[v]
                      /\ pc'[v] \in Executing => Kind(current'[v]) = "execution"
                      /\ pc'[v] \in Delivering => Kind(current'[v]) \in Cards
                      /\ pc'[v] = "finish" => answer'[v] \in Answers
    BY DEF CurrentOK, Kind, Idle, Executing, Delivering
  <2>1. v # w  BY <1>9
  <2>2. QED  BY <1>9, <2>1 DEF Others, IInv, CurrentOK, Kind
<1>13. DispatchOK'
  BY <1>8, <1>9, DispatchKept DEF Others, Busy, Idle
<1>14. QED
  BY <1>8, <1>9, <1>10, <1>11, <1>12, <1>13, EffectsKept, QuietIsLawful
  DEF IInv

----------------------------------------------------------------------------
(* The steps of an execution *)

Alone(w, p) ==
    \A v \in Workers \ {w} : pc[v] \in Busy => current[v].job[1] # p

(* The token of an executing proposal is that of one claim, and the claim  *)
(* that of one worker.                                                     *)
LEMMA DispatcherIsAlone ==
    ASSUME IInv, NEW w \in Workers, pc[w] \in Busy
    PROVE  Alone(w, current[w].job[1])
<1> SUFFICES ASSUME NEW v \in Workers \ {w}, pc[v] \in Busy,
                    current[v].job[1] = current[w].job[1]
             PROVE  FALSE
  BY DEF Alone
<1>1. \A u \in {v, w} :
          /\ current[u] \in held[u] /\ current[u] \in Claims
          /\ current[u].job = <<current[u].job[1], "execution">>
          /\ proposal[current[u].job[1]].fence = current[u].token
  BY InAJob DEF IInv, CurrentOK, DispatchOK, Busy, Idle, Executing
<1>2. current[v].job = current[w].job /\ current[v].token = current[w].token
  BY <1>1
<1>3. current[v] = current[w]
  BY <1>1, <1>2 DEF Claims
<1>4. QED  BY <1>1, <1>3 DEF IInv, ClaimsOK

LEMMA NobodyExecutes ==
    ASSUME IInv, NEW w \in Workers, NEW p \in Proposals,
           proposal[p].state # "executing"
    PROVE  Alone(w, p)
BY DEF Alone, IInv, DispatchOK, Busy

(* A step of worker w that is about the effect of proposal p.              *)
LEMMA ExecutionStep ==
    ASSUME IInv, TypeOK', QuietJobs,
           NEW w \in Workers, Others(w), held'[w] = held[w],
           current'[w] = current[w], current[w] \in held[w],
           NEW p \in Proposals, p = current[w].job[1],
           Kind(current[w]) = "execution", Alone(w, p),
           pc'[w] \in Busy \cup {"complete", "retry"},
           pc'[w] = "finish" => answer'[w] \in Answers,
           \A q \in Proposals \ {p} :
               Keeps(proposal[q], proposal'[q]) /\ effects'[q] = effects[q],
           pc'[w] \in Busy =>
               /\ proposal'[p].state = "executing"
               /\ proposal'[p].fence = current[w].token,
           pc'[w] = "check" => effects'[p] = 0,
           pc'[w] = "finish" => Agrees(answer'[w], effects'[p]),
           effects'[p] \in 0 .. 1,
           effects'[p] = 1 => proposal'[p].state \in
               {"executing", "executed", "failed_terminal"},
           Lifecycle!Lawful(Entry(proposal[p], effects[p]),
                            Entry(proposal'[p], effects'[p]))
    PROVE  IInv' /\ Lawfully
<1>1. ClaimsOK' /\ RowsOK'
  BY ClaimsKept, RowsKept DEF Others
<1>2. CurrentOK'
  <2> SUFFICES ASSUME NEW v \in Workers
               PROVE  /\ pc'[v] \notin Idle => current'[v] \in held'[v]
                      /\ pc'[v] \in Executing => Kind(current'[v]) = "execution"
                      /\ pc'[v] \in Delivering => Kind(current'[v]) \in Cards
                      /\ pc'[v] = "finish" => answer'[v] \in Answers
    BY DEF CurrentOK, Kind
  <2>1. CASE v = w
    BY <2>1 DEF Busy, Delivering
  <2>2. CASE v # w
    BY <2>2 DEF Others, IInv, CurrentOK, Kind
  <2>3. QED  BY <2>1, <2>2
<1>3. DispatchOK'
  <2> SUFFICES ASSUME NEW v \in Workers, pc'[v] \in Busy
               PROVE  LET q == current'[v].job[1]
                      IN  /\ proposal'[q].state = "executing"
                          /\ proposal'[q].fence = current'[v].token
                          /\ pc'[v] = "check" => effects'[q] = 0
                          /\ pc'[v] = "finish" => Agrees(answer'[v], effects'[q])
    BY DEF DispatchOK, Busy
  <2>1. CASE v = w
    BY <2>1
  <2>2. CASE v # w
    <3> DEFINE q == current[v].job[1]
    <3>1. /\ pc[v] \in Busy /\ pc'[v] = pc[v]
          /\ current'[v] = current[v] /\ answer'[v] = answer[v]
      BY <2>2 DEF Others
    <3>2. q \in Proposals /\ q # p
      BY <2>2, <3>1, InAJob DEF Alone, Busy, Idle
    <3>3. /\ proposal[q].state = "executing"
          /\ proposal[q].fence = current[v].token
          /\ pc[v] = "check" => effects[q] = 0
          /\ pc[v] = "finish" => Agrees(answer[v], effects[q])
      BY <3>1 DEF IInv, DispatchOK, Busy
    <3>4. /\ proposal'[q].state = "executing"
          /\ proposal'[q].fence = proposal[q].fence
          /\ effects'[q] = effects[q]
      BY <3>2, <3>3, KeepsFacts, ProposalFacts
    <3>5. QED  BY <3>1, <3>3, <3>4
  <2>3. QED  BY <2>1, <2>2
<1>4. ASSUME NEW q \in Proposals \ {p}
      PROVE  /\ effects'[q] \in 0 .. 1
             /\ effects'[q] = 1 => proposal'[q].state \in
                     {"executing", "executed", "failed_terminal"}
             /\ Lifecycle!Lawful(Entry(proposal[q], effects[q]),
                                 Entry(proposal'[q], effects'[q]))
  <2>1. proposal[q] \in Proposal /\ Keeps(proposal[q], proposal'[q])
        /\ effects'[q] = effects[q]
    BY ProposalFacts
  <2>2. /\ effects'[q] \in 0 .. 1
        /\ effects'[q] = 1 => proposal'[q].state \in
                {"executing", "executed", "failed_terminal"}
    BY <2>1, KeepsFacts DEF IInv, EffectsOK
  <2>3. Lifecycle!Lawful(Entry(proposal[q], effects[q]),
                         Entry(proposal'[q], effects'[q]))
    BY <2>1, KeepsIsLawful
  <2>4. QED  BY <2>2, <2>3
<1>5. EffectsOK' /\ Lawfully
  BY <1>4 DEF EffectsOK, Lawfully
<1>6. QED  BY <1>1, <1>2, <1>3, <1>5 DEF IInv

LEMMA EffectsAreNat ==
    ASSUME IInv
    PROVE  effects \in [Proposals -> Nat]
BY DEF IInv, TypeOK

LEMMA BeginStep ==
    ASSUME IInv, NEW w \in Workers, BeginActionExecution(w)
    PROVE  IInv' /\ Lawfully
<1> DEFINE c == current[w]
           p == c.job[1]
           x == Expired(proposal[p]).state
<1>1. /\ c \in held[w] /\ c \in Claims /\ p \in Proposals
      /\ Kind(c) = "execution"
  BY InAJob DEF BeginActionExecution, Idle, IInv, CurrentOK, Executing
<1>2. answer[w] \in Answers \cup {None} /\ held[w] \in SUBSET Claims
      /\ proposal[p] \in Proposal
  BY <1>1, ItselfFacts, ProposalFacts
<1>3. job' \in [Jobs -> Row] /\ QuietJobs
  BY SweptJobsByExpiry DEF BeginActionExecution
<1>4. CASE x = "approved" /\ HoldsLease(w, c.job, c.token)
  <2> DEFINE r == [ExpiredProposals[p] EXCEPT !.state = "executing",
                                              !.fence = c.token]
  <2>1. proposal' = [ExpiredProposals EXCEPT ![p] = r] /\ Goto(w, "check")
    BY <1>4 DEF BeginActionExecution
  <2>2. proposal[p].state = "approved" /\ ExpiredProposals[p] = proposal[p]
    BY <1>1, <1>2, <1>4, ExpiredProposalFacts
    DEF Expired, Proposal
  <2>3. /\ r \in Proposal /\ r.state = "executing" /\ r.fence = c.token
    BY <1>1, <1>2, <2>2 DEF Proposal, States, Claims
  <2> HIDE DEF r
  <2>4. proposal' \in [Proposals -> Proposal] /\ proposal'[p] = r
    BY <1>1, <2>1, <2>3, ExpiredProposalFacts
  <2>5. Becomes(w, held[w], "check", c, answer[w])
    BY <2>1, ItselfFacts DEF BeginActionExecution, Goto, Becomes
  <2>6. /\ TypeOK' /\ Others(w)
        /\ held'[w] = held[w] /\ pc'[w] = "check" /\ current'[w] = c
    BY <1>1, <1>2, <1>3, <2>4, <2>5, EffectsAreNat, Becoming
    DEF BeginActionExecution, Steps
  <2>7. Alone(w, p)
    BY <1>1, <2>2, NobodyExecutes
  <2>8. \A q \in Proposals \ {p} :
            Keeps(proposal[q], proposal'[q]) /\ effects'[q] = effects[q]
    BY <2>1, ExpiredProposalFacts DEF BeginActionExecution
  <2>9. effects'[p] = effects[p] /\ effects[p] = 0
    BY <1>1, <2>2 DEF BeginActionExecution, IInv, EffectsOK
  <2>10. Lifecycle!Lawful(Entry(proposal[p], effects[p]),
                          Entry(proposal'[p], effects'[p]))
    BY <2>2, <2>3, <2>4, <2>9
    DEF Lifecycle!Lawful, Lifecycle!Move, Lifecycle!Diagram, Entry
  <2>11. QED
    BY <1>1, <1>3, <2>3, <2>4, <2>6, <2>7, <2>8, <2>9, <2>10, ExecutionStep
    DEF Busy
<1>5. CASE ~(x = "approved" /\ HoldsLease(w, c.job, c.token))
  <2>1. PICK s \in {"dead_letter", "complete"} : Goto(w, s)
    BY <1>5 DEF BeginActionExecution
  <2>2. proposal' \in [Proposals -> Proposal] /\ QuietProposals
    BY <1>5, ExpiredProposalsOnly DEF BeginActionExecution
  <2>3. Becomes(w, held[w], s, c, answer[w])
    BY <2>1, ItselfFacts DEF BeginActionExecution, Goto, Becomes
  <2>4. s \in Steps \ Busy /\ s # "begin" /\ s \notin Delivering
    BY DEF Steps, Busy, Delivering
  <2>5. QED
    BY <1>1, <1>2, <1>3, <2>2, <2>3, <2>4, QuietWorkerStep
    DEF BeginActionExecution
<1>6. QED  BY <1>4, <1>5

LEMMA DispatchStep ==
    ASSUME IInv, NEW w \in Workers, NEW a \in Answers, NEW commits \in BOOLEAN,
           Dispatch(w, a, commits)
    PROVE  IInv' /\ Lawfully
<1> DEFINE c == current[w]
           p == c.job[1]
<1>1. /\ c \in held[w] /\ c \in Claims /\ p \in Proposals
      /\ Kind(c) = "execution"
  BY InAJob DEF Dispatch, Idle, IInv, CurrentOK, Executing
<1>2. /\ proposal[p].state = "executing" /\ proposal[p].fence = c.token
      /\ effects[p] = 0
  BY DEF Dispatch, IInv, DispatchOK
<1>3. /\ effects'[p] = IF commits THEN 1 ELSE 0
      /\ effects' \in [Proposals -> Nat]
      /\ \A q \in Proposals \ {p} : effects'[q] = effects[q]
  BY <1>1, <1>2, EffectsAreNat DEF Dispatch
<1>4. /\ job' \in [Jobs -> Row] /\ QuietJobs
      /\ proposal' \in [Proposals -> Proposal] /\ QuietProposals
      /\ UNCHANGED proposal
  BY SameJobs, SameProposals DEF Dispatch
<1>5. Becomes(w, held[w], "finish", c, a)
  BY ItselfFacts DEF Dispatch, Goto, Becomes
<1>6. /\ TypeOK' /\ Others(w) /\ held'[w] = held[w]
      /\ pc'[w] = "finish" /\ current'[w] = c /\ answer'[w] = a
  <2>1. /\ held[w] \in SUBSET Claims /\ "finish" \in Steps
        /\ c \in Claims \cup {NoClaim} /\ a \in Answers \cup {None}
    BY <1>1, ItselfFacts DEF Steps
  <2>2. QED  BY <1>3, <1>4, <1>5, <2>1, Becoming
<1>7. Alone(w, p)
  BY DispatcherIsAlone DEF Dispatch, Busy
<1>8. Agrees(a, effects'[p])
  BY <1>3 DEF Dispatch, MayCommit, MayNotCommit, Agrees
<1>9. Lifecycle!Lawful(Entry(proposal[p], effects[p]),
                       Entry(proposal'[p], effects'[p]))
  BY <1>2, <1>3, <1>4
  DEF Lifecycle!Lawful, Lifecycle!TakeEffect, Entry
<1>10. \A q \in Proposals \ {p} :
           Keeps(proposal[q], proposal'[q]) /\ effects'[q] = effects[q]
  BY <1>3, <1>4 DEF QuietProposals
<1>11. effects'[p] \in 0 .. 1 /\ proposal'[p] = proposal[p]
  BY <1>3, <1>4
<1>12. QED
  BY <1>1, <1>2, <1>4, <1>6, <1>7, <1>8, <1>9, <1>10, <1>11, ExecutionStep
  DEF Busy

(* finish_action_execution and retry_action_execution_after_no_effect end  *)
(* the execution of a proposal, whose effect is what the answer says.      *)
LEMMA EndOfExecution ==
    ASSUME IInv, NEW w \in Workers, pc[w] = "finish",
           NEW p, p = current[w].job[1],
           job' \in [Jobs -> Row], QuietJobs, UNCHANGED effects,
           NEW s \in {"complete", "retry"},
           Becomes(w, held[w], s, current[w], None),
           NEW r \in Proposal, proposal' = [proposal EXCEPT ![p] = r],
           r.state \in {"approved", "denied", "executed", "failed_terminal"},
           r.state \in {"approved", "denied"} => effects[p] = 0,
           r.state = "executed" => effects[p] = 1
    PROVE  IInv' /\ Lawfully
<1> DEFINE c == current[w]
<1>1. /\ c \in held[w] /\ c \in Claims /\ p \in Proposals
      /\ Kind(c) = "execution"
  BY InAJob DEF Idle, IInv, CurrentOK, Executing
<1>2. proposal[p].state = "executing" /\ effects[p] \in 0 .. 1
  BY <1>1, ProposalFacts DEF IInv, DispatchOK
<1>3. proposal' \in [Proposals -> Proposal] /\ proposal'[p] = r
  BY <1>1 DEF IInv, TypeOK
<1>4. /\ TypeOK' /\ Others(w) /\ held'[w] = held[w]
      /\ pc'[w] = s /\ current'[w] = c
  <2>1. /\ held[w] \in SUBSET Claims /\ s \in Steps
        /\ c \in Claims \cup {NoClaim} /\ None \in Answers \cup {None}
        /\ effects' \in [Proposals -> Nat]
    BY <1>1, EffectsAreNat, ItselfFacts DEF Steps
  <2>2. QED  BY <1>3, <2>1, Becoming
<1>5. Alone(w, p)
  BY DispatcherIsAlone DEF Busy
<1>6. \A q \in Proposals \ {p} :
          Keeps(proposal[q], proposal'[q]) /\ effects'[q] = effects[q]
  BY ProposalFacts DEF IInv, TypeOK
<1>7. Lifecycle!Lawful(Entry(proposal[p], effects[p]),
                       Entry(proposal'[p], effects'[p]))
  BY <1>2, <1>3
  DEF Lifecycle!Lawful, Lifecycle!Move, Lifecycle!Diagram, Entry
<1>8. effects'[p] \in 0 .. 1 /\ effects'[p] = effects[p]
  BY <1>2
<1>9. effects'[p] = 1 => proposal'[p].state \in
          {"executing", "executed", "failed_terminal"}
  BY <1>3, <1>8
<1>10. s \notin Busy /\ s # "check" /\ s # "finish"
  BY DEF Busy
<1>11. QED
  BY <1>1, <1>4, <1>5, <1>6, <1>7, <1>8, <1>9, <1>10, ExecutionStep

(* The execution was taken away: its worker gives the job up.              *)
LEMMA GivenUp ==
    ASSUME IInv, NEW w \in Workers, pc[w] = "finish",
           UNCHANGED <<proposal, job, effects>>,
           Becomes(w, held[w], "dead_letter", current[w], None)
    PROVE  IInv' /\ Lawfully
<1>1. current[w] \in held[w]
  BY InAJob DEF Idle
<1>2. "dead_letter" \in Steps \ Busy /\ "dead_letter" \notin Delivering
  BY DEF Steps, Busy, Delivering
<1>3. QED  BY <1>1, <1>2, SameJobs, SameProposals, QuietWorkerStep

LEMMA FinishStep ==
    ASSUME IInv, NEW w \in Workers, FinishActionExecution(w)
    PROVE  IInv' /\ Lawfully
<1> DEFINE c == current[w]
           p == c.job[1]
           a == answer[w]
<1>1. /\ p \in Proposals /\ proposal[p] \in Proposal
      /\ <<p, "outcome">> \in Jobs
  BY InAJob, ProposalFacts DEF FinishActionExecution, Idle, Jobs, Kinds
<1>2. a \in Answers \ {"retryable"} /\ Agrees(a, effects[p])
  BY DEF FinishActionExecution, IInv, CurrentOK, DispatchOK
<1>3. CASE MayFinish(w, c)
  <2> DEFINE r == [proposal[p] EXCEPT !.state = Outcome(a)]
  <2>1. /\ proposal' = [proposal EXCEPT ![p] = r]
        /\ Becomes(w, held[w], "complete", c, None)
    BY <1>3, ItselfFacts DEF FinishActionExecution, Goto, Becomes
  <2>2. job' \in [Jobs -> Row] /\ QuietJobs
    <3>1. CASE p \in Local
      BY <1>3, <3>1, SameJobs DEF FinishActionExecution
    <3>2. CASE p \notin Local
      <4>1. job' = [job EXCEPT ![<<p, "outcome">>] =
                        Enqueued(job[<<p, "outcome">>], TRUE)]
        BY <1>3, <3>2 DEF FinishActionExecution
      <4>2. QED  BY <1>1, <4>1, RowFacts, RequestsAreSteady, JobRow
    <3>3. QED  BY <3>1, <3>2
  <2>3. /\ Outcome(a) \in {"denied", "executed", "failed_terminal"}
        /\ Outcome(a) = "denied" => a = "denied"
        /\ Outcome(a) = "executed" => a = "receipt"
    BY <1>2 DEF Outcome, Answers
  <2>4. r \in Proposal /\ r.state = Outcome(a)
    BY <1>1, <2>3 DEF Proposal, States, Closed
  <2> HIDE DEF r
  <2>5. /\ r.state = "denied" => effects[p] = 0
        /\ r.state = "executed" => effects[p] = 1
    BY <1>2, <2>3, <2>4 DEF Agrees
  <2>6. QED
    BY <2>1, <2>2, <2>3, <2>4, <2>5, EndOfExecution
    DEF FinishActionExecution
<1>4. CASE ~MayFinish(w, c)
  <2>1. Becomes(w, held[w], "dead_letter", c, None)
    BY <1>4, ItselfFacts DEF FinishActionExecution, Goto, Becomes
  <2>2. QED  BY <1>4, <2>1, GivenUp DEF FinishActionExecution
<1>5. QED  BY <1>3, <1>4

LEMMA RetryAfterNoEffectStep ==
    ASSUME IInv, NEW w \in Workers, RetryAfterNoEffect(w)
    PROVE  IInv' /\ Lawfully
<1> DEFINE c == current[w]
           p == c.job[1]
<1>1. p \in Proposals /\ proposal[p] \in Proposal
  BY InAJob, ProposalFacts DEF RetryAfterNoEffect, Idle
<1>2. effects[p] = 0
  BY DEF RetryAfterNoEffect, IInv, DispatchOK, Agrees
<1>3. CASE MayFinish(w, c)
  <2> DEFINE r == [proposal[p] EXCEPT !.state = "approved", !.fence = 0]
  <2>1. /\ proposal' = [proposal EXCEPT ![p] = r]
        /\ Becomes(w, held[w], "retry", c, None)
    BY <1>3, ItselfFacts DEF RetryAfterNoEffect, Goto, Becomes
  <2>2. r \in Proposal /\ r.state = "approved"
    BY <1>1 DEF Proposal, States
  <2> HIDE DEF r
  <2>3. QED
    BY <1>2, <2>1, <2>2, SameJobs, EndOfExecution DEF RetryAfterNoEffect
<1>4. CASE ~MayFinish(w, c)
  <2>1. Becomes(w, held[w], "dead_letter", c, None)
    BY <1>4, ItselfFacts DEF RetryAfterNoEffect, Goto, Becomes
  <2>2. QED  BY <1>4, <2>1, GivenUp DEF RetryAfterNoEffect
<1>5. QED  BY <1>3, <1>4

----------------------------------------------------------------------------
(* The invariant and what follows from it *)

LEMMA Start == Init => IInv
<1> SUFFICES ASSUME Init PROVE IInv
  OBVIOUS
<1>1. TypeOK
  <2>1. AbsentRow \in Row
    BY DEF AbsentRow, Row, Statuses
  <2>2. [state |-> "absent", fence |-> 0, overdue |-> FALSE, cards |-> {}]
            \in Proposal
    BY DEF Proposal, States
  <2>3. QED  BY <2>1, <2>2 DEF Init, TypeOK, Steps
<1>2. CurrentOK /\ DispatchOK
  BY DEF Init, CurrentOK, DispatchOK, Idle, Executing, Delivering
<1>3. RowsOK /\ ClaimsOK /\ EffectsOK
  BY DEF Init, RowsOK, ClaimsOK, EffectsOK
<1>4. QED  BY <1>1, <1>2, <1>3 DEF IInv

LEMMA Step == IInv /\ [Next]_vars => IInv' /\ Lawfully
<1> SUFFICES ASSUME IInv, [Next]_vars PROVE IInv' /\ Lawfully
  OBVIOUS
<1>1. CASE \E p \in Proposals : Human(p)
  BY <1>1, HumanStep
<1>2. CASE ExpireDue
  BY <1>2, ExpireDueStep
<1>3. CASE \/ \E p \in Proposals : ApprovalRunsOut(p)
           \/ \E j \in Jobs : CancelJob(j) \/ RequeueJob(j) \/ LeaseExpires(j)
  BY <1>3, ClockAndOperatorStep
<1>4. ASSUME NEW w \in Workers, Poll(w) \/ Raise(w) \/ Crash(w)
      PROVE  IInv' /\ Lawfully
  BY <1>4, PollStep, RaiseStep, CrashStep
<1>5. ASSUME NEW w \in Workers, Work(w)
      PROVE  IInv' /\ Lawfully
  <2>1. CASE \E c \in held[w] : \/ TakeNotification(w, c)
                                \/ TakeExecution(w, c)
                                \/ TakeOutcome(w, c)
    BY <2>1, TakeStep
  <2>2. CASE Send(w) \/ MarkDelivered(w)
    BY <2>2, SendStep, MarkDeliveredStep
  <2>3. CASE BeginActionExecution(w)
    BY <2>3, BeginStep
  <2>4. CASE \E a \in Answers, commits \in BOOLEAN : Dispatch(w, a, commits)
    BY <2>4, DispatchStep
  <2>5. CASE FinishActionExecution(w) \/ RetryAfterNoEffect(w)
    BY <2>5, FinishStep, RetryAfterNoEffectStep
  <2>6. CASE Complete(w) \/ Retry(w) \/ DeadLetter(w)
    BY <2>6, SettlingStep
  <2>7. QED
    BY <1>5, <2>1, <2>2, <2>3, <2>4, <2>5, <2>6 DEF Work
<1>6. CASE UNCHANGED vars
  <2>1. IInv'
    BY <1>6 DEF vars, IInv, TypeOK, RowsOK, ClaimsOK, CurrentOK,
                DispatchOK, EffectsOK, Kind
  <2>2. Lawfully
    BY <1>6 DEF vars, Lawfully, Lifecycle!Lawful, Entry
  <2>3. QED  BY <2>1, <2>2
<1>7. QED
  BY <1>1, <1>2, <1>3, <1>4, <1>5, <1>6 DEF Next

(* The inductive invariant holds in every behaviour.                       *)
THEOREM Invariant == Spec => []IInv
<1>1. IInv /\ [Next]_vars => IInv'
  BY Step
<1>2. QED  BY <1>1, Start, PTL DEF Spec

(* Proposals, job rows, claims and worker states keep their types: no      *)
(* counter goes below zero and no column holds a value it must not.        *)
THEOREM TypeCorrect == Spec => []TypeOK
<1>1. IInv => TypeOK  BY DEF IInv
<1>2. QED  BY <1>1, Invariant, PTL

(* begin_action_execution and the fence it writes make an approved action  *)
(* take effect at most once.                                               *)
THEOREM EffectOnce == Spec => []AtMostOneEffect
<1>1. IInv => AtMostOneEffect  BY DEF IInv, EffectsOK, AtMostOneEffect
<1>2. QED  BY <1>1, Invariant, PTL

(* Between begin_action_execution and the write that ends the execution    *)
(* there is one worker per proposal, whoever holds the lease of the job.   *)
THEOREM DispatchersExclude == Spec => []OneDispatcher
<1>1. IInv => OneDispatcher
  <2> SUFFICES ASSUME IInv, NEW v \in Workers, NEW w \in Workers,
                      NEW p \in Proposals,
                      Dispatching(v, p), Dispatching(w, p)
               PROVE  v = w
    BY DEF OneDispatcher
  <2>1. current[v].job[1] = p /\ current[w].job[1] = p
    BY DEF Dispatching
  <2>2. pc[v] \in Busy /\ pc[w] \in Busy
    BY DEF Dispatching, Busy
  <2>3. Alone(w, p)
    BY <2>1, <2>2, DispatcherIsAlone
  <2>4. QED  BY <2>1, <2>2, <2>3 DEF Alone
<1>2. QED  BY <1>1, Invariant, PTL

(* What decide_action_proposal, cancel_approved_action, supersede and      *)
(* expire_due withdraw, and what was denied, had no effect and gets none.  *)
THEOREM WithdrawnAreInert == Spec => []WithdrawnIsInert
<1>1. IInv => WithdrawnIsInert
  <2> SUFFICES ASSUME IInv, NEW p \in Proposals,
                      proposal[p].state \in {"pending", "rejected", "expired",
                                             "superseded", "canceled", "denied"}
               PROVE  effects[p] = 0 /\ \A w \in Workers : ~Dispatching(w, p)
    BY DEF WithdrawnIsInert
  <2>1. effects[p] = 0
    BY DEF IInv, EffectsOK
  <2>2. \A w \in Workers : ~Dispatching(w, p)
    <3> SUFFICES ASSUME NEW w \in Workers, Dispatching(w, p) PROVE FALSE
      OBVIOUS
    <3>1. current[w].job[1] = p /\ pc[w] \in {"check", "finish"}
      BY DEF Dispatching
    <3>2. proposal[p].state = "executing"
      BY <3>1 DEF IInv, DispatchOK
    <3>3. QED  BY <3>2
  <2>3. QED  BY <2>1, <2>2
<1>2. QED  BY <1>1, Invariant, PTL

(* With its jobs, workers, leases and retries, the approval path moves a   *)
(* proposal along the documented lifecycle only.                           *)
THEOREM LifecycleRefinement == Spec => LifecycleSpec
<1>1. Init => Lifecycle!Init
  BY DEF Init, Lifecycle!Init, Lifecycle!Unborn, LifeView
<1>2. IInv => LifeView \in [Proposals -> Lifecycle!Life]
  <2> SUFFICES ASSUME IInv, NEW p \in Proposals
               PROVE  Entry(proposal[p], effects[p]) \in Lifecycle!Life
    BY DEF LifeView, Entry
  <2>1. proposal[p].state \in Lifecycle!States
    BY ProposalFacts DEF Proposal, States, Closed, Lifecycle!States
  <2>2. QED  BY <2>1, ProposalFacts DEF Entry, Lifecycle!Life
<1>3. IInv' => (LifeView \in [Proposals -> Lifecycle!Life])'
  BY <1>2, PTL
<1>4. IInv /\ IInv' /\ Lawfully => [Lifecycle!Next]_LifeView
  <2> SUFFICES ASSUME IInv, IInv', Lawfully
               PROVE  Lifecycle!Next
    OBVIOUS
  <2>1. LifeView' \in [Proposals -> Lifecycle!Life]
    BY <1>3
  <2>2. \A p \in Proposals : Lifecycle!Lawful(LifeView[p], LifeView'[p])
    BY DEF Lawfully, LifeView, Entry
  <2>3. QED  BY <2>1, <2>2 DEF Lifecycle!Next
<1>5. IInv /\ [Next]_vars => IInv' /\ [Lifecycle!Next]_LifeView
  BY <1>4, Step
<1>6. QED
  BY <1>1, <1>5, Start, PTL DEF Spec, LifecycleSpec, Lifecycle!Spec

----------------------------------------------------------------------------
(* An approval keeps its job, and the cards tell what is so                *)

Decided == {"approved", "executing", "rejected"} \cup Closed

(* What the rows of one proposal say of each other: an outcome card is     *)
(* enqueued with the outcome, a decision on Discord follows a recorded     *)
(* card, and the execution job comes with the approval and outlives it.    *)
RecordOK(p) ==
    LET s == proposal[p].state
        execution == job[<<p, "execution">>].status
    IN  /\ job[<<p, "outcome">>].status # "absent"
               <=> p \notin Local /\ s \in Closed
        /\ p \notin Local /\ s \in Decided
               => "notification" \in proposal[p].cards
        /\ s \in {"absent", "pending"} => execution = "absent"
        /\ s = "approved" => execution \notin {"absent", "completed"}

(* A worker about to complete the execution job of an approved proposal    *)
(* has lost the lease: the approval is someone else's retry.               *)
DoneOK(w) ==
    /\ pc[w] = "complete" /\ Kind(current[w]) = "execution"
    /\ proposal[current[w].job[1]].state = "approved"
    => ~HoldsLease(w, current[w].job, current[w].token)

Records == (\A p \in Proposals : RecordOK(p)) /\ (\A w \in Workers : DoneOK(w))

(* A step of a row that neither creates nor completes it, and grants a     *)
(* lease only under a new token.                                           *)
Follows(r, s) ==
    /\ s.status = "absent" <=> r.status = "absent"
    /\ s.status = "completed" => r.status = "completed"
    /\ s.status = "running" =>
           \/ s.token > r.token
           \/ r.status = "running" /\ s.owner = r.owner /\ s.token = r.token

Halts(r, s) ==
    \/ s = r
    \/ r.status # "absent" /\ s.status \in Waiting \cup {"dead_letter", "cancelled"}

LEMMA HaltFollows ==
    ASSUME NEW r, NEW s, Halts(r, s)
    PROVE  Follows(r, s)
BY DEF Halts, Follows, Waiting

LEMMA UnleasedHalts ==
    ASSUME NEW r \in Row, r.status # "absent",
           NEW x \in Waiting \cup {"dead_letter", "cancelled"}, NEW b \in BOOLEAN
    PROVE  Halts(r, Unleased(r, x)) /\ Halts(r, [Unleased(r, x) EXCEPT !.due = b])
BY DEF Halts, Unleased, Row

LEMMA ExpiredStatusHalts ==
    ASSUME NEW r, NEW max
    PROVE  ExpiredStatus(r, max) \in Waiting \cup {"dead_letter", "cancelled"}
BY DEF ExpiredStatus, Waiting

LEMMA SweptHalts ==
    ASSUME NEW r, Sound(r), NEW max \in Nat
    PROVE  Halts(r, Swept(r, max))
<1> DEFINE r1 == SweepCancelRequested(r)
           r2 == SweepOverdue(r1)
           r3 == SweepExpiredLease(r2, max)
<1>1. r1 \in Row /\ Halts(r, r1)
  <2>1. r.status \in Waiting => r.status # "absent"
    BY DEF Waiting
  <2>2. Halts(r, r1)
    BY <2>1, UnleasedHalts DEF SweepCancelRequested, Sound, Halts
  <2>3. r1 \in Row
    BY EndedLeaseIsSteady DEF SweepCancelRequested, Steady, Sound, Terminal
  <2> QED BY <2>2, <2>3
<1>2. r2 \in Row /\ Halts(r1, r2)
  <2>1. r1.status \in Waiting => r1.status # "absent"
    BY DEF Waiting
  <2>2. Halts(r1, r2)
    BY <1>1, <2>1, UnleasedHalts DEF SweepOverdue, Halts
  <2>3. r2 \in Row
    BY <1>1, EndedLeaseIsSteady DEF SweepOverdue, Steady, Sound, Terminal
  <2> QED BY <2>2, <2>3
<1>3. Halts(r2, r3)
  BY <1>2, UnleasedHalts, ExpiredStatusHalts DEF SweepExpiredLease, Halts
<1> HIDE DEF r1, r2, r3
<1>4. Halts(r, r3)
  BY <1>1, <1>2, <1>3 DEF Halts, Waiting
<1> QED BY <1>4 DEF Swept, r1, r2, r3

LEMMA RequestFollows ==
    ASSUME NEW r \in Row
    PROVE  Follows(r, CancelRequested(r)) /\ Follows(r, Dropped(r))
<1>1. Follows(r, r)
  BY DEF Follows
<1>2. r.status \in Waiting =>
          [Unleased(r, "cancelled") EXCEPT !.cancel = TRUE].status = "cancelled"
  BY DEF Unleased, Row
<1>3. Follows(r, CancelRequested(r))
  BY <1>1, <1>2 DEF CancelRequested, Follows, Row, Waiting, Terminal
<1> QED BY <1>1, <1>3 DEF Dropped

LEMMA RequeueFollows ==
    ASSUME NEW r \in Row, CanRequeue(r)
    PROVE  Follows(r, Requeued(r, TRUE))
<1>1. Requeued(r, TRUE).status = "retry"
  BY DEF Requeued, Unleased, Row
<1> QED BY <1>1 DEF Follows, CanRequeue

LEMMA ExpiryFollows ==
    ASSUME NEW r \in Row
    PROVE  Follows(r, [r EXCEPT !.expired = TRUE])
BY DEF Follows, Row

LEMMA ClaimFollows ==
    ASSUME NEW r, Sound(r), NEW max \in Nat, NEW w \in Workers,
           Claimable(Swept(r, max), max)
    PROVE  Follows(r, Claimed(Swept(r, max), w))
<1>1. Steady(r, Swept(r, max)) /\ Halts(r, Swept(r, max))
  BY SweptIsSteady, SweptHalts
<1>2. /\ Claimed(Swept(r, max), w).status = "running"
      /\ Claimed(Swept(r, max), w).token = r.token + 1
  BY <1>1, ClaimedAdvances DEF Steady, Sound
<1>3. r.status # "absent"
  BY <1>1 DEF Claimable, Halts, Waiting
<1>4. r.token \in Nat
  BY DEF Sound, Row
<1> QED BY <1>2, <1>3, <1>4 DEF Follows

----------------------------------------------------------------------------
(* One proposal *)

(* A step that decides nothing: no approval, no outcome, and no decision   *)
(* without its card.                                                       *)
MovesOn(p, r, s) ==
    /\ r.cards \subseteq s.cards
    /\ s.state \in Closed <=> r.state \in Closed
    /\ s.state = "approved" => r.state = "approved"
    /\ s.state \in {"absent", "pending"} => r.state \in {"absent", "pending"}
    /\ p \notin Local /\ s.state \in Decided =>
           r.state \in Decided \/ "notification" \in s.cards

(* The rows of proposal p are changed by such a step, but an execution     *)
(* that is not waited for may be completed.                                *)
Still(p) ==
    /\ MovesOn(p, proposal[p], proposal'[p])
    /\ job'[<<p, "outcome">>].status = "absent"
           <=> job[<<p, "outcome">>].status = "absent"
    /\ \/ Follows(job[<<p, "execution">>], job'[<<p, "execution">>])
       \/ proposal'[p].state \notin {"absent", "pending", "approved"}

LEMMA StillKeepsRecord ==
    ASSUME NEW p \in Proposals, RecordOK(p), Still(p)
    PROVE  RecordOK(p)'
BY DEF RecordOK, Still, MovesOn, Follows

(* A worker that completes an execution while others move.                 *)
LEMMA StillKeepsDone ==
    ASSUME IInv, NEW w \in Workers, DoneOK(w),
           pc'[w] = "complete" => pc[w] = "complete" /\ current'[w] = current[w],
           \A p \in Proposals :
               \/ Still(p)
               \/ proposal'[p].state # "approved"
               \/ job[<<p, "execution">>].status = "absent"
               \/ job'[<<p, "execution">>].owner # w
    PROVE  DoneOK(w)'
<1> DEFINE c == current[w]
           p == c.job[1]
<1> SUFFICES ASSUME pc'[w] = "complete", Kind(c) = "execution",
                    proposal'[p].state = "approved",
                    job'[c.job].status = "running", job'[c.job].owner = w,
                    job'[c.job].token = c.token
             PROVE  FALSE
  BY DEF DoneOK, HoldsLease, Kind
<1>1. pc[w] = "complete" /\ pc[w] \notin Idle
  BY DEF Idle
<1>2. /\ c \in held[w] /\ p \in Proposals /\ c.job = <<p, "execution">>
      /\ c.job \in Jobs
  BY <1>1, InAJob
<1>3. Still(p)
  <2>1. c.token \in 1 .. job[c.job].token
    BY <1>2 DEF IInv, ClaimsOK
  <2>2. job[c.job].status # "absent"
    BY <1>2, <2>1 DEF IInv, RowsOK, AbsentRow
  <2> QED BY <1>2, <2>2
<1>4. proposal[p].state = "approved" /\ Follows(job[c.job], job'[c.job])
  BY <1>2, <1>3 DEF Still, MovesOn
<1>5. ~HoldsLease(w, c.job, c.token)
  BY <1>1, <1>4 DEF DoneOK
<1>6. c.token \in 1 .. job[c.job].token /\ job[c.job].token \in Nat
  BY <1>2, RowFacts DEF IInv, ClaimsOK, Row
<1> QED BY <1>4, <1>5, <1>6 DEF Follows, HoldsLease

(* Steps of humans, operators and the clock, and of workers that do not    *)
(* come to a completion.                                                   *)
LEMMA StillStep ==
    ASSUME IInv, Records, \A p \in Proposals : Still(p),
           \A w \in Workers : pc'[w] = "complete" =>
               pc[w] = "complete" /\ current'[w] = current[w]
    PROVE  Records'
BY StillKeepsRecord, StillKeepsDone DEF Records

LEMMA WorkerStill ==
    ASSUME IInv, Records, \A p \in Proposals : Still(p),
           NEW w \in Workers, NEW s, Goto(w, s),
           \A v \in Workers \ {w} : current'[v] = current[v],
           s = "complete" => DoneOK(w)'
    PROVE  Records'
<1>1. pc'[w] = s /\ \A v \in Workers \ {w} : pc'[v] = pc[v]
  BY DEF Goto, IInv, TypeOK
<1>2. DoneOK(w)'
  BY <1>1 DEF DoneOK
<1>3. \A v \in Workers \ {w} : DoneOK(v)'
  BY <1>1, StillKeepsDone DEF Records
<1> QED BY <1>2, <1>3, StillKeepsRecord DEF Records

LEMMA SameMoves ==
    ASSUME NEW p, NEW r
    PROVE  MovesOn(p, r, r) /\ Follows(r, r)
BY DEF MovesOn, Follows

LEMMA RowsStill ==
    ASSUME NEW p \in Proposals, MovesOn(p, proposal[p], proposal'[p]),
           \A k \in {"execution", "outcome"} : Follows(job[<<p, k>>], job'[<<p, k>>])
    PROVE  Still(p)
BY DEF Still, Follows

LEMMA ExpiredMoves ==
    ASSUME NEW p, NEW r \in Proposal
    PROVE  MovesOn(p, r, Expired(r))
BY DEF MovesOn, Expired, Proposal, Closed, Decided

LEMMA ExpiredFollows ==
    ASSUME IInv, NEW j \in Jobs
    PROVE  Follows(job[j], ExpiredJobs[j])
<1>1. ExpiredJobs[j] = Dropped(job[j]) \/ ExpiredJobs[j] = job[j]
  BY DEF ExpiredJobs
<1> QED BY <1>1, RowFacts, RequestFollows, SameMoves

LEMMA TheirJobs ==
    ASSUME NEW p \in Proposals, NEW k \in Kinds
    PROVE  <<p, k>> \in Jobs
BY DEF Jobs

LEMMA ExpiryIsStill ==
    ASSUME IInv, proposal' = ExpiredProposals, job' = ExpiredJobs
    PROVE  \A p \in Proposals : Still(p)
<1> TAKE p \in Proposals
<1>1. MovesOn(p, proposal[p], proposal'[p])
  BY ProposalFacts, ExpiredProposalFacts, ExpiredMoves
<1>2. \A k \in {"execution", "outcome"} : Follows(job[<<p, k>>], job'[<<p, k>>])
  BY TheirJobs, ExpiredFollows DEF Kinds
<1> QED BY <1>1, <1>2, RowsStill

LEMMA OneRowIsStill ==
    ASSUME IInv, proposal' = proposal, NEW j, NEW r,
           j \in Jobs => Follows(job[j], r), job' = [job EXCEPT ![j] = r]
    PROVE  \A p \in Proposals : Still(p)
<1> TAKE p \in Proposals
<1>1. \A i \in Jobs : Follows(job[i], job'[i])
  BY SameMoves DEF IInv, TypeOK
<1> QED BY <1>1, TheirJobs, RowsStill, SameMoves DEF Kinds

LEMMA NoRowIsStill ==
    ASSUME IInv, job' = job,
           \A p \in Proposals : MovesOn(p, proposal[p], proposal'[p])
    PROVE  \A p \in Proposals : Still(p)
BY RowsStill, SameMoves

----------------------------------------------------------------------------
(* Every step keeps the records *)

LEMMA HumanKeepsRecords ==
    ASSUME IInv, Records, NEW p \in Proposals, Human(p)
    PROVE  Records'
<1> DEFINE x == <<p, "execution">>
           o == <<p, "outcome">>
<1>0. /\ UNCHANGED workerVars /\ proposal[p] \in Proposal /\ RecordOK(p)
      /\ x \in Jobs /\ o \in Jobs /\ x # o
  BY ProposalFacts, TheirJobs
  DEF Human, CreateActionProposal, Approve, Reject, Supersede,
      CancelApprovedAction, Records, Kinds
<1>1. \A w \in Workers : pc'[w] = "complete" =>
          pc[w] = "complete" /\ current'[w] = current[w]
  BY <1>0 DEF workerVars
<1>2. proposal \in [Proposals -> Proposal] /\ job \in [Jobs -> Row]
  BY DEF IInv, TypeOK
<1>3. CASE CreateActionProposal(p)
  <2>1. \A q \in Proposals : MovesOn(q, proposal[q], proposal'[q])
    <3> TAKE q \in Proposals
    <3>1. CASE q = p
      BY <1>0, <1>2, <1>3, <3>1
      DEF CreateActionProposal, MovesOn, Proposal, Closed, Decided
    <3>2. CASE q # p
      BY <1>2, <1>3, <3>2, SameMoves DEF CreateActionProposal
    <3> QED BY <3>1, <3>2
  <2>2. ASSUME NEW q \in Proposals, NEW k \in {"execution", "outcome"}
        PROVE  job'[<<q, k>>] = job[<<q, k>>]
    <3>1. <<q, k>> \in Jobs /\ <<q, k>> # <<p, "notification">>
      BY TheirJobs DEF Kinds
    <3>2. \/ job' = job
          \/ \E row : job' = [job EXCEPT ![<<p, "notification">>] = row]
      BY <1>3 DEF CreateActionProposal
    <3> QED BY <1>2, <3>1, <3>2
  <2> QED BY <1>1, <2>1, <2>2, RowsStill, SameMoves, StillStep
<1>4. CASE Approve(p)
  <2> DEFINE r == [ExpiredProposals[p] EXCEPT !.state = "approved"]
  <2>1. proposal' = [ExpiredProposals EXCEPT ![p] = r]
    BY <1>4 DEF Approve, SetState
  <2>2. /\ proposal[p].state = "pending" /\ ExpiredProposals[p] = proposal[p]
        /\ p \notin Local => "notification" \in proposal[p].cards
    BY <1>0, <1>4, ExpiredProposalFacts DEF Approve, Decidable, Expired, Proposal
  <2>3. r.state = "approved" /\ r.cards = proposal[p].cards
    BY <1>0, <2>2 DEF Proposal
  <2>4. job[x].status = "absent"
    BY <1>0, <2>2 DEF RecordOK
  <2>5. ExpiredJobs[x].status = "absent"
    BY <1>0, <2>4, ExpiredFollows DEF Follows
  <2>6. /\ job' = [ExpiredJobs EXCEPT ![x] = Enqueued(ExpiredJobs[x], TRUE)]
        /\ ExpiredJobs \in [Jobs -> Row]
    BY <1>4, ExpiredJobFacts DEF Approve
  <2>7. job'[x].status = "pending" /\ job'[o] = ExpiredJobs[o]
    BY <1>0, <2>5, <2>6 DEF Enqueued, AbsentRow
  <2> HIDE DEF r
  <2>8. ASSUME NEW q \in Proposals \ {p}
        PROVE  Still(q)
    <3>1. MovesOn(q, proposal[q], proposal'[q])
      BY <2>1, ProposalFacts, ExpiredProposalFacts, ExpiredMoves
    <3>2. ASSUME NEW k \in {"execution", "outcome"}
          PROVE  Follows(job[<<q, k>>], job'[<<q, k>>])
      <4>1. <<q, k>> \in Jobs /\ <<q, k>> # x
        BY TheirJobs DEF Kinds
      <4> QED BY <2>6, <4>1, ExpiredFollows
    <3> QED BY <3>1, <3>2, RowsStill
  <2>9. RecordOK(p)'
    <3>1. proposal'[p] = r
      BY <2>1, ExpiredProposalFacts
    <3>2. Follows(job[o], job'[o])
      BY <1>0, <2>7, ExpiredFollows
    <3> QED BY <1>0, <2>2, <2>3, <2>7, <3>1, <3>2
            DEF RecordOK, Follows, Closed
  <2>10. \A q \in Proposals : RecordOK(q)'
    BY <2>8, <2>9, StillKeepsRecord DEF Records
  <2>11. \A w \in Workers : DoneOK(w)'
    BY <1>1, <2>4, <2>8, StillKeepsDone DEF Records
  <2> QED BY <2>10, <2>11 DEF Records
<1>5. CASE Reject(p)
  <2> DEFINE r == [ExpiredProposals[p] EXCEPT !.state = "rejected"]
  <2>1. proposal' = [ExpiredProposals EXCEPT ![p] = r] /\ job' = ExpiredJobs
    BY <1>5 DEF Reject, SetState
  <2>2. /\ proposal[p].state = "pending" /\ ExpiredProposals[p] = proposal[p]
        /\ p \notin Local => "notification" \in proposal[p].cards
    BY <1>0, <1>5, ExpiredProposalFacts DEF Reject, Decidable, Expired, Proposal
  <2>3. MovesOn(p, proposal[p], r)
    BY <1>0, <2>2 DEF MovesOn, Proposal, Closed, Decided
  <2> HIDE DEF r
  <2>4. \A q \in Proposals : MovesOn(q, proposal[q], proposal'[q])
    BY <2>1, <2>3, ProposalFacts, ExpiredProposalFacts, ExpiredMoves
  <2>5. \A q \in Proposals, k \in {"execution", "outcome"} :
            Follows(job[<<q, k>>], job'[<<q, k>>])
    BY <2>1, TheirJobs, ExpiredFollows DEF Kinds
  <2> QED BY <1>1, <2>4, <2>5, RowsStill, StillStep
<1>6. CASE Supersede(p)
  <2>1. \A q \in Proposals : MovesOn(q, proposal[q], proposal'[q])
    <3> TAKE q \in Proposals
    <3>1. CASE q = p
      BY <1>0, <1>2, <1>6, <3>1
      DEF Supersede, MovesOn, Proposal, Closed, Decided
    <3>2. CASE q # p
      BY <1>2, <1>6, <3>2, SameMoves DEF Supersede
    <3> QED BY <3>1, <3>2
  <2> QED BY <1>1, <1>6, <2>1, NoRowIsStill, StillStep DEF Supersede
<1>7. CASE CancelApprovedAction(p)
  <2>1. \A q \in Proposals : MovesOn(q, proposal[q], proposal'[q])
    <3> TAKE q \in Proposals
    <3>1. CASE q = p
      BY <1>0, <1>2, <1>7, <3>1
      DEF CancelApprovedAction, Cancelable, MovesOn, Proposal, Closed, Decided
    <3>2. CASE q # p
      BY <1>2, <1>7, <3>2, SameMoves DEF CancelApprovedAction
    <3> QED BY <3>1, <3>2
  <2>2. job' = [job EXCEPT ![x] = Dropped(job[x])]
    BY <1>7 DEF CancelApprovedAction
  <2>3. \A j \in Jobs : Follows(job[j], job'[j])
    BY <1>0, <1>2, <2>2, RequestFollows, SameMoves
  <2>4. \A q \in Proposals, k \in {"execution", "outcome"} :
            Follows(job[<<q, k>>], job'[<<q, k>>])
    BY <2>3, TheirJobs DEF Kinds
  <2> QED BY <1>1, <2>1, <2>4, RowsStill, StillStep
<1> QED BY <1>3, <1>4, <1>5, <1>6, <1>7 DEF Human

LEMMA ClockKeepsRecords ==
    ASSUME IInv, Records,
           \/ ExpireDue \/ UNCHANGED vars
           \/ \E p \in Proposals : ApprovalRunsOut(p)
           \/ \E j \in Jobs : CancelJob(j) \/ RequeueJob(j) \/ LeaseExpires(j)
    PROVE  Records'
<1>1. UNCHANGED workerVars
  BY DEF ExpireDue, vars, ApprovalRunsOut, CancelJob, RequeueJob, OperatorSets,
         LeaseExpires, workerVars
<1>2. SUFFICES \A p \in Proposals : Still(p)
  BY <1>1, StillStep DEF workerVars
<1>3. CASE ExpireDue
  BY <1>3, ExpiryIsStill DEF ExpireDue
<1>4. CASE \E p \in Proposals : ApprovalRunsOut(p)
  <2>1. PICK p \in Proposals : ApprovalRunsOut(p)
    BY <1>4
  <2>2. MovesOn(p, proposal[p], [proposal[p] EXCEPT !.overdue = TRUE])
    BY ProposalFacts DEF MovesOn, Proposal
  <2>3. proposal' = [proposal EXCEPT ![p] = [proposal[p] EXCEPT !.overdue = TRUE]]
    BY <2>1 DEF ApprovalRunsOut
  <2>4. \A q \in Proposals : MovesOn(q, proposal[q], proposal'[q])
    BY <2>2, <2>3, SameMoves DEF IInv, TypeOK
  <2> QED BY <2>1, <2>4, NoRowIsStill DEF ApprovalRunsOut
<1>5. CASE \E j \in Jobs : CancelJob(j) \/ RequeueJob(j) \/ LeaseExpires(j)
  <2>1. PICK j \in Jobs : CancelJob(j) \/ RequeueJob(j) \/ LeaseExpires(j)
    BY <1>5
  <2>2. job[j] \in Row
    BY RowFacts
  <2>3. PICK r : Follows(job[j], r) /\ job' = [job EXCEPT ![j] = r]
    BY <2>1, <2>2, RequestFollows, RequeueFollows, ExpiryFollows
    DEF CancelJob, RequeueJob, OperatorSets, LeaseExpires
  <2>4. proposal' = proposal
    BY <2>1 DEF CancelJob, RequeueJob, OperatorSets, LeaseExpires
  <2> QED BY <2>3, <2>4, OneRowIsStill
<1>6. CASE UNCHANGED vars
  BY <1>6, NoRowIsStill, SameMoves DEF vars
<1> QED BY <1>3, <1>4, <1>5, <1>6

LEMMA PollKeepsRecords ==
    ASSUME IInv, Records, NEW w \in Workers, Poll(w)
    PROVE  Records'
<1>1. PICK k \in Kinds, s \in Idle : ClaimJobs(w, k) /\ Goto(w, s)
  BY DEF Poll, PollNotification, PollExecution, PollOutcome, Kinds, Idle
<1>2. ASSUME NEW j \in Jobs
      PROVE  Follows(job[j], job'[j])
  <2> DEFINE max == MaxAttempts(j[2])
  <2>1. /\ SweptJobs[j] = Swept(job[j], max)
        /\ Sound(job[j]) /\ max \in Nat
    BY RowFacts, BudgetsAreNat DEF SweptJobs
  <2>2. job'[j] = IF j \in Candidates(k) THEN Claimed(SweptJobs[j], w)
                  ELSE SweptJobs[j]
    BY <1>1 DEF ClaimJobs
  <2>3. j \in Candidates(k) => Claimable(Swept(job[j], max), max)
    BY <2>1 DEF Candidates
  <2> HIDE DEF max
  <2> QED BY <2>1, <2>2, <2>3, ClaimFollows, SweptHalts, HaltFollows
<1>3. \A p \in Proposals : Still(p)
  <2> TAKE p \in Proposals
  <2>1. MovesOn(p, proposal[p], proposal'[p])
    BY <1>1, SameMoves DEF ClaimJobs
  <2> QED BY <1>2, <2>1, TheirJobs, RowsStill DEF Kinds
<1> QED BY <1>1, <1>3, WorkerStill DEF ClaimJobs, Idle

LEMMA TakeKeepsRecords ==
    ASSUME IInv, Records, NEW w \in Workers, NEW c \in held[w],
           TakeNotification(w, c) \/ TakeExecution(w, c) \/ TakeOutcome(w, c)
    PROVE  Records'
<1>1. /\ proposal' = ExpiredProposals /\ job' = ExpiredJobs
      /\ current' = [current EXCEPT ![w] = c]
  BY DEF TakeNotification, TakeExecution, TakeOutcome, Take
<1>2. current'[w] = c /\ \A v \in Workers \ {w} : current'[v] = current[v]
  BY <1>1 DEF IInv, TypeOK
<1>3. c.job[1] \in Proposals
  BY ClaimFacts
<1>4. PICK s : Goto(w, s) /\ (s = "complete" => DoneOK(w)')
  <2>1. CASE TakeNotification(w, c) \/ TakeOutcome(w, c)
    <3>1. \E s : Goto(w, s)
      BY <2>1 DEF TakeNotification, TakeOutcome
    <3>2. Kind(c) # "execution"
      BY <2>1 DEF TakeNotification, TakeOutcome, Take
    <3> QED BY <1>2, <3>1, <3>2 DEF DoneOK, Kind
  <2>2. CASE TakeExecution(w, c)
    <3> DEFINE x == Expired(proposal[c.job[1]]).state
               s == CASE x = "approved" -> "begin"
                      [] x = "executing" -> "dead_letter"
                      [] OTHER -> "complete"
    <3>1. Goto(w, s)
      BY <2>2 DEF TakeExecution
    <3>2. s = "complete" => proposal'[c.job[1]].state # "approved"
      BY <1>1, <1>3, ExpiredProposalFacts
    <3> HIDE DEF s
    <3>3. s = "complete" => DoneOK(w)'
      BY <1>2, <3>2 DEF DoneOK
    <3> QED BY <3>1, <3>3
  <2> QED BY <2>1, <2>2
<1> QED BY <1>1, <1>2, <1>4, ExpiryIsStill, WorkerStill

LEMMA QuietWorkKeepsRecords ==
    ASSUME IInv, Records, NEW w \in Workers,
           \/ Send(w) \/ MarkDelivered(w) \/ Raise(w) \/ Crash(w)
           \/ \E a \in Answers, commits \in BOOLEAN : Dispatch(w, a, commits)
    PROVE  Records'
<1>1. CASE MarkDelivered(w)
  <2> DEFINE p == current[w].job[1]
             k == Kind(current[w])
             r == [proposal[p] EXCEPT !.cards = proposal[p].cards \cup {k}]
  <2>1. p \in Proposals /\ k \in Cards /\ current' = current
    BY <1>1, InAJob DEF MarkDelivered, Idle, IInv, CurrentOK, Delivering
  <2>2. MovesOn(p, proposal[p], r)
    BY <2>1, ProposalFacts DEF MovesOn, Proposal
  <2>3. proposal' = proposal \/ proposal' = [proposal EXCEPT ![p] = r]
    BY <1>1 DEF MarkDelivered
  <2>4. \A q \in Proposals : MovesOn(q, proposal[q], proposal'[q])
    BY <2>2, <2>3, SameMoves DEF IInv, TypeOK
  <2>5. PICK s : Goto(w, s)
    BY <1>1 DEF MarkDelivered
  <2>6. DoneOK(w)'
    BY <2>1 DEF DoneOK, Kind, Cards
  <2> QED BY <1>1, <2>1, <2>4, <2>5, <2>6, NoRowIsStill, WorkerStill
          DEF MarkDelivered
<1>2. CASE ~MarkDelivered(w)
  <2>1. /\ UNCHANGED <<proposal, job>>
        /\ \A v \in Workers \ {w} : current'[v] = current[v]
    BY <1>2 DEF Send, Raise, Crash, Dispatch, IInv, TypeOK
  <2>2. PICK s : Goto(w, s) /\ s # "complete"
    BY <1>2 DEF Send, Raise, Crash, Dispatch
  <2> QED BY <2>1, <2>2, NoRowIsStill, SameMoves, WorkerStill
<1> QED BY <1>1, <1>2

LEMMA BeginKeepsRecords ==
    ASSUME IInv, Records, NEW w \in Workers, BeginActionExecution(w)
    PROVE  Records'
<1> DEFINE c == current[w]
           p == c.job[1]
           x == Expired(proposal[p]).state
<1>1. /\ p \in Proposals /\ c.job \in Jobs /\ c \in held[w]
      /\ proposal[p] \in Proposal
      /\ current' = current /\ job' = ExpiredJobs
  BY InAJob, ProposalFacts DEF BeginActionExecution, Idle
<1>2. CASE x = "approved" /\ HoldsLease(w, c.job, c.token)
  <2> DEFINE r == [ExpiredProposals[p] EXCEPT !.state = "executing",
                                              !.fence = c.token]
  <2>1. proposal' = [ExpiredProposals EXCEPT ![p] = r] /\ Goto(w, "check")
    BY <1>2 DEF BeginActionExecution
  <2>2. proposal[p].state = "approved" /\ ExpiredProposals[p] = proposal[p]
    BY <1>1, <1>2, ExpiredProposalFacts DEF Expired, Proposal
  <2>3. r.state = "executing" /\ r.cards = proposal[p].cards
    BY <1>1, <2>2 DEF Proposal
  <2> HIDE DEF r
  <2>4. MovesOn(p, proposal[p], r)
    BY <2>2, <2>3 DEF MovesOn, Closed, Decided
  <2>5. \A q \in Proposals : MovesOn(q, proposal[q], proposal'[q])
    BY <2>1, <2>4, ProposalFacts, ExpiredProposalFacts, ExpiredMoves
  <2>6. \A q \in Proposals : Still(q)
    <3> TAKE q \in Proposals
    <3>1. \A k \in {"execution", "outcome"} :
              Follows(job[<<q, k>>], job'[<<q, k>>])
      BY <1>1, TheirJobs, ExpiredFollows DEF Kinds
    <3> QED BY <2>5, <3>1, RowsStill
  <2> QED BY <1>1, <2>1, <2>6, WorkerStill
<1>3. CASE ~(x = "approved" /\ HoldsLease(w, c.job, c.token))
  <2>1. PICK s : Goto(w, s)
    BY <1>3 DEF BeginActionExecution
  <2>2. proposal' = ExpiredProposals
    BY <1>3 DEF BeginActionExecution
  <2>3. proposal'[p].state = x /\ Follows(job[c.job], job'[c.job])
    BY <1>1, <2>2, ExpiredProposalFacts, ExpiredFollows
  <2>4. c.token \in 1 .. job[c.job].token /\ job[c.job].token \in Nat
    BY <1>1, RowFacts DEF IInv, ClaimsOK, Row
  <2>5. x = "approved" => ~HoldsLease(w, c.job, c.token)'
    BY <1>1, <1>3, <2>3, <2>4 DEF HoldsLease, Follows
  <2>6. DoneOK(w)'
    BY <1>1, <2>3, <2>5 DEF DoneOK, HoldsLease
  <2> QED BY <1>1, <2>1, <2>2, <2>6, ExpiryIsStill, WorkerStill
<1> QED BY <1>2, <1>3

(* The execution ends: finish_action_execution enqueues the outcome card   *)
(* with the outcome, retry_action_execution_after_no_effect leaves the     *)
(* proposal to the lease of its own worker.                                *)
LEMMA FinishKeepsRecords ==
    ASSUME IInv, Records, NEW w \in Workers, NEW p, p = current[w].job[1],
           FinishActionExecution(w) \/ RetryAfterNoEffect(w)
    PROVE  Records'
<1> DEFINE c == current[w]
           x == <<p, "execution">>
           o == <<p, "outcome">>
<1>1. /\ p \in Proposals /\ c.job = x /\ c \in held[w]
      /\ x \in Jobs /\ o \in Jobs /\ x # o
      /\ proposal[p] \in Proposal /\ proposal[p].state = "executing"
      /\ RecordOK(p) /\ current' = current
  BY InAJob, ProposalFacts, TheirJobs
  DEF FinishActionExecution, RetryAfterNoEffect, Idle, IInv, CurrentOK,
      Executing, DispatchOK, Records, Kinds
<1>2. proposal \in [Proposals -> Proposal] /\ job \in [Jobs -> Row]
  BY DEF IInv, TypeOK
<1>3. CASE FinishActionExecution(w) /\ MayFinish(w, c)
  <2> DEFINE r == [proposal[p] EXCEPT !.state = Outcome(answer[w])]
  <2>1. proposal' = [proposal EXCEPT ![p] = r] /\ Goto(w, "complete")
    BY <1>3 DEF FinishActionExecution
  <2>2. Outcome(answer[w]) \in Closed
    BY <1>3 DEF FinishActionExecution, IInv, CurrentOK, Answers, Outcome, Closed
  <2>3. proposal'[p] = r /\ r.state \in Closed /\ r.cards = proposal[p].cards
    BY <1>1, <1>2, <2>1, <2>2 DEF Proposal
  <2> HIDE DEF r
  <2>4. \A j \in Jobs \ {o} : job'[j] = job[j]
    BY <1>2, <1>3 DEF FinishActionExecution
  <2>5. job'[o].status # "absent" <=> p \notin Local
    <3>1. CASE p \in Local
      <4>1. job' = job
        BY <1>3, <3>1 DEF FinishActionExecution
      <4> QED BY <1>1, <3>1, <4>1 DEF RecordOK
    <3>2. CASE p \notin Local
      <4>1. job'[o] = Enqueued(job[o], TRUE)
        BY <1>1, <1>2, <1>3, <3>2 DEF FinishActionExecution
      <4>2. Enqueued(job[o], TRUE).status # "absent"
        BY DEF Enqueued, AbsentRow
      <4> QED BY <3>2, <4>1, <4>2
    <3> QED BY <3>1, <3>2
  <2>6. ASSUME NEW q \in Proposals \ {p}
        PROVE  Still(q)
    <3>1. proposal'[q] = proposal[q]
      BY <1>2, <2>1
    <3>2. \A k \in {"execution", "outcome"} : job'[<<q, k>>] = job[<<q, k>>]
      BY <2>4, TheirJobs DEF Kinds
    <3> QED BY <3>1, <3>2, RowsStill, SameMoves
  <2>7. RecordOK(p)'
    BY <1>1, <2>3, <2>5 DEF RecordOK, Closed, Decided
  <2>8. \A q \in Proposals : RecordOK(q)'
    BY <2>6, <2>7, StillKeepsRecord DEF Records
  <2>9. ASSUME NEW v \in Workers
        PROVE  DoneOK(v)'
    <3>1. CASE v = w
      BY <1>1, <2>3, <3>1 DEF DoneOK, Closed
    <3>2. CASE v # w
      <4>1. pc'[v] = pc[v]
        BY <2>1, <3>2 DEF Goto, IInv, TypeOK
      <4>2. proposal'[p].state # "approved"
        BY <2>3 DEF Closed
      <4> QED BY <1>1, <2>6, <4>1, <4>2, StillKeepsDone DEF Records
    <3> QED BY <3>1, <3>2
  <2> QED BY <2>8, <2>9 DEF Records
<1>4. CASE RetryAfterNoEffect(w) /\ MayFinish(w, c)
  <2> DEFINE r == [proposal[p] EXCEPT !.state = "approved", !.fence = 0]
  <2>1. /\ proposal' = [proposal EXCEPT ![p] = r] /\ Goto(w, "retry")
        /\ job' = job
    BY <1>4 DEF RetryAfterNoEffect
  <2>2. proposal'[p] = r /\ r.state = "approved" /\ r.cards = proposal[p].cards
    BY <1>1, <1>2, <2>1 DEF Proposal
  <2> HIDE DEF r
  <2>3. job[x].status = "running" /\ job[x].owner = w
    BY <1>1, <1>4 DEF MayFinish, HoldsLease
  <2>4. ASSUME NEW q \in Proposals \ {p}
        PROVE  Still(q)
    <3>1. proposal'[q] = proposal[q]
      BY <1>2, <2>1
    <3> QED BY <2>1, <3>1, RowsStill, SameMoves
  <2>5. RecordOK(p)'
    BY <1>1, <2>1, <2>2, <2>3 DEF RecordOK, Closed, Decided
  <2>6. \A q \in Proposals : RecordOK(q)'
    BY <2>4, <2>5, StillKeepsRecord DEF Records
  <2>7. ASSUME NEW v \in Workers
        PROVE  DoneOK(v)'
    <3>1. CASE v = w
      BY <2>1, <3>1 DEF DoneOK, Goto, IInv, TypeOK
    <3>2. CASE v # w
      <4>1. pc'[v] = pc[v]
        BY <2>1, <3>2 DEF Goto, IInv, TypeOK
      <4> QED BY <1>1, <2>1, <2>3, <2>4, <3>2, <4>1, StillKeepsDone DEF Records
    <3> QED BY <3>1, <3>2
  <2> QED BY <2>6, <2>7 DEF Records
<1>5. CASE ~MayFinish(w, c)
  <2>1. UNCHANGED <<proposal, job>> /\ Goto(w, "dead_letter")
    BY <1>5 DEF FinishActionExecution, RetryAfterNoEffect
  <2> QED BY <1>1, <2>1, NoRowIsStill, SameMoves, WorkerStill
<1> QED BY <1>3, <1>4, <1>5

(* A job is settled by the worker that holds its lease; an execution is    *)
(* completed when its proposal is not approved.                            *)
LEMMA SettlingKeepsRecords ==
    ASSUME IInv, Records, NEW w \in Workers,
           Complete(w) \/ Retry(w) \/ DeadLetter(w)
    PROVE  Records'
<1> DEFINE c == current[w]
           j == c.job
           p == j[1]
           max == MaxAttempts(Kind(c))
<1>1. /\ c \in held[w] /\ j \in Jobs /\ p \in Proposals /\ j = <<p, Kind(c)>>
      /\ job[j] \in Row /\ RecordOK(p) /\ DoneOK(w) /\ max \in Nat
  BY InAJob, RowFacts, BudgetsAreNat DEF Complete, Retry, DeadLetter, Idle, Records
<1>2. c.token \in 1 .. job[j].token
  BY <1>1 DEF IInv, ClaimsOK
<1>3. job[j].status # "absent"
  BY <1>1, <1>2 DEF IInv, RowsOK, AbsentRow
<1>4. /\ proposal' = proposal /\ Goto(w, "next")
      /\ \A v \in Workers \ {w} : current'[v] = current[v]
  BY DEF Complete, Retry, DeadLetter, Settle, IInv, TypeOK
<1>5. CASE job' = job
  BY <1>4, <1>5, NoRowIsStill, SameMoves, WorkerStill
<1>6. CASE job' # job /\ (Retry(w) \/ DeadLetter(w))
  <2>1. /\ Halts(job[j], Retried(job[j], max, TRUE))
        /\ Halts(job[j], DeadLettered(job[j]))
    BY <1>1, <1>3, UnleasedHalts, ExpiredStatusHalts DEF Retried, DeadLettered
  <2>2. \/ job' = [job EXCEPT ![j] = Retried(job[j], max, TRUE)]
        \/ job' = [job EXCEPT ![j] = DeadLettered(job[j])]
    BY <1>6 DEF Retry, DeadLetter, Settle
  <2>3. \A q \in Proposals : Still(q)
    BY <1>4, <2>1, <2>2, HaltFollows, OneRowIsStill
  <2> QED BY <1>4, <2>3, WorkerStill
<1>7. CASE job' # job /\ Complete(w)
  <2>1. /\ CanComplete(job[j], w, c.token) /\ pc[w] = "complete"
        /\ job' = [job EXCEPT ![j] = Completed(job[j])]
    BY <1>7 DEF Complete, Settle
  <2>2. HoldsLease(w, j, c.token)
    BY <1>2, <2>1 DEF CanComplete, HeldBy, TokenMatches, NoToken, HoldsLease
  <2>3. Completed(job[j]).status = "completed"
    BY <1>1 DEF Completed, Unleased, Row
  <2>4. Kind(c) = "execution" =>
            proposal[p].state \notin {"absent", "pending", "approved"}
    BY <1>1, <1>3, <2>1, <2>2 DEF RecordOK, DoneOK
  <2>5. job \in [Jobs -> Row]
    BY DEF IInv, TypeOK
  <2>6. ASSUME NEW q \in Proposals
        PROVE  Still(q)
    <3>1. <<q, "execution">> \in Jobs /\ <<q, "outcome">> \in Jobs
      BY TheirJobs DEF Kinds
    <3>2. job'[<<q, "outcome">>].status = "absent"
              <=> job[<<q, "outcome">>].status = "absent"
      BY <1>3, <2>1, <2>3, <2>5, <3>1
    <3>3. \/ Follows(job[<<q, "execution">>], job'[<<q, "execution">>])
          \/ proposal'[q].state \notin {"absent", "pending", "approved"}
      <4>1. CASE <<q, "execution">> = j
        BY <1>1, <1>4, <2>4, <4>1
      <4>2. CASE <<q, "execution">> # j
        BY <2>1, <2>5, <3>1, <4>2, SameMoves
      <4> QED BY <4>1, <4>2
    <3> QED BY <1>4, <3>2, <3>3, SameMoves DEF Still
  <2> QED BY <1>4, <2>6, WorkerStill
<1> QED BY <1>5, <1>6, <1>7

LEMMA AlwaysRecords == Spec => []Records
<1>1. Init => Records
  <2> SUFFICES ASSUME Init PROVE Records
    OBVIOUS
  <2>1. \A j \in Jobs : job[j].status = "absent"
    BY DEF Init, AbsentRow
  <2>2. \A p \in Proposals : RecordOK(p)
    BY <2>1, TheirJobs DEF Init, RecordOK, Decided, Closed, Kinds
  <2>3. \A w \in Workers : DoneOK(w)
    BY DEF Init, DoneOK
  <2> QED BY <2>2, <2>3 DEF Records
<1>2. IInv /\ Records /\ [Next]_vars => Records'
  <2> SUFFICES ASSUME IInv, Records, [Next]_vars PROVE Records'
    OBVIOUS
  <2>1. ASSUME NEW w \in Workers, Poll(w) \/ Work(w) \/ Raise(w) \/ Crash(w)
        PROVE  Records'
    <3>1. CASE FinishActionExecution(w) \/ RetryAfterNoEffect(w)
      BY <3>1, FinishKeepsRecords
    <3>2. CASE ~(FinishActionExecution(w) \/ RetryAfterNoEffect(w))
      BY <2>1, <3>2, PollKeepsRecords, TakeKeepsRecords,
         QuietWorkKeepsRecords, BeginKeepsRecords, SettlingKeepsRecords DEF Work
    <3> QED BY <3>1, <3>2
  <2> QED BY <2>1, HumanKeepsRecords, ClockKeepsRecords DEF Next
<1> QED BY <1>1, <1>2, Invariant, PTL DEF Spec

(* An approval and its execution job are two rows: however decisions,      *)
(* expiries, lost leases, retries and operators interleave, the job of an  *)
(* approved proposal exists and is not completed under it.                 *)
THEOREM ApprovalsKeepTheirJobs == Spec => []ApprovedKeepsItsJob
<1>1. Records => ApprovedKeepsItsJob
  BY DEF Records, RecordOK, ApprovedKeepsItsJob
<1> QED BY <1>1, AlwaysRecords, PTL

(* decide_action_proposal asks for the recorded card, and no retry, crash  *)
(* or second worker removes the record afterwards.                         *)
THEOREM DecisionsWereShown == Spec => []DecidedWasShown
<1>1. Records => DecidedWasShown
  BY DEF Records, RecordOK, DecidedWasShown, Decided
<1> QED BY <1>1, AlwaysRecords, PTL

(* There is an outcome job exactly when there is an outcome, which nothing *)
(* changes any more: nobody dispatches what another worker announces.      *)
THEOREM OutcomesStayTrue == Spec => []OutcomeStaysTrue
<1>1. IInv /\ Records => OutcomeStaysTrue
  <2> SUFFICES ASSUME IInv, Records PROVE OutcomeStaysTrue
    OBVIOUS
  <2>1. ASSUME NEW v \in Workers, NEW w \in Workers, NEW p \in Proposals,
               Telling(v, p), Dispatching(w, p)
        PROVE  FALSE
    <3>1. /\ current[v] \in held[v] /\ current[v].job = <<p, "outcome">>
          /\ <<p, "outcome">> \in Jobs
      BY <2>1, InAJob DEF Telling, Idle
    <3>2. current[v].token \in 1 .. job[<<p, "outcome">>].token
      BY <3>1 DEF IInv, ClaimsOK
    <3>3. job[<<p, "outcome">>].status # "absent"
      BY <3>1, <3>2 DEF IInv, RowsOK, AbsentRow
    <3>4. proposal[p].state \in Closed
      BY <3>3 DEF Records, RecordOK
    <3>5. proposal[p].state = "executing"
      BY <2>1 DEF Dispatching, IInv, DispatchOK
    <3> QED BY <3>4, <3>5 DEF Closed
  <2> QED BY <2>1 DEF Records, RecordOK, OutcomeStaysTrue
<1> QED BY <1>1, Invariant, AlwaysRecords, PTL

----------------------------------------------------------------------------
(* The jobs of the approvals implement the abstract ledger.                *)
JobsBooked == \A j \in Jobs : Booked(job[j])
JobsAbide == \A j \in Jobs : Abides(job[j], job'[j])

LEMMA SameJobsAbide ==
    ASSUME JobsBooked, UNCHANGED job
    PROVE  JobsAbide
BY CallersAbide DEF JobsBooked, JobsAbide

LEMMA RowAbides ==
    ASSUME IInv, JobsBooked, NEW j \in Jobs, NEW r, Abides(job[j], r),
           job' = [job EXCEPT ![j] = r]
    PROVE  JobsAbide
BY CallersAbide DEF JobsBooked, JobsAbide, IInv, TypeOK

LEMMA DroppedAbides ==
    ASSUME NEW r, Booked(r)
    PROVE  Abides(r, Dropped(r))
BY CallersAbide DEF Dropped

LEMMA ExpiryAbides ==
    ASSUME JobsBooked
    PROVE  /\ \A j \in Jobs : Abides(job[j], ExpiredJobs[j])
           /\ job' = ExpiredJobs => JobsAbide
BY CallersAbide, DroppedAbides DEF ExpiredJobs, JobsBooked, JobsAbide

LEMMA HumanAbides ==
    ASSUME IInv, JobsBooked, NEW p \in Proposals, Human(p)
    PROVE  JobsAbide
<1>1. /\ <<p, "execution">> \in Jobs /\ <<p, "notification">> \in Jobs
      /\ \A j \in Jobs : /\ Abides(job[j], Enqueued(job[j], TRUE))
                         /\ Abides(job[j], Dropped(job[j]))
  BY CallersAbide, DroppedAbides DEF Jobs, Kinds, JobsBooked
<1>2. CASE CreateActionProposal(p)
  BY <1>1, <1>2, SameJobsAbide, RowAbides DEF CreateActionProposal
<1>3. CASE Approve(p)
  <2> DEFINE j == <<p, "execution">>
  <2>1. Expired(proposal[p]) = proposal[p]
    BY <1>3, ProposalFacts DEF Approve, Decidable, Expired, Proposal
  <2>2. ExpiredJobs[j] = job[j] /\ DOMAIN ExpiredJobs = Jobs
    BY <1>1, <2>1 DEF ExpiredJobs, Expires
  <2>3. job' = [ExpiredJobs EXCEPT ![j] = Enqueued(job[j], TRUE)]
    BY <1>3, <2>2 DEF Approve
  <2>4. \A i \in Jobs : job'[i] = IF i = j THEN Enqueued(job[j], TRUE)
                                  ELSE ExpiredJobs[i]
    BY <2>2, <2>3
  <2> QED BY <1>1, <2>4, ExpiryAbides DEF JobsAbide
<1>4. CASE Reject(p)
  BY <1>4, ExpiryAbides DEF Reject
<1>5. CASE Supersede(p)
  BY <1>5, SameJobsAbide DEF Supersede
<1>6. CASE CancelApprovedAction(p)
  BY <1>1, <1>6, RowAbides DEF CancelApprovedAction
<1> QED BY <1>2, <1>3, <1>4, <1>5, <1>6 DEF Human

LEMMA OperatorAbides ==
    ASSUME IInv, JobsBooked, NEW j \in Jobs,
           CancelJob(j) \/ RequeueJob(j) \/ LeaseExpires(j)
    PROVE  JobsAbide
<1>1. Booked(job[j])
  BY DEF JobsBooked
<1>2. CASE CancelJob(j)
  BY <1>1, <1>2, CallersAbide, RowAbides DEF CancelJob, OperatorSets
<1>3. CASE RequeueJob(j)
  BY <1>1, <1>3, CallersAbide, RowAbides DEF RequeueJob, OperatorSets
<1>4. CASE LeaseExpires(j)
  BY <1>1, <1>4, ColumnsAbide, RowAbides DEF LeaseExpires
<1> QED BY <1>2, <1>3, <1>4

LEMMA PollAbides ==
    ASSUME IInv, JobsBooked, NEW w \in Workers, Poll(w)
    PROVE  JobsAbide
<1>1. PICK k \in Kinds : ClaimJobs(w, k)
  BY DEF Poll, PollNotification, PollExecution, PollOutcome, Kinds
<1>2. ASSUME NEW j \in Jobs
      PROVE  Abides(job[j], job'[j])
  <2>1. SweptJobs[j] = Swept(job[j], MaxAttempts(j[2]))
    BY DEF SweptJobs
  <2>2. Booked(job[j]) /\ MaxAttempts(j[2]) \in Nat
    BY BudgetsAreNat DEF JobsBooked
  <2>3. CASE j \in Candidates(k)
    <3>1. Claimable(SweptJobs[j], MaxAttempts(j[2]))
      BY <2>3 DEF Candidates
    <3>2. job'[j] = Claimed(SweptJobs[j], w)
      BY <1>1, <2>3 DEF ClaimJobs
    <3> QED BY <2>1, <2>2, <3>1, <3>2, ClaimedAbides
  <2>4. CASE j \notin Candidates(k)
    BY <1>1, <2>1, <2>2, <2>4, SweptAbides DEF ClaimJobs
  <2> QED BY <2>3, <2>4
<1> QED BY <1>2 DEF JobsAbide

LEMMA SettlingAbides ==
    ASSUME IInv, JobsBooked, NEW w \in Workers,
           Complete(w) \/ Retry(w) \/ DeadLetter(w)
    PROVE  JobsAbide
<1> DEFINE c == current[w]
           r == job[c.job]
           max == MaxAttempts(Kind(c))
<1>1. c.job \in Jobs /\ c.token \in Nat
  BY InAJob DEF Complete, Retry, DeadLetter, Idle, Claims
<1>2. /\ CanComplete(r, w, c.token) => Abides(r, Completed(r))
      /\ CanRetry(r, w, c.token) => Abides(r, Retried(r, max, TRUE))
      /\ CanDeadLetter(r, w, c.token) => Abides(r, DeadLettered(r))
  <2>1. Booked(r) /\ max \in Nat
    BY <1>1, BudgetsAreNat DEF JobsBooked
  <2> QED BY <1>1, <2>1, HoldersAbide
<1>3. \/ UNCHANGED job
      \/ CanComplete(r, w, c.token) /\ job' = [job EXCEPT ![c.job] = Completed(r)]
      \/ /\ CanRetry(r, w, c.token)
         /\ job' = [job EXCEPT ![c.job] = Retried(r, max, TRUE)]
      \/ /\ CanDeadLetter(r, w, c.token)
         /\ job' = [job EXCEPT ![c.job] = DeadLettered(r)]
  BY DEF Complete, Retry, DeadLetter, Settle
<1> QED BY <1>1, <1>2, <1>3, SameJobsAbide, RowAbides

LEMMA WorkAbides ==
    ASSUME IInv, JobsBooked, NEW w \in Workers, Work(w) \/ Raise(w) \/ Crash(w)
    PROVE  JobsAbide
<1>1. ASSUME NEW c \in held[w],
             TakeNotification(w, c) \/ TakeExecution(w, c) \/ TakeOutcome(w, c)
      PROVE  JobsAbide
  BY <1>1, ExpiryAbides DEF TakeNotification, TakeExecution, TakeOutcome, Take
<1>2. CASE BeginActionExecution(w)
  BY <1>2, ExpiryAbides DEF BeginActionExecution
<1>3. CASE FinishActionExecution(w)
  <2> DEFINE j == <<current[w].job[1], "outcome">>
  <2>1. j \in Jobs
    BY <1>3, InAJob DEF FinishActionExecution, Idle, Jobs, Kinds
  <2>2. Abides(job[j], Enqueued(job[j], TRUE))
    BY <2>1, CallersAbide DEF JobsBooked
  <2>3. UNCHANGED job \/ job' = [job EXCEPT ![j] = Enqueued(job[j], TRUE)]
    BY <1>3 DEF FinishActionExecution
  <2> QED BY <2>1, <2>2, <2>3, SameJobsAbide, RowAbides
<1>4. CASE \/ Send(w) \/ MarkDelivered(w) \/ RetryAfterNoEffect(w) \/ Raise(w)
           \/ \E a \in Answers, commits \in BOOLEAN : Dispatch(w, a, commits)
           \/ Crash(w)
  BY <1>4, SameJobsAbide
  DEF Send, MarkDelivered, RetryAfterNoEffect, Raise, Dispatch, Crash
<1> QED BY <1>1, <1>2, <1>3, <1>4, SettlingAbides DEF Work

LEMMA StepAbides ==
    ASSUME IInv, JobsBooked, [Next]_vars
    PROVE  JobsAbide
<1>1. ASSUME NEW p \in Proposals, ApprovalRunsOut(p)
      PROVE  JobsAbide
  BY <1>1, SameJobsAbide DEF ApprovalRunsOut
<1>2. CASE ExpireDue
  BY <1>2, ExpiryAbides DEF ExpireDue
<1>3. CASE UNCHANGED vars
  BY <1>3, SameJobsAbide DEF vars
<1> QED BY <1>1, <1>2, <1>3, HumanAbides, OperatorAbides, PollAbides, WorkAbides
        DEF Next

(* Every card and every execution is leased to one worker at a time, under *)
(* epochs without gaps, and what was settled as done is not done again: a  *)
(* requeue of the operator reopens only jobs that were given up.           *)
THEOREM ApprovalJobsKeepTheLedger == Spec => LedgerSpec
<1>1. Init => JobsBooked /\ Ledger!Init
  <2> SUFFICES ASSUME Init PROVE JobsBooked /\ Ledger!Init
    OBVIOUS
  <2>1. AbsentRow \in Row
    BY DEF AbsentRow, Row, Statuses
  <2>2. Booked(AbsentRow)
    BY <2>1 DEF Booked, Sound, AbsentRow
  <2>3. LedgerEntry(AbsentRow) = Ledger!NewEntry
    BY PhaseOf DEF AbsentRow, LedgerEntry, Ledger!NewEntry
  <2> QED BY <2>2, <2>3 DEF Init, JobsBooked, Ledger!Init, JobsView
<1>2. IInv /\ JobsBooked /\ [Next]_vars => JobsBooked' /\ [Ledger!Next]_JobsView
  <2> SUFFICES ASSUME IInv, JobsBooked, [Next]_vars
               PROVE  JobsBooked' /\ Ledger!Next
    OBVIOUS
  <2>1. JobsAbide
    BY StepAbides
  <2>2. \A j \in Jobs : Booked(job'[j]) /\ job'[j] \in Row
    BY <2>1 DEF JobsAbide, Abides, Booked, Sound
  <2>3. \A j \in Jobs : Ledger!Lawful(LedgerEntry(job[j]), LedgerEntry(job'[j]))
    BY <2>1
    DEF JobsAbide, Abides, Law!Lawful, Law!Submit, Law!Grant, Law!Finish,
        Law!GiveBack, Law!Abort, Law!Reopen, Law!Unheld,
        Ledger!Lawful, Ledger!Submit, Ledger!Grant, Ledger!Finish,
        Ledger!GiveBack, Ledger!Abort, Ledger!Reopen, Ledger!Unheld
  <2>4. \A j \in Jobs : LedgerEntry(job'[j]) \in Ledger!Entry
    BY <2>2, EntriesHaveType DEF Law!Entry, Ledger!Entry
  <2> QED BY <2>2, <2>3, <2>4 DEF JobsBooked, Ledger!Next, JobsView
<1> QED BY <1>1, <1>2, Invariant, PTL DEF Spec, LedgerSpec, Ledger!Spec
=============================================================================
