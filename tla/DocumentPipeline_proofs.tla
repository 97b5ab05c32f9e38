------------------------ MODULE DocumentPipeline_proofs ------------------------
(***************************************************************************)
(* The document pipeline, for any uploads, routes, workers, attempts and   *)
(* crashes: accepted bytes outlive every failure, one run of a document    *)
(* may complete and is what the document shows, and no stale worker        *)
(* changes a run.                                                          *)
(***************************************************************************)
EXTENDS DocumentPipeline, JobRows_proofs

(* The steps that only one half of the worker takes. *)
ArchiveOnly == (ArchiveSteps \ ProcessSteps) \cup Maintenance
ProcessOnly == ProcessSteps \ ArchiveSteps

(* What a worker remembers fits what the tables say: it works on a document *)
(* that exists, removes a spool file once the archived copy is recorded,    *)
(* and asks for a fallback of a run that ended with a review.               *)
Fits(n) ==
    /\ n \in Worker
    /\ n.pc \in Phases <=> n.key = None
    /\ n.pc \in Phases => n.token = 0
    /\ n.pc \in ArchiveOnly => n.key[2] = 0
    /\ n.pc \in ProcessOnly => n.key[2] # 0
    /\ n.key # None /\ n.key[2] = 0 => doc[n.key[1]].state # "absent"
    /\ n.pc \in {"delete", "clear"} => doc[n.key[1]].source
    /\ n.pc = "fallback" => run[n.key].status = "needs_review"
    /\ n.pc \in {"fallback", "fallback_enqueue"} => n.key[2] < Routes

(* Every run but the newest of a document ended with a review. *)
Chain ==
    \A d \in Docs : \A n \in 1 .. Routes : \A m \in 1 .. n - 1 :
        run[<<d, n>>].status # "absent" => run[<<d, m>>].status = "needs_review"

DocOK(d) ==
    /\ doc[d].state = "ready" => doc[d].source
    /\ doc[d].state # "absent" /\ ~doc[d].source => file[d]

JobOK(k) ==
    /\ Sound(job[k])
    /\ k[2] = 0 /\ job[k].status # "absent" => doc[k[1]].state # "absent"

IntakeOK(d) ==
    intake[d] \in {"enqueue", "mark"} => doc[d].state # "absent"

IInv ==
    /\ TypeOK
    /\ \A d \in Docs : DocOK(d) /\ IntakeOK(d)
    /\ \A k \in Keys : JobOK(k)
    /\ \A w \in Workers : Fits(wk[w])
    /\ Chain
    /\ CompleteIsShown

----------------------------------------------------------------------------
(* What a step may do to each part of the state. *)

DocsMove ==
    /\ doc' \in [Docs -> Document] /\ file' \in [Docs -> BOOLEAN]
    /\ \A d \in Docs : /\ doc[d].state # "absent" => doc'[d].state # "absent"
                       /\ doc[d].source => doc'[d].source
                       /\ DocOK(d)'

RunsMove ==
    /\ run' \in [Runs -> Run]
    /\ \A k \in Runs : run[k].status = "needs_review"
                       => run'[k].status = "needs_review"
    /\ Chain' /\ CompleteIsShown'

JobsMove ==
    /\ job' \in [Keys -> Row]
    /\ \A k \in Keys : job'[k] = job[k] \/ JobOK(k)'

WorkersMove ==
    /\ wk' \in [Workers -> Worker]
    /\ \A w \in Workers : wk'[w] = wk[w] \/ Fits(wk[w])'

IntakeMove ==
    /\ intake' \in [Docs -> {"none", "enqueue", "mark", "done"}]
    /\ \A d \in Docs : intake'[d] = intake[d] \/ IntakeOK(d)'
    /\ crashes' \in 0 .. MaxCrashes

LEMMA KeyParts ==
    /\ \A k \in Keys : /\ k[1] \in Docs /\ k[2] \in 0 .. Routes
                       /\ k = <<k[1], k[2]>> /\ k # None
                       /\ k[2] # 0 => k \in Runs
    /\ \A k \in Runs : /\ k[1] \in Docs /\ k[2] \in 1 .. Routes /\ k[2] # 0
                       /\ k = <<k[1], k[2]>> /\ k \in Keys
    /\ \A d \in Docs : ArchiveKey(d) \in Keys /\ ArchiveKey(d)[1] = d
                       /\ ArchiveKey(d)[2] = 0
    /\ \A d \in Docs : <<d, 1>> \in Runs
BY KeysAssumption, RoutesAssumption
   DEF Keys, Runs, ArchiveKey, KeysAssumption, RoutesAssumption

LEMMA Assemble ==
    ASSUME IInv, DocsMove, RunsMove, JobsMove, WorkersMove, IntakeMove
    PROVE  IInv'
<1>1. TypeOK'
  BY DEF TypeOK, DocsMove, RunsMove, JobsMove, WorkersMove, IntakeMove
<1>2. \A d \in Docs : DocOK(d)' /\ IntakeOK(d)'
  BY DEF IInv, DocsMove, IntakeMove, IntakeOK
<1>3. \A k \in Keys : JobOK(k)'
  <2>1. TAKE k \in Keys
  <2>2. k[1] \in Docs
    BY KeyParts
  <2> QED BY <2>2 DEF IInv, JobsMove, JobOK, DocsMove
<1>4. \A w \in Workers : Fits(wk[w])'
  <2>1. TAKE w \in Workers
  <2>2. SUFFICES ASSUME wk'[w] = wk[w]
                 PROVE  Fits(wk[w])'
    BY DEF WorkersMove
  <2>3. Fits(wk[w])
    BY DEF IInv
  <2>4. wk[w].key # None => wk[w].key \in Keys /\ wk[w].key[1] \in Docs
    BY <2>3, KeyParts DEF Fits, Worker
  <2>5. wk[w].pc = "fallback" => wk[w].key \in Runs
    BY <2>3, <2>4, KeyParts
       DEF Fits, Phases, ProcessOnly, ProcessSteps, ArchiveSteps
  <2>6. wk[w].pc \in {"delete", "clear"} => wk[w].key # None
    BY <2>3 DEF Fits, Phases
  <2>7. /\ wk[w].key # None /\ wk[w].key[2] = 0
              => doc'[wk[w].key[1]].state # "absent"
        /\ wk[w].pc \in {"delete", "clear"} => doc'[wk[w].key[1]].source
        /\ wk[w].pc = "fallback" => run'[wk[w].key].status = "needs_review"
    BY <2>3, <2>4, <2>5, <2>6 DEF Fits, DocsMove, RunsMove
  <2> QED BY <2>2, <2>3, <2>7 DEF Fits
<1> QED BY <1>1, <1>2, <1>3, <1>4 DEF IInv, RunsMove

----------------------------------------------------------------------------
(* Frames *)

LEMMA DocsStay ==
    ASSUME IInv, UNCHANGED <<doc, file>>
    PROVE  DocsMove
BY DEF IInv, TypeOK, DocsMove, DocOK

LEMMA RunsStay ==
    ASSUME IInv, UNCHANGED run, doc' \in [Docs -> Document],
           \A d \in Docs :
               /\ doc'[d].active = doc[d].active
               /\ doc[d].processing = "complete" => doc'[d].processing = "complete"
    PROVE  RunsMove
BY DEF IInv, TypeOK, RunsMove, Chain, CompleteIsShown

LEMMA TablesStay ==
    ASSUME IInv, UNCHANGED <<doc, run, file>>
    PROVE  DocsMove /\ RunsMove
<1>1. DocsMove
  BY DocsStay
<1>2. RunsMove
  BY <1>1, RunsStay DEF DocsMove
<1> QED BY <1>1, <1>2

LEMMA JobsStay ==
    ASSUME IInv, UNCHANGED job
    PROVE  JobsMove
BY DEF IInv, TypeOK, JobsMove

LEMMA WorkersStay ==
    ASSUME IInv, UNCHANGED wk
    PROVE  WorkersMove
BY DEF IInv, TypeOK, WorkersMove

LEMMA IntakeStays ==
    ASSUME IInv, UNCHANGED <<intake, crashes>>
    PROVE  IntakeMove
BY DEF IInv, TypeOK, IntakeMove

(* A worker takes up something else. *)
LEMMA WorkerBecomes ==
    ASSUME IInv, NEW w \in Workers, NEW n, Fits(n)', wk' = [wk EXCEPT ![w] = n]
    PROVE  WorkersMove
<1>1. n \in Worker
  BY DEF Fits
<1> QED BY <1>1 DEF IInv, TypeOK, WorkersMove

LEMMA RestMoves ==
    ASSUME IInv, NEW w \in Workers, NEW phase \in Phases, Rest(w, phase)
    PROVE  WorkersMove
<1>1. Fits(At(phase))'
  BY DEF Fits, At, Worker, Phases, ArchiveOnly, ProcessOnly, ArchiveSteps,
         ProcessSteps, Maintenance
<1> QED BY <1>1, WorkerBecomes DEF Rest

LEMMA StartMoves ==
    ASSUME IInv, DocsMove, NEW w \in Workers, NEW d \in Docs,
           NEW pc \in {"reenqueue", "create", "deadletter"},
           Start(w, pc, d), doc[d].state # "absent"
    PROVE  WorkersMove
<1> DEFINE n == [pc |-> pc, key |-> ArchiveKey(d), token |-> 0, seen |-> TRUE]
<1>1. ArchiveKey(d) \in Keys /\ ArchiveKey(d)[1] = d /\ ArchiveKey(d)[2] = 0
      /\ ArchiveKey(d) # None
  BY KeyParts
<1>2. n \in Worker
  BY <1>1 DEF Worker, ArchiveSteps, Maintenance
<1>3. Fits(n)'
  BY <1>1, <1>2 DEF Fits, DocsMove, Phases, ProcessOnly, ProcessSteps
<1> QED BY <1>3, WorkerBecomes DEF Start

(* A worker that is at a step of a phase has a key. *)
LEMMA BusyFacts ==
    ASSUME IInv, NEW w \in Workers, wk[w].pc \notin Phases
    PROVE  /\ wk[w] \in Worker /\ Fits(wk[w])
           /\ wk[w].key \in Keys /\ wk[w].key # None
           /\ Doc(w) \in Docs /\ Route(w) \in 0 .. Routes
           /\ wk[w].key = <<Doc(w), Route(w)>>
           /\ Route(w) # 0 => wk[w].key \in Runs
           /\ Archives(w) <=> Route(w) = 0
           /\ Archives(w) => doc[Doc(w)].state # "absent"
           /\ wk[w].pc \in ArchiveOnly => Archives(w)
           /\ wk[w].pc \in ProcessOnly => ~Archives(w)
<1>1. Fits(wk[w])
  BY DEF IInv
<1>2. wk[w] \in Worker /\ wk[w].key # None /\ wk[w].key \in Keys
  BY <1>1 DEF Fits, Worker
<1> QED BY <1>1, <1>2, KeyParts DEF Fits, Doc, Route, Archives

LEMMA GotoMoves ==
    ASSUME IInv, DocsMove, RunsMove, NEW w \in Workers, wk[w].pc \notin Phases,
           NEW pc \in ArchiveSteps \cup Maintenance \cup ProcessSteps,
           NEW seen \in BOOLEAN, GotoSeen(w, pc, seen),
           pc \in ArchiveOnly => Archives(w),
           pc \in ProcessOnly => ~Archives(w),
           pc \in {"delete", "clear"} => doc'[Doc(w)].source,
           pc = "fallback" => run'[wk[w].key].status = "needs_review",
           pc \in {"fallback", "fallback_enqueue"} => Route(w) < Routes
    PROVE  WorkersMove
<1>1. wk[w] \in Worker /\ Fits(wk[w]) /\ wk[w].key # None /\ Doc(w) \in Docs
      /\ (Archives(w) <=> Route(w) = 0)
      /\ (Archives(w) => doc[Doc(w)].state # "absent")
  BY BusyFacts
<1>2. PICK n : n = [wk[w] EXCEPT !.pc = pc, !.seen = seen]
  OBVIOUS
<1>3. n \in Worker /\ n.pc = pc /\ n.key = wk[w].key
  BY <1>1, <1>2 DEF Worker
<1>4. pc \notin Phases
  BY DEF Phases, ArchiveSteps, Maintenance, ProcessSteps
<1>5. Fits(n)'
  BY <1>1, <1>3, <1>4 DEF Fits, DocsMove, Doc, Route
<1>6. wk' = [wk EXCEPT ![w] = n]
  BY <1>2 DEF IInv, TypeOK, GotoSeen
<1> QED BY <1>5, <1>6, WorkerBecomes

----------------------------------------------------------------------------
(* Changes of one document, one row, one run. *)

LEMMA DocMoves ==
    ASSUME IInv, NEW d \in Docs, NEW r \in Document, SetDoc(d, r),
           UNCHANGED file,
           r.state = doc[d].state \/ "absent" \notin {r.state, doc[d].state},
           doc[d].source => r.source, r.state = "ready" => r.source
    PROVE  DocsMove
<1>1. /\ doc' \in [Docs -> Document] /\ doc'[d] = r
      /\ \A e \in Docs \ {d} : doc'[e] = doc[e]
  BY DEF IInv, TypeOK, SetDoc
<1> QED BY <1>1 DEF IInv, TypeOK, DocsMove, DocOK

LEMMA JobMoves ==
    ASSUME IInv, DocsMove, NEW k \in Keys, NEW r, SetRow(k, r), Sound(r),
           k[2] = 0 => doc[k[1]].state # "absent"
    PROVE  JobsMove
<1>1. k[1] \in Docs
  BY KeyParts
<1>2. k[2] = 0 => doc'[k[1]].state # "absent"
  BY <1>1 DEF DocsMove
<1>3. r \in Row
  BY DEF Sound
<1> QED BY <1>2, <1>3 DEF IInv, TypeOK, SetRow, JobsMove, JobOK

LEMMA JobFacts ==
    ASSUME IInv, NEW k \in Keys
    PROVE  /\ Sound(job[k]) /\ job[k] \in Row
           /\ k[2] = 0 /\ job[k].status # "absent" => doc[k[1]].state # "absent"
BY DEF IInv, JobOK, Sound

(* The statements of the worker that holds a job. *)
LEMMA SettledRows ==
    ASSUME NEW r \in Row
    PROVE  /\ Sound(Completed(r)) /\ Sound(CancelAcknowledged(r))
           /\ Sound(Retried(r, MaxAttempts, TRUE))
           /\ Sound(Deferred(r, TRUE))
<1>1. Sound(Completed(r)) /\ Sound(CancelAcknowledged(r))
  BY EndedLeaseIsSteady
     DEF Completed, CancelAcknowledged, Steady, Terminal
<1>2. Sound(Retried(r, MaxAttempts, TRUE))
  BY SettledIsSteady, AttemptsAssumption DEF Steady, AttemptsAssumption
<1>3. Sound(Deferred(r, TRUE))
  <2> DEFINE u == Unleased(r, "retry")
             n == IF u.attempts > 0 THEN u.attempts - 1 ELSE 0
  <2>1. u \in Row /\ u.status = "retry"
    BY DEF Unleased, Row, Statuses, Waiting
  <2>2. n \in Nat
    BY <2>1 DEF Row
  <2>3. Deferred(r, TRUE) = [u EXCEPT !.attempts = n, !.due = TRUE]
    BY <2>1 DEF Deferred, Row
  <2> HIDE DEF u, n
  <2> QED BY <2>1, <2>2, <2>3 DEF Sound, Row
<1> QED BY <1>1, <1>2, <1>3

(* A run that may still change is the only hope of its document. *)
LEMMA NoneComplete ==
    ASSUME IInv, NEW k \in Runs, run[k].status \notin Finished,
           \/ run[k].status # "absent"
           \/ \A m \in 1 .. k[2] - 1 : run[<<k[1], m>>].status = "needs_review"
    PROVE  /\ \A m \in 1 .. k[2] - 1 : run[<<k[1], m>>].status = "needs_review"
           /\ \A m \in 1 .. Routes : run[<<k[1], m>>].status # "complete"
           /\ \A m \in 1 .. Routes : m > k[2] => run[<<k[1], m>>].status = "absent"
           /\ doc[k[1]].active = 0
<1>1. k[1] \in Docs /\ k[2] \in 1 .. Routes /\ k = <<k[1], k[2]>>
  BY KeyParts
<1>2. \A m \in 1 .. k[2] - 1 : run[<<k[1], m>>].status = "needs_review"
  BY <1>1 DEF IInv, Chain
<1>3. \A m \in 1 .. Routes : m > k[2] => run[<<k[1], m>>].status = "absent"
  <2>1. SUFFICES ASSUME NEW m \in 1 .. Routes, m > k[2],
                        run[<<k[1], m>>].status # "absent"
                 PROVE  FALSE
    OBVIOUS
  <2>2. k[2] \in 1 .. m - 1
    BY <1>1, <2>1, RoutesAssumption DEF RoutesAssumption
  <2> QED BY <1>1, <2>1, <2>2 DEF IInv, Chain, Finished
<1>4. \A m \in 1 .. Routes : run[<<k[1], m>>].status # "complete"
  <2>1. TAKE m \in 1 .. Routes
  <2>2. m < k[2] \/ m = k[2] \/ m > k[2]
    BY <1>1, <2>1
  <2> QED BY <1>1, <1>2, <1>3, <2>2 DEF Finished
<1>5. doc[k[1]].active = 0
  <2>1. doc[k[1]].active \in 0 .. Routes
    BY <1>1 DEF IInv, TypeOK, Document
  <2>2. doc[k[1]].active # 0 => doc[k[1]].active \in 1 .. Routes
    BY <2>1, RoutesAssumption DEF RoutesAssumption
  <2> QED BY <1>1, <1>4, <2>2 DEF IInv, CompleteIsShown
<1> QED BY <1>2, <1>3, <1>4, <1>5

LEMMA RunMoves ==
    ASSUME IInv, NEW k \in Runs, NEW n \in Run, SetRun(k, n),
           run[k].status \notin Finished, n.status # "absent",
           \/ run[k].status # "absent"
           \/ \A m \in 1 .. k[2] - 1 : run[<<k[1], m>>].status = "needs_review",
           doc' \in [Docs -> Document],
           \A d \in Docs \ {k[1]} : doc'[d] = doc[d],
           n.status = "complete" => /\ doc'[k[1]].processing = "complete"
                                    /\ doc'[k[1]].active = k[2],
           n.status # "complete" => doc'[k[1]].active = doc[k[1]].active
    PROVE  RunsMove
<1> DEFINE d == k[1]
<1>1. d \in Docs /\ k[2] \in 1 .. Routes /\ k = <<d, k[2]>>
  BY KeyParts
<1>2. /\ \A m \in 1 .. k[2] - 1 : run[<<d, m>>].status = "needs_review"
      /\ \A m \in 1 .. Routes : run[<<d, m>>].status # "complete"
      /\ \A m \in 1 .. Routes : m > k[2] => run[<<d, m>>].status = "absent"
      /\ doc[d].active = 0
  BY NoneComplete
<1>3. /\ run' \in [Runs -> Run] /\ run'[k] = n
      /\ \A q \in Runs \ {k} : run'[q] = run[q]
  BY DEF IInv, TypeOK, SetRun
<1>4. \A e \in Docs, m \in 1 .. Routes : <<e, m>> \in Runs
  BY DEF Runs
<1>5. \A e \in Docs \ {d} : \A m \in 1 .. Routes : run'[<<e, m>>] = run[<<e, m>>]
  <2>1. TAKE e \in Docs \ {d}
  <2>2. TAKE m \in 1 .. Routes
  <2>3. <<e, m>> # k
    BY <1>1
  <2> QED BY <1>3, <1>4, <2>3
<1>6. \A m \in 1 .. Routes : run'[<<d, m>>] = IF m = k[2] THEN n
                                              ELSE run[<<d, m>>]
  BY <1>1, <1>3, <1>4
<1>7. \A q \in Runs : run[q].status = "needs_review"
                      => run'[q].status = "needs_review"
  BY <1>3 DEF Finished
<1>8. Chain'
  <2>1. SUFFICES ASSUME NEW e \in Docs, NEW i \in 1 .. Routes,
                        NEW m \in 1 .. i - 1, run'[<<e, i>>].status # "absent"
                 PROVE  run'[<<e, m>>].status = "needs_review"
    BY DEF Chain
  <2>2. m \in 1 .. Routes
    BY <2>1, RoutesAssumption DEF RoutesAssumption
  <2>3. CASE e # d
    BY <1>5, <2>1, <2>2, <2>3 DEF IInv, Chain
  <2>4. CASE e = d
    <3>1. CASE i = k[2]
      BY <1>2, <1>6, <2>1, <2>2, <2>4, <3>1
    <3>2. CASE i # k[2]
      <4>1. run[<<d, i>>].status # "absent"
        BY <1>6, <2>1, <2>4, <3>2
      <4>2. i < k[2]
        BY <1>1, <1>2, <4>1, <3>2
      <4>3. m # k[2] /\ m \in 1 .. k[2] - 1
        BY <1>1, <4>2
      <4> QED BY <1>2, <1>6, <2>2, <2>4, <4>3
    <3> QED BY <3>1, <3>2
  <2> QED BY <2>3, <2>4
<1>9. CompleteIsShown'
  <2>1. SUFFICES ASSUME NEW e \in Docs
                 PROVE  /\ doc'[e].active # 0
                               => run'[<<e, doc'[e].active>>].status = "complete"
                        /\ \A m \in 1 .. Routes :
                               run'[<<e, m>>].status = "complete"
                               => doc'[e].processing = "complete"
                                  /\ doc'[e].active = m
    BY DEF CompleteIsShown
  <2>2. CASE e # d
    <3>1. doc'[e] = doc[e] /\ doc[e].active \in 0 .. Routes
      BY <2>1, <2>2 DEF IInv, TypeOK, Document
    <3> QED BY <1>5, <2>1, <2>2, <3>1, RoutesAssumption
            DEF IInv, CompleteIsShown, RoutesAssumption
  <2>3. CASE e = d /\ n.status = "complete"
    BY <1>1, <1>2, <1>6, <2>3
  <2>4. CASE e = d /\ n.status # "complete"
    BY <1>1, <1>2, <1>6, <2>4
  <2> QED BY <2>2, <2>3, <2>4
<1> QED BY <1>3, <1>7, <1>8, <1>9 DEF RunsMove

----------------------------------------------------------------------------
(* The actions, by what they change. *)

LEMMA WorkerOnly ==
    ASSUME IInv, UNCHANGED <<doc, run, file, job>>, WorkersMove, IntakeMove
    PROVE  IInv'
BY TablesStay, JobsStay, Assemble

LEMMA LooksOK ==
    ASSUME IInv, NEW w \in Workers,
           \/ RecoverAwaiting(w) \/ QueueUnprocessed(w) \/ EndMaintenance(w)
           \/ FindDeadLetter(w) \/ Crash(w)
    PROVE  IInv'
<1>1. UNCHANGED <<doc, run, file, job, intake>>
  BY DEF RecoverAwaiting, QueueUnprocessed, EndMaintenance, FindDeadLetter, Crash
<1>2. crashes' \in 0 .. MaxCrashes
  BY BoundsAssumption DEF IInv, TypeOK, RecoverAwaiting, QueueUnprocessed,
     EndMaintenance, FindDeadLetter, Crash, BoundsAssumption
<1>3. IntakeMove
  BY <1>1, <1>2 DEF IInv, TypeOK, IntakeMove
<1>4. DocsMove
  BY <1>1, TablesStay
<1>5. WorkersMove
  <2>1. ASSUME NEW d \in Docs, NEW pc \in {"reenqueue", "create", "deadletter"},
               doc[d].state # "absent", Start(w, pc, d)
        PROVE  WorkersMove
    BY <1>4, <2>1, StartMoves
  <2>2. CASE RecoverAwaiting(w)
    BY <2>1, <2>2 DEF RecoverAwaiting
  <2>3. CASE QueueUnprocessed(w)
    BY <2>1, <2>3 DEF QueueUnprocessed, Unprocessed
  <2>4. CASE FindDeadLetter(w)
    <3>1. PICK d \in Docs : Unshown(d) /\ Start(w, "deadletter", d)
      BY <2>4 DEF FindDeadLetter
    <3>2. ArchiveKey(d) \in Keys /\ ArchiveKey(d)[1] = d /\ ArchiveKey(d)[2] = 0
      BY KeyParts
    <3>3. doc[d].state # "absent"
      BY <3>1, <3>2, JobFacts DEF Unshown, ArchiveKey
    <3> QED BY <2>1, <3>1, <3>3
  <2>5. CASE EndMaintenance(w) \/ Crash(w)
    BY <2>5, RestMoves DEF EndMaintenance, Crash, Phases
  <2> QED BY <2>2, <2>3, <2>4, <2>5
<1> QED BY <1>1, <1>3, <1>5, WorkerOnly

LEMMA ReadsOK ==
    ASSUME IInv, NEW w \in Workers,
           \/ ReadRecord(w) \/ Submit(w) \/ ReadBack(w) \/ Raise(w)
           \/ Progress(w) \/ ParserPending(w)
    PROVE  IInv'
<1>1. UNCHANGED <<doc, run, file, job, intake, crashes>>
  BY DEF ReadRecord, Submit, ReadBack, Raise, Progress, ParserPending
<1>2. DocsMove /\ RunsMove /\ IntakeMove
  BY <1>1, TablesStay, IntakeStays
<1>3. wk[w].pc \notin Phases
  BY DEF IInv, Fits, ReadRecord, Submit, ReadBack, Raise, Progress,
         ParserPending, Phases
<1>4. /\ Doc(w) \in Docs /\ wk[w] \in Worker
      /\ wk[w].pc \in ArchiveOnly => Archives(w)
      /\ wk[w].pc \in ProcessOnly => ~Archives(w)
  BY <1>3, BusyFacts
<1> DEFINE Shared == {"submit", "retry", "readback", "failure", "complete"}
<1>5. ASSUME NEW pc \in Shared, NEW seen \in BOOLEAN, GotoSeen(w, pc, seen)
      PROVE  WorkersMove
  BY <1>2, <1>3, <1>5, GotoMoves
     DEF ArchiveOnly, ProcessOnly, ArchiveSteps, ProcessSteps, Maintenance
<1>6. CASE ReadRecord(w)
  <2>1. doc[Doc(w)] \in Document
    BY <1>4 DEF IInv, TypeOK
  <2>2. PICK pc \in {"delete", "create", "retry", "ready", "submit"} :
            /\ GotoSeen(w, pc, doc[Doc(w)].processing = "not_requested")
            /\ pc = "delete" => doc[Doc(w)].state = "ready"
    <3> DEFINE r == doc[Doc(w)]
    <3>1. r.spool \in BOOLEAN /\ r.task \in BOOLEAN
      BY <2>1 DEF Document
    <3>2. CASE r.state = "ready" /\ r.spool
      BY <1>6, <3>2 DEF ReadRecord
    <3>3. CASE r.state = "ready" /\ ~r.spool
      BY <1>6, <3>3 DEF ReadRecord
    <3>4. CASE r.state # "ready" /\ ~r.spool
      BY <1>6, <3>4 DEF ReadRecord
    <3>5. CASE r.state # "ready" /\ r.spool /\ r.task
      BY <1>6, <3>5 DEF ReadRecord
    <3>6. CASE r.state # "ready" /\ r.spool /\ ~r.task
      BY <1>6, <3>6 DEF ReadRecord
    <3> QED BY <3>1, <3>2, <3>3, <3>4, <3>5, <3>6
  <2>3. pc = "delete" => doc'[Doc(w)].source
    BY <1>1, <1>4, <2>2 DEF IInv, DocOK
  <2>4. Archives(w)
    BY <1>4, <1>6 DEF ReadRecord, ArchiveOnly, ArchiveSteps, ProcessSteps
  <2>5. pc \in ArchiveSteps /\ pc \notin ProcessOnly
        /\ pc \notin {"clear", "fallback", "fallback_enqueue"}
    BY <2>2 DEF ProcessOnly, ArchiveSteps, ProcessSteps
  <2>6. (doc[Doc(w)].processing = "not_requested") \in BOOLEAN
    OBVIOUS
  <2>7. WorkersMove
    BY <1>2, <1>3, <2>2, <2>3, <2>4, <2>5, <2>6, GotoMoves
  <2> QED BY <1>1, <1>2, <2>7, WorkerOnly
<1>7. CASE Submit(w)
  <2>1. PICK pc \in {"marking", "retry"} : GotoSeen(w, pc, FALSE)
    BY <1>7 DEF Submit, Goto
  <2>2. Archives(w) /\ pc \in ArchiveSteps /\ pc \notin ProcessOnly
        /\ pc \notin {"delete", "clear", "fallback", "fallback_enqueue"}
    BY <1>7, <2>1 DEF Submit, ProcessOnly, ArchiveSteps, ProcessSteps
  <2>3. WorkersMove
    BY <1>2, <1>3, <2>1, <2>2, GotoMoves
  <2> QED BY <1>1, <1>2, <2>3, WorkerOnly
<1>8. CASE ReadBack(w) \/ Raise(w)
  <2>1. WorkersMove
    BY <1>5, <1>8 DEF ReadBack, Raise, Goto
  <2> QED BY <1>1, <1>2, <2>1, WorkerOnly
<1>9. CASE Progress(w) \/ ParserPending(w)
  <2>1. PICK pc \in {"begin", "retry", "defer"} : GotoSeen(w, pc, FALSE)
    BY <1>9 DEF Progress, ParserPending, Goto
  <2>2. ~Archives(w)
    BY <1>4, <1>9 DEF Progress, ParserPending, ProcessOnly, ArchiveSteps,
                      ProcessSteps
  <2>3. pc \in ProcessSteps /\ pc \notin ArchiveOnly
        /\ pc \notin {"delete", "clear", "fallback", "fallback_enqueue"}
    BY <2>1 DEF ArchiveOnly, ArchiveSteps, ProcessSteps, Maintenance
  <2>4. WorkersMove
    BY <1>2, <1>3, <2>1, <2>2, <2>3, GotoMoves
  <2> QED BY <1>1, <1>2, <2>4, WorkerOnly
<1> QED BY <1>6, <1>7, <1>8, <1>9

(* The columns of one document. *)
LEMMA ColumnsOK ==
    ASSUME IInv, NEW w \in Workers,
           \/ ReMark(w) \/ MarkArchiving(w) \/ MarkReady(w) \/ ClearSpool(w)
           \/ MarkFailure(w) \/ MarkDeadLetter(w)
    PROVE  IInv'
<1> DEFINE d == Doc(w)
<1>1. UNCHANGED <<run, file, job, intake, crashes>>
  BY DEF ReMark, MarkArchiving, MarkReady, ClearSpool, MarkFailure,
         MarkDeadLetter
<1>2. wk[w].pc \notin Phases
  BY DEF ReMark, MarkArchiving, MarkReady, ClearSpool, MarkFailure,
         MarkDeadLetter, Phases
<1>3. /\ d \in Docs /\ wk[w] \in Worker /\ Fits(wk[w])
      /\ wk[w].pc \in ArchiveOnly => Archives(w)
      /\ Archives(w) => doc[d].state # "absent"
  BY <1>2, BusyFacts
<1>4. Archives(w)
  BY <1>3 DEF ReMark, MarkArchiving, MarkReady, ClearSpool, MarkFailure,
     MarkDeadLetter, ArchiveOnly, ArchiveSteps, ProcessSteps, Maintenance
<1>5. doc[d] \in Document /\ doc[d].state # "absent"
      /\ (doc[d].state = "ready" => doc[d].source)
      /\ doc \in [Docs -> Document]
  BY <1>3, <1>4 DEF IInv, TypeOK, DocOK
<1>6. wk[w].seen \in BOOLEAN
  BY <1>3 DEF Worker
<1>7. PICK r \in {Enqueuing(doc[d]), Archiving(doc[d]), Ready(doc[d]),
                  Despooled(doc[d]), Failure(doc[d], wk[w].seen),
                  Failure(doc[d], TRUE)} :
          /\ SetDoc(d, r)
          /\ MarkReady(w) => r = Ready(doc[d])
  BY DEF ReMark, MarkArchiving, MarkReady, ClearSpool, MarkFailure,
         MarkDeadLetter
<1>8. /\ r \in Document /\ r.state # "absent"
      /\ r.processing = doc[d].processing /\ r.active = doc[d].active
      /\ doc[d].source => r.source
      /\ r.state = "ready" => r.source
      /\ MarkReady(w) => r.source
  BY <1>5, <1>6, <1>7
     DEF Enqueuing, Archiving, Ready, Despooled, Failure, Document, DocStates
<1>9. doc' = [doc EXCEPT ![d] = r]
  BY <1>7 DEF SetDoc
<1>10. DocsMove
  BY <1>1, <1>3, <1>5, <1>7, <1>8, DocMoves
<1>11. RunsMove
  <2>1. \A e \in Docs : doc'[e].processing = doc[e].processing
                        /\ doc'[e].active = doc[e].active
    BY <1>3, <1>5, <1>8, <1>9
  <2> QED BY <1>1, <1>10, <2>1, RunsStay DEF DocsMove
<1>12. WorkersMove
  <2>1. CASE MarkArchiving(w)
    <3>1. GotoSeen(w, "ready", FALSE)
      BY <2>1 DEF MarkArchiving, Goto
    <3> QED BY <1>2, <1>4, <1>10, <1>11, <3>1, GotoMoves
            DEF ArchiveSteps, ProcessOnly, ProcessSteps
  <2>2. CASE MarkReady(w)
    <3>1. GotoSeen(w, "delete", FALSE) /\ doc'[d].source
      BY <1>3, <1>5, <1>8, <1>9, <2>2 DEF MarkReady, Goto
    <3> QED BY <1>2, <1>4, <1>10, <1>11, <3>1, GotoMoves
            DEF ArchiveSteps, ProcessOnly, ProcessSteps
  <2>3. CASE ClearSpool(w)
    <3>1. PICK seen \in BOOLEAN : GotoSeen(w, "create", seen)
      BY <2>3 DEF ClearSpool
    <3> QED BY <1>2, <1>4, <1>10, <1>11, <3>1, GotoMoves
            DEF ArchiveSteps, ProcessOnly, ProcessSteps
  <2>4. CASE ReMark(w) \/ MarkFailure(w) \/ MarkDeadLetter(w)
    BY <2>4, RestMoves DEF ReMark, MarkFailure, MarkDeadLetter, Phases
  <2> QED BY <2>1, <2>2, <2>3, <2>4
<1>13. JobsMove /\ IntakeMove
  BY <1>1, JobsStay, IntakeStays
<1> QED BY <1>10, <1>11, <1>12, <1>13, Assemble

(* The spool file goes once the archived copy is recorded. *)
LEMMA DeleteSpoolOK ==
    ASSUME IInv, NEW w \in Workers, DeleteSpool(w)
    PROVE  IInv'
<1>1. UNCHANGED <<doc, run, job, intake, crashes>> /\ wk[w].pc = "delete"
      /\ file' = [file EXCEPT ![Doc(w)] = FALSE]
      /\ GotoSeen(w, "clear", FALSE)
  BY DEF DeleteSpool, Goto
<1>2. /\ wk[w].pc \notin Phases /\ wk[w].pc \in ArchiveOnly
      /\ "clear" \in ArchiveSteps /\ "clear" \notin ProcessOnly
  BY <1>1 DEF Phases, ArchiveOnly, ArchiveSteps, ProcessSteps, ProcessOnly
<1>3. Doc(w) \in Docs /\ Archives(w) /\ Fits(wk[w])
  BY <1>2, BusyFacts
<1>4. doc[Doc(w)].source
  BY <1>1, <1>3 DEF Fits, Doc
<1>5. DocsMove
  BY <1>1, <1>3, <1>4 DEF IInv, TypeOK, DocsMove, DocOK
<1>6. RunsMove
  BY <1>1, <1>5, RunsStay DEF DocsMove
<1>7. WorkersMove
  BY <1>1, <1>2, <1>3, <1>4, <1>5, <1>6, GotoMoves
<1> QED BY <1>1, <1>5, <1>6, <1>7, JobsStay, IntakeStays, Assemble

----------------------------------------------------------------------------
(* Jobs *)

LEMMA JobOnly ==
    ASSUME IInv, UNCHANGED <<doc, run, file, intake, crashes>>, WorkersMove,
           JobsMove
    PROVE  IInv'
BY TablesStay, IntakeStays, Assemble

LEMMA ClaimsOK ==
    ASSUME IInv, NEW w \in Workers, ClaimArchive(w) \/ ClaimRun(w)
    PROVE  IInv'
<1>1. UNCHANGED <<doc, run, file, intake, crashes>>
  BY DEF ClaimArchive, ClaimRun
<1>2. PICK S \in {{ArchiveKey(d) : d \in Docs}, Runs},
           pc \in {"read", "progress"}, otherwise \in {"poll", "reconcile"} :
          /\ ClaimOf(w, S, pc, otherwise)
          /\ \/ S = {ArchiveKey(d) : d \in Docs} /\ pc = "read"
             \/ S = Runs /\ pc = "progress"
  <2>1. CASE ClaimArchive(w)
    BY <2>1 DEF ClaimArchive
  <2>2. CASE ClaimRun(w)
    BY <2>2 DEF ClaimRun
  <2> QED BY <2>1, <2>2
<1>3. \A k \in S : k \in Keys /\ (k[2] = 0 <=> pc = "read")
  BY <1>2, KeyParts
<1>4. \A k \in Keys : Sound(SweptJobs[k])
                      /\ (job[k].status = "absent" => SweptJobs[k] = job[k])
  <2>1. TAKE k \in Keys
  <2>2. Sound(Swept(job[k], MaxAttempts))
    BY JobFacts, SweptIsSteady, AttemptsAssumption DEF Steady, AttemptsAssumption
  <2>3. job[k].status = "absent" => Swept(job[k], MaxAttempts) = job[k]
    BY DEF Swept, SweepExpiredLease, SweepOverdue, SweepCancelRequested, Waiting
  <2> QED BY <2>2, <2>3 DEF SweptJobs
<1>5. DocsMove
  BY <1>1, TablesStay
<1>6. SweptJobs \in [Keys -> Row]
      /\ \A k \in Keys : /\ Sound(SweptJobs[k])
                         /\ k[2] = 0 /\ SweptJobs[k].status # "absent"
                                => doc'[k[1]].state # "absent"
  <2>1. \A k \in Keys : SweptJobs[k] \in Row
    BY <1>4 DEF Sound
  <2>2. SweptJobs \in [Keys -> Row]
    BY <2>1 DEF SweptJobs
  <2> QED BY <1>1, <1>4, <2>2, JobFacts
<1>7. CASE job' = SweptJobs /\ Rest(w, otherwise)
  <2>1. JobsMove
    BY <1>6, <1>7 DEF JobsMove, JobOK
  <2>2. WorkersMove
    BY <1>7, RestMoves DEF Phases
  <2> QED BY <1>1, <2>1, <2>2, JobOnly
<1>8. ASSUME NEW k \in S, Claimable(SweptJobs[k], MaxAttempts),
             job' = [SweptJobs EXCEPT ![k] = Claimed(SweptJobs[k], w)],
             wk' = [wk EXCEPT ![w] = [pc |-> pc, key |-> k,
                        token |-> SweptJobs[k].token + 1, seen |-> FALSE]]
      PROVE  IInv'
  <2>1. k \in Keys /\ SweptJobs[k] \in Row
    BY <1>3, <1>6, <1>8
  <2>2. k[2] = 0 => doc'[k[1]].state # "absent"
    BY <1>6, <1>8, <2>1 DEF Claimable, Waiting
  <2>3. Sound(Claimed(SweptJobs[k], w)) /\ Claimed(SweptJobs[k], w) \in Row
    BY <2>1, ClaimedAdvances DEF Sound
  <2>4. JobsMove
    BY <1>6, <1>8, <2>1, <2>2, <2>3 DEF JobsMove, JobOK
  <2>5. PICK t \in Nat : t = SweptJobs[k].token + 1
    BY <2>1 DEF Row
  <2> DEFINE n == [pc |-> pc, key |-> k, token |-> t, seen |-> FALSE]
  <2>6. n \in Worker /\ k # None /\ (k[2] = 0 <=> pc = "read")
    BY <1>2, <1>3, <1>8, <2>1, KeyParts DEF Worker, ArchiveSteps, ProcessSteps
  <2>7. pc \in {"read", "progress"}
    BY <1>2
  <2>8. Fits(n)'
    BY <2>2, <2>6, <2>7 DEF Fits, Phases, ArchiveOnly, ProcessOnly, ArchiveSteps,
                            ProcessSteps, Maintenance
  <2>9. WorkersMove
    BY <1>8, <2>5, <2>8, WorkerBecomes
  <2> QED BY <1>1, <2>4, <2>9, JobOnly
<1> QED BY <1>2, <1>7, <1>8 DEF ClaimOf

(* What the holder of a job, a caller or the clock makes of one row. *)
LEMMA RowMoves ==
    ASSUME IInv, UNCHANGED <<doc, run, file>>, NEW k \in Keys, NEW r,
           SetRow(k, r),
           k[2] = 0 => doc[k[1]].state # "absent",
           r \in {Enqueued(job[k], TRUE), Completed(job[k]),
                  CancelAcknowledged(job[k]), Deferred(job[k], TRUE),
                  Retried(job[k], MaxAttempts, TRUE), CancelRequested(job[k])}
    PROVE  JobsMove
<1>1. Sound(job[k]) /\ job[k] \in Row
  BY JobFacts
<1>2. Sound(r)
  BY <1>1, SettledRows, RequestsAreSteady DEF Steady
<1> QED BY <1>2, TablesStay, JobMoves

LEMMA SettlesOK ==
    ASSUME IInv, NEW w \in Workers,
           CompleteArchive(w) \/ CompleteRun(w) \/ DeferRun(w) \/ RetryJob(w)
    PROVE  IInv'
<1>1. UNCHANGED <<doc, run, file, intake, crashes>>
  BY DEF CompleteArchive, CompleteRun, DeferRun, RetryJob
<1>2. wk[w].pc \notin Phases
  BY DEF CompleteArchive, CompleteRun, DeferRun, RetryJob, Phases
<1>3. /\ wk[w].key \in Keys /\ wk[w] \in Worker
      /\ wk[w].key[2] = 0 => doc[wk[w].key[1]].state # "absent"
      /\ Archives(w) <=> Route(w) = 0
      /\ wk[w].pc \in ProcessOnly => ~Archives(w)
  BY <1>2, BusyFacts DEF Archives, Route, Doc
<1> DEFINE k == wk[w].key
<1>4. \/ UNCHANGED job
      \/ \E r \in {Completed(job[k]), CancelAcknowledged(job[k]),
                   Deferred(job[k], TRUE), Retried(job[k], MaxAttempts, TRUE)} :
             SetRow(k, r)
  <2>1. CASE CompleteArchive(w)
    BY <2>1 DEF CompleteArchive, MyRow
  <2>2. CASE CompleteRun(w)
    BY <2>2 DEF CompleteRun, MyRow
  <2>3. CASE DeferRun(w)
    BY <2>3 DEF DeferRun, MyRow
  <2>4. CASE RetryJob(w)
    BY <2>4 DEF RetryJob, MyRow
  <2> QED BY <2>1, <2>2, <2>3, <2>4
<1>5. JobsMove
  BY <1>1, <1>3, <1>4, JobsStay, RowMoves
<1>6. DocsMove /\ RunsMove
  BY <1>1, TablesStay
<1>7. ASSUME NEW pc \in {"retry", "readback"}, Goto(w, pc)
      PROVE  WorkersMove
  BY <1>2, <1>6, <1>7, GotoMoves
     DEF Goto, ArchiveOnly, ProcessOnly, ArchiveSteps, ProcessSteps, Maintenance
<1>8. ASSUME NEW phase \in Phases, Rest(w, phase)
      PROVE  WorkersMove
  BY <1>8, RestMoves
<1>9. WorkersMove
  <2>1. CASE CompleteArchive(w)
    BY <1>7, <1>8, <2>1 DEF CompleteArchive, Phases
  <2>2. CASE CompleteRun(w)
    BY <1>7, <1>8, <2>2 DEF CompleteRun, Phases
  <2>3. CASE DeferRun(w)
    <3>1. CASE Goto(w, "cancelled")
      <4>1. ~Archives(w)
        BY <1>3, <2>3 DEF DeferRun, ProcessOnly, ProcessSteps, ArchiveSteps
      <4> QED BY <1>2, <1>6, <3>1, <4>1, GotoMoves
              DEF Goto, ArchiveOnly, ArchiveSteps, ProcessSteps, Maintenance
    <3>2. Goto(w, "cancelled") \/ Rest(w, "poll")
      BY <2>3 DEF DeferRun
    <3> QED BY <1>8, <3>1, <3>2 DEF Phases
  <2>4. CASE RetryJob(w)
    BY <1>7, <2>4 DEF RetryJob
  <2> QED BY <2>1, <2>2, <2>3, <2>4
<1> QED BY <1>1, <1>5, <1>9, JobOnly

LEMMA EnqueuesOK ==
    ASSUME IInv, NEW w \in Workers,
           ReEnqueue(w) \/ RecoverRun(w) \/ EnsureEnqueued(w) \/ EnqueueFallback(w)
    PROVE  IInv'
<1>1. UNCHANGED <<doc, run, file, intake, crashes>>
  BY DEF ReEnqueue, RecoverRun, EnsureEnqueued, EnqueueFallback
<1>2. DocsMove /\ RunsMove
  BY <1>1, TablesStay
<1>3. CASE RecoverRun(w)
  <2>1. PICK k \in Runs : SetRow(k, Enqueued(job[k], TRUE))
    BY <1>3 DEF RecoverRun
  <2>2. k \in Keys /\ k[2] # 0
    BY KeyParts
  <2>3. JobsMove
    BY <1>1, <2>1, <2>2, RowMoves
  <2> QED BY <1>1, <1>3, <2>3, WorkersStay, JobOnly DEF RecoverRun
<1>4. ASSUME wk[w].pc \in {"reenqueue", "enqueue", "fallback_enqueue"}
      PROVE  /\ wk[w].pc \notin Phases /\ wk[w].key \in Keys /\ wk[w] \in Worker
             /\ Doc(w) \in Docs /\ Route(w) \in 0 .. Routes /\ Fits(wk[w])
             /\ wk[w].key[2] = 0 => doc[wk[w].key[1]].state # "absent"
             /\ wk[w].pc \in {"reenqueue", "enqueue"} => Archives(w)
             /\ wk[w].pc = "fallback_enqueue" => ~Archives(w)
  <2>1. wk[w].pc \notin Phases
    BY <1>4 DEF Phases
  <2> QED BY <1>4, <2>1, BusyFacts
          DEF Archives, Route, Doc, ArchiveOnly, ProcessOnly, ArchiveSteps,
              ProcessSteps, Maintenance
<1>5. CASE ReEnqueue(w)
  <2>1. wk[w].pc = "reenqueue" /\ SetRow(wk[w].key, Enqueued(job[wk[w].key], TRUE))
        /\ GotoSeen(w, "remark", FALSE)
    BY <1>5 DEF ReEnqueue, MyRow, Goto
  <2>2. JobsMove
    BY <1>1, <1>4, <2>1, RowMoves
  <2>3. WorkersMove
    BY <1>2, <1>4, <2>1, GotoMoves DEF Maintenance, ProcessOnly, ProcessSteps
  <2> QED BY <1>1, <2>2, <2>3, JobOnly
<1>6. CASE EnsureEnqueued(w)
  <2>1. /\ wk[w].pc = "enqueue"
        /\ SetRow(<<Doc(w), 1>>, Enqueued(job[<<Doc(w), 1>>], TRUE))
        /\ Rest(w, "poll") \/ GotoSeen(w, "complete", FALSE)
    BY <1>6 DEF EnsureEnqueued, Goto
  <2>2. <<Doc(w), 1>> \in Keys /\ <<Doc(w), 1>>[2] # 0
    BY <1>4, <2>1, KeyParts
  <2>3. JobsMove
    BY <1>1, <2>1, <2>2, RowMoves
  <2>4. WorkersMove
    <3>1. CASE Rest(w, "poll")
      BY <3>1, RestMoves DEF Phases
    <3>2. CASE GotoSeen(w, "complete", FALSE)
      BY <1>2, <1>4, <2>1, <3>2, GotoMoves
         DEF ArchiveOnly, ProcessOnly, ArchiveSteps, ProcessSteps, Maintenance
    <3> QED BY <2>1, <3>1, <3>2
  <2> QED BY <1>1, <2>3, <2>4, JobOnly
<1>7. CASE EnqueueFallback(w)
  <2>1. /\ wk[w].pc = "fallback_enqueue" /\ GotoSeen(w, "complete", FALSE)
        /\ UNCHANGED job \/ SetRow(NextRun(w), Enqueued(job[NextRun(w)], TRUE))
    BY <1>7 DEF EnqueueFallback, Goto
  <2>2. Route(w) < Routes /\ Route(w) \in 0 .. Routes /\ Doc(w) \in Docs
    BY <1>4, <2>1 DEF Fits, Route
  <2>3. NextRun(w) \in Keys /\ NextRun(w)[2] # 0
    BY <2>2, RoutesAssumption DEF NextRun, Keys, RoutesAssumption
  <2>4. JobsMove
    BY <1>1, <2>1, <2>3, RowMoves, JobsStay
  <2>5. WorkersMove
    BY <1>2, <1>4, <2>1, GotoMoves
       DEF ArchiveOnly, ProcessOnly, ArchiveSteps, ProcessSteps, Maintenance
  <2> QED BY <1>1, <2>4, <2>5, JobOnly
<1> QED BY <1>3, <1>5, <1>6, <1>7

LEMMA OthersOK ==
    ASSUME IInv, NEW k \in Keys, Expire(k) \/ OperatorCancel(k)
    PROVE  IInv'
<1>1. UNCHANGED <<doc, run, file, intake, crashes, wk>>
  BY DEF Expire, OperatorCancel
<1>2. /\ job[k] \in Row /\ job[k].status # "absent"
      /\ k[2] = 0 => doc[k[1]].state # "absent"
  BY JobFacts DEF Expire, OperatorCancel
<1>3. CASE Expire(k)
  <2>1. Sound([job[k] EXCEPT !.expired = TRUE])
    BY <1>2, ExpiryIsSteady DEF Steady
  <2>2. JobsMove
    BY <1>1, <1>2, <1>3, <2>1, TablesStay, JobMoves DEF Expire
  <2> QED BY <1>1, <2>2, WorkersStay, JobOnly
<1>4. CASE OperatorCancel(k)
  <2>1. JobsMove
    BY <1>1, <1>2, <1>4, RowMoves DEF OperatorCancel
  <2> QED BY <1>1, <2>1, WorkersStay, JobOnly
<1> QED BY <1>3, <1>4

----------------------------------------------------------------------------
(* The request thread *)

LEMMA IntakesOK ==
    ASSUME IInv, NEW d \in Docs, Accept(d) \/ Intake(d) \/ IntakeFails(d)
    PROVE  IInv'
<1>1. UNCHANGED <<run, wk, crashes>>
  BY DEF Accept, Intake, EnqueueDocument, MarkEnqueued, IntakeFails
<1>2. doc[d] \in Document /\ doc \in [Docs -> Document]
      /\ file \in [Docs -> BOOLEAN]
      /\ intake \in [Docs -> {"none", "enqueue", "mark", "done"}]
  BY DEF IInv, TypeOK
<1>3. ASSUME NEW at \in {"enqueue", "mark", "done"},
             intake' = [intake EXCEPT ![d] = at],
             at # "done" => doc'[d].state # "absent"
      PROVE  IntakeMove
  <2>1. crashes' \in 0 .. MaxCrashes
    BY <1>1 DEF IInv, TypeOK
  <2> QED BY <1>2, <1>3, <2>1 DEF IntakeMove, IntakeOK
<1>4. CASE Accept(d)
  <2> DEFINE r == Created(doc[d])
  <2>1. r \in Document /\ r.state = "awaiting" /\ r.source = doc[d].source
        /\ r.processing = doc[d].processing /\ r.active = doc[d].active
    BY <1>2 DEF Created, Document, DocStates
  <2>2. doc' = [doc EXCEPT ![d] = r] /\ file' = [file EXCEPT ![d] = TRUE]
        /\ UNCHANGED job /\ intake' = [intake EXCEPT ![d] = "enqueue"]
    BY <1>4 DEF Accept, SetDoc
  <2> HIDE DEF r
  <2>3. DocsMove
    BY <1>2, <2>1, <2>2 DEF IInv, DocsMove, DocOK
  <2>4. RunsMove
    BY <1>1, <1>2, <2>1, <2>2, <2>3, RunsStay DEF DocsMove
  <2>5. IntakeMove
    BY <1>2, <1>3, <2>1, <2>2
  <2> QED BY <1>1, <2>2, <2>3, <2>4, <2>5, JobsStay, WorkersStay, Assemble
<1>5. CASE EnqueueDocument(d)
  <2>1. /\ UNCHANGED <<doc, file>>
        /\ SetRow(ArchiveKey(d), Enqueued(job[ArchiveKey(d)], TRUE))
        /\ intake' = [intake EXCEPT ![d] = "mark"] /\ doc[d].state # "absent"
    BY <1>5 DEF EnqueueDocument, IInv, IntakeOK
  <2>2. JobsMove
    BY <1>1, <2>1, KeyParts, RowMoves
  <2>3. IntakeMove
    BY <1>3, <2>1
  <2> QED BY <1>1, <2>1, <2>2, <2>3, TablesStay, WorkersStay, Assemble
<1>6. CASE MarkEnqueued(d)
  <2>1. /\ UNCHANGED <<job, file>> /\ SetDoc(d, Enqueuing(doc[d]))
        /\ intake' = [intake EXCEPT ![d] = "done"] /\ doc[d].state # "absent"
    BY <1>6 DEF MarkEnqueued, IInv, IntakeOK
  <2> DEFINE r == Enqueuing(doc[d])
  <2>2. r \in Document /\ r.state = "queued" /\ r.source = doc[d].source
        /\ r.processing = doc[d].processing /\ r.active = doc[d].active
    BY <1>2 DEF Enqueuing, Document, DocStates
  <2>3. doc' = [doc EXCEPT ![d] = r]
    BY <2>1 DEF SetDoc
  <2>4. DocsMove
    BY <2>1, <2>2, DocMoves
  <2>5. RunsMove
    <3> HIDE DEF r
    <3> QED BY <1>1, <1>2, <2>2, <2>3, <2>4, RunsStay DEF DocsMove
  <2>6. IntakeMove
    BY <1>3, <2>1
  <2> QED BY <1>1, <2>1, <2>4, <2>5, <2>6, JobsStay, WorkersStay, Assemble
<1>7. CASE IntakeFails(d)
  <2>1. UNCHANGED <<doc, job, file>> /\ intake' = [intake EXCEPT ![d] = "done"]
    BY <1>7 DEF IntakeFails
  <2>2. IntakeMove
    BY <1>3, <2>1
  <2> QED BY <1>1, <2>1, <2>2, TablesStay, JobsStay, WorkersStay, Assemble
<1> QED BY <1>4, <1>5, <1>6, <1>7 DEF Intake

----------------------------------------------------------------------------
(* Runs *)

(* A run that is neither finished nor absent changes with its document.    *)
LEMMA RunAndDocMove ==
    ASSUME IInv, NEW k \in Runs, NEW n \in Run, NEW r \in Document,
           run[k].status \notin Finished, n.status # "absent",
           \/ run[k].status # "absent"
           \/ \A m \in 1 .. k[2] - 1 : run[<<k[1], m>>].status = "needs_review",
           SetRun(k, n), doc' = [doc EXCEPT ![k[1]] = r], UNCHANGED file,
           r.state = doc[k[1]].state, r.source = doc[k[1]].source,
           n.status = "complete" => r.processing = "complete" /\ r.active = k[2],
           n.status # "complete" => r.active = doc[k[1]].active
    PROVE  DocsMove /\ RunsMove
<1>1. k[1] \in Docs
  BY KeyParts
<1>2. doc \in [Docs -> Document]
  BY DEF IInv, TypeOK
<1>3. /\ doc' \in [Docs -> Document] /\ doc'[k[1]] = r
      /\ \A d \in Docs \ {k[1]} : doc'[d] = doc[d]
  BY <1>1, <1>2
<1>4. r.state = "ready" => r.source
  BY <1>1 DEF IInv, DocOK
<1>5. DocsMove
  BY <1>1, <1>4, DocMoves DEF SetDoc
<1>6. RunsMove
  BY <1>3, RunMoves
<1> QED BY <1>5, <1>6

(* A worker at a step of the processing half. *)
LEMMA ProcessFacts ==
    ASSUME IInv, NEW w \in Workers, wk[w].pc \notin Phases, ~Archives(w)
    PROVE  /\ wk[w].key \in Runs /\ wk[w] \in Worker /\ Doc(w) \in Docs
           /\ Route(w) \in 1 .. Routes /\ wk[w].key = <<Doc(w), Route(w)>>
           /\ MyRun(w) \in Run /\ doc[Doc(w)] \in Document
           /\ wk[w].token \in Nat /\ wk[w].seen \in BOOLEAN
<1>1. /\ wk[w].key \in Runs /\ wk[w] \in Worker /\ Doc(w) \in Docs
      /\ Route(w) \in 0 .. Routes /\ Route(w) # 0
      /\ wk[w].key = <<Doc(w), Route(w)>>
  BY BusyFacts
<1>2. Route(w) \in 1 .. Routes
  BY <1>1, RoutesAssumption DEF RoutesAssumption
<1> QED BY <1>1, <1>2 DEF IInv, TypeOK, MyRun, Worker

LEMMA CommitOK ==
    ASSUME IInv, NEW w \in Workers, wk[w].pc \notin Phases, ~Archives(w),
           NEW n \in Run, NEW pc \in {"defer", "stage", "finish"},
           n.status = MyRun(w).status, Commit(w, n, pc)
    PROVE  IInv'
<1>1. UNCHANGED <<doc, job, file, intake, crashes>>
  BY DEF Commit
<1>2. /\ wk[w].key \in Runs /\ Doc(w) \in Docs /\ doc[Doc(w)] \in Document
      /\ wk[w].key[1] = Doc(w)
  BY ProcessFacts
<1>3. DocsMove /\ RunsMove
  <2>1. CASE UNCHANGED run
    BY <1>1, <2>1, TablesStay
  <2>2. CASE Fenced(MyRun(w), wk[w].token) /\ SetRun(wk[w].key, n)
    <3>1. /\ run[wk[w].key].status = "processing" /\ n.status = "processing"
          /\ "processing" \notin Finished
      BY <2>2 DEF Fenced, MyRun, Finished
    <3>2. doc' = [doc EXCEPT ![wk[w].key[1]] = doc[wk[w].key[1]]]
      BY <1>1, <1>2 DEF IInv, TypeOK
    <3> QED BY <1>1, <1>2, <2>2, <3>1, <3>2, RunAndDocMove
  <2> QED BY <2>1, <2>2 DEF Commit
<1>4. GotoSeen(w, pc, FALSE) \/ GotoSeen(w, "retry", FALSE)
  BY DEF Commit, Goto
<1>5. WorkersMove
  BY <1>3, <1>4, GotoMoves
     DEF ArchiveOnly, ProcessOnly, ArchiveSteps, ProcessSteps, Maintenance
<1> QED BY <1>1, <1>3, <1>5, JobsStay, IntakeStays, Assemble

(* finish_processing_run sets the run and what its document shows. *)
LEMMA FinishMoves ==
    ASSUME IInv, NEW w \in Workers, wk[w].pc \notin Phases, ~Archives(w),
           NEW status \in Finished \cup {"failed"},
           Fenced(MyRun(w), wk[w].token), UNCHANGED file,
           SetRun(wk[w].key, FinishedRun(MyRun(w), status)),
           SetDoc(Doc(w), Shown(doc[Doc(w)], Route(w), status))
    PROVE  DocsMove /\ RunsMove /\ run'[wk[w].key].status = status
<1> DEFINE k == wk[w].key
           n == FinishedRun(MyRun(w), status)
           r == Shown(doc[Doc(w)], Route(w), status)
<1>1. /\ k \in Runs /\ Doc(w) = k[1] /\ Route(w) = k[2] /\ Doc(w) \in Docs
      /\ Route(w) \in 1 .. Routes /\ MyRun(w) \in Run
      /\ doc[Doc(w)] \in Document
  BY ProcessFacts DEF Doc, Route
<1>2. n \in Run /\ n.status = status /\ n.status # "absent"
  BY <1>1 DEF FinishedRun, Run, RunStates, Finished
<1>3. /\ run[k].status = "processing" /\ "processing" \notin Finished
  BY DEF Fenced, MyRun, Finished
<1>4. /\ r.state = doc[Doc(w)].state /\ r.source = doc[Doc(w)].source
      /\ status = "complete" => r.processing = "complete" /\ r.active = Route(w)
      /\ status # "complete" => r.active = doc[Doc(w)].active
  BY <1>1 DEF Shown, Document
<1>5. r \in Document
  <2>1. Route(w) \in 0 .. Routes /\ status \in RunStates
    BY <1>1 DEF RunStates
  <2> QED BY <1>1, <2>1 DEF Shown, Document
<1>6. doc' = [doc EXCEPT ![Doc(w)] = r]
  BY DEF SetDoc
<1>7. run'[k].status = status
  BY <1>1, <1>2 DEF IInv, TypeOK, SetRun
<1> HIDE DEF n, r
<1>8. SetRun(k, n)
  BY DEF n
<1> QED BY <1>1, <1>2, <1>3, <1>4, <1>5, <1>6, <1>7, <1>8, RunAndDocMove

LEMMA FinishOK ==
    ASSUME IInv, NEW w \in Workers, wk[w].pc \notin Phases, ~Archives(w),
           NEW status \in Finished \cup {"failed"},
           NEW pc \in {"complete", "retry", "fallback"}, Finish(w, status, pc),
           pc = "fallback" => status = "needs_review" /\ Route(w) < Routes
    PROVE  IInv'
<1>1. UNCHANGED <<job, file, intake, crashes>>
  BY DEF Finish
<1>2. CASE Fenced(MyRun(w), wk[w].token)
  <2>1. DocsMove /\ RunsMove /\ run'[wk[w].key].status = status
    BY <1>1, <1>2, FinishMoves DEF Finish
  <2>2. GotoSeen(w, pc, FALSE)
    BY <1>2 DEF Finish, Goto
  <2>3. WorkersMove
    BY <2>1, <2>2, GotoMoves
       DEF ArchiveOnly, ProcessOnly, ArchiveSteps, ProcessSteps, Maintenance
  <2> QED BY <1>1, <2>1, <2>3, JobsStay, IntakeStays, Assemble
<1>3. CASE ~Fenced(MyRun(w), wk[w].token)
  <2>1. UNCHANGED <<doc, run>> /\ GotoSeen(w, "retry", FALSE)
    BY <1>3 DEF Finish, Goto
  <2>2. WorkersMove
    BY <1>1, <2>1, TablesStay, GotoMoves
       DEF ArchiveOnly, ProcessOnly, ArchiveSteps, ProcessSteps, Maintenance
  <2> QED BY <1>1, <2>1, <2>2, IntakeStays, WorkerOnly
<1> QED BY <1>2, <1>3

LEMMA ProcessRunOK ==
    ASSUME IInv, NEW w \in Workers,
           \/ SubmitParser(w) \/ ParserUnavailable(w) \/ ReplaceProjection(w)
           \/ CommitStage(w) \/ ParserFailed(w) \/ Protect(w)
           \/ FinishComplete(w) \/ FinishNeedsReview(w)
    PROVE  IInv'
<1>1. wk[w].pc \notin Phases /\ (wk[w].pc \in ProcessOnly \/ ~Archives(w))
  BY DEF SubmitParser, ParserUnavailable, ReplaceProjection, CommitStage,
         ParserFailed, Protect, FinishComplete, FinishNeedsReview, Phases,
         ProcessOnly, ProcessSteps, ArchiveSteps
<1>2. ~Archives(w)
  BY <1>1, BusyFacts
<1>3. MyRun(w) \in Run /\ wk[w].token \in Nat /\ Route(w) \in 1 .. Routes
  BY <1>1, <1>2, ProcessFacts
<1>4. CASE SubmitParser(w)
  <2> DEFINE n == [MyRun(w) EXCEPT !.op = TRUE]
  <2>1. n \in Run /\ n.status = MyRun(w).status
    BY <1>3 DEF Run
  <2> QED BY <1>1, <1>2, <1>4, <2>1, CommitOK DEF SubmitParser
<1>5. CASE ParserUnavailable(w)
  <2> DEFINE n == [MyRun(w) EXCEPT !.op = FALSE]
  <2>1. n \in Run /\ n.status = MyRun(w).status
    BY <1>3 DEF Run
  <2> QED BY <1>1, <1>2, <1>5, <2>1, CommitOK DEF ParserUnavailable
<1>6. CASE ReplaceProjection(w)
  BY <1>1, <1>2, <1>3, <1>6, CommitOK DEF ReplaceProjection
<1>7. CASE CommitStage(w)
  <2> DEFINE n == [MyRun(w) EXCEPT !.stage = wk[w].token]
  <2>1. n \in Run /\ n.status = MyRun(w).status
    BY <1>3 DEF Run
  <2>2. CASE CanCommitStage(MyRun(w), wk[w].token)
    <3>1. Commit(w, n, "finish")
      BY <1>7, <2>2 DEF CommitStage, Commit, CanCommitStage
    <3> QED BY <1>1, <1>2, <2>1, <3>1, CommitOK
  <2>3. CASE ~CanCommitStage(MyRun(w), wk[w].token)
    <3>1. UNCHANGED <<run, doc, job, file, intake, crashes>>
          /\ GotoSeen(w, "retry", FALSE)
      BY <1>7, <2>3 DEF CommitStage, Goto
    <3>2. WorkersMove
      BY <1>1, <3>1, TablesStay, GotoMoves
         DEF ArchiveOnly, ProcessOnly, ArchiveSteps, ProcessSteps, Maintenance
    <3> QED BY <3>1, <3>2, IntakeStays, WorkerOnly
  <2> QED BY <2>2, <2>3
<1>8. CASE ParserFailed(w) \/ Protect(w) \/ FinishComplete(w)
  BY <1>1, <1>2, <1>8, FinishOK DEF ParserFailed, Protect, FinishComplete, Finished
<1>9. CASE FinishNeedsReview(w)
  <2>1. CASE Route(w) < Routes
    BY <1>1, <1>2, <1>9, <2>1, FinishOK DEF FinishNeedsReview, Finished
  <2>2. CASE ~(Route(w) < Routes)
    BY <1>1, <1>2, <1>9, <2>2, FinishOK DEF FinishNeedsReview, Finished
  <2> QED BY <2>1, <2>2
<1> QED BY <1>4, <1>5, <1>6, <1>7, <1>8, <1>9

LEMMA EndsOK ==
    ASSUME IInv, NEW w \in Workers, FinishCancelled(w) \/ FailProcessingRun(w)
    PROVE  IInv'
<1>1. UNCHANGED <<job, file, intake, crashes>> /\ Rest(w, "poll")
      /\ wk[w].pc \notin Phases /\ (wk[w].pc \in ProcessOnly \/ ~Archives(w))
  BY DEF FinishCancelled, FailProcessingRun, Phases, ProcessOnly, ProcessSteps,
         ArchiveSteps
<1>2. ~Archives(w)
  BY <1>1, BusyFacts
<1>3. WorkersMove
  BY <1>1, RestMoves DEF Phases
<1>4. \/ UNCHANGED <<doc, run>>
      \/ \E status \in Finished \cup {"failed"} :
             /\ Fenced(MyRun(w), wk[w].token)
             /\ SetRun(wk[w].key, FinishedRun(MyRun(w), status))
             /\ SetDoc(Doc(w), Shown(doc[Doc(w)], Route(w), status))
  <2>1. CASE FinishCancelled(w)
    BY <2>1 DEF FinishCancelled, Finished
  <2>2. CASE FailProcessingRun(w)
    BY <2>2 DEF FailProcessingRun
  <2> QED BY <2>1, <2>2
<1>5. DocsMove /\ RunsMove
  BY <1>1, <1>2, <1>4, TablesStay, FinishMoves
<1> QED BY <1>1, <1>3, <1>5, JobsStay, IntakeStays, Assemble

LEMMA BeginOK ==
    ASSUME IInv, NEW w \in Workers, BeginProcessingRun(w)
    PROVE  IInv'
<1>1. UNCHANGED <<job, file, intake, crashes>> /\ wk[w].pc \notin Phases
      /\ wk[w].pc \in ProcessOnly
  BY DEF BeginProcessingRun, Phases, ProcessOnly, ProcessSteps, ArchiveSteps
<1>2. ~Archives(w)
  BY <1>1, BusyFacts
<1>3. /\ wk[w].key \in Runs /\ Doc(w) \in Docs /\ Doc(w) = wk[w].key[1]
      /\ MyRun(w) \in Run /\ doc[Doc(w)] \in Document /\ wk[w].token \in Nat
  BY <1>1, <1>2, ProcessFacts DEF Doc
<1>4. CASE CanBegin(MyRun(w), wk[w].token)
  <2> DEFINE n == BegunRun(MyRun(w), wk[w].token)
             r == [doc[Doc(w)] EXCEPT !.processing = "processing"]
  <2>1. n \in Run /\ n.status = "processing"
    BY <1>3 DEF BegunRun, Run, RunStates
  <2>2. /\ r \in Document /\ r.state = doc[Doc(w)].state
        /\ r.source = doc[Doc(w)].source /\ r.active = doc[Doc(w)].active
    BY <1>3 DEF Document, RunStates
  <2>3. run[wk[w].key].status \notin Finished
        /\ run[wk[w].key].status # "absent"
    BY <1>4 DEF CanBegin, MyRun, Finished
  <2>4. SetRun(wk[w].key, n) /\ doc' = [doc EXCEPT ![Doc(w)] = r]
    BY <1>4 DEF BeginProcessingRun, SetDoc
  <2> HIDE DEF n, r
  <2>5. DocsMove /\ RunsMove
    BY <1>1, <1>3, <2>1, <2>2, <2>3, <2>4, RunAndDocMove
  <2>6. PICK pc \in {"parse", "submit"} : GotoSeen(w, pc, FALSE)
    BY <1>4 DEF BeginProcessingRun, Goto
  <2>7. WorkersMove
    BY <1>1, <1>2, <2>5, <2>6, GotoMoves
       DEF ArchiveOnly, ArchiveSteps, ProcessSteps, Maintenance
  <2> QED BY <1>1, <2>5, <2>7, JobsStay, IntakeStays, Assemble
<1>5. CASE ~CanBegin(MyRun(w), wk[w].token)
  <2>1. UNCHANGED <<doc, run>> /\ GotoSeen(w, "retry", FALSE)
    BY <1>5 DEF BeginProcessingRun, Goto
  <2>2. WorkersMove
    BY <1>1, <2>1, TablesStay, GotoMoves
       DEF ArchiveOnly, ProcessOnly, ArchiveSteps, ProcessSteps, Maintenance
  <2> QED BY <1>1, <2>1, <2>2, IntakeStays, WorkerOnly
<1> QED BY <1>4, <1>5

(* A requested run is created unless it exists, and a complete document    *)
(* stays complete.                                                         *)
LEMMA RequestMoves ==
    ASSUME IInv, NEW k \in Runs,
           \A m \in 1 .. k[2] - 1 : run[<<k[1], m>>].status = "needs_review",
           SetRun(k, CreatedRun(run[k])), SetDoc(k[1], Requested(doc[k[1]])),
           UNCHANGED file
    PROVE  DocsMove /\ RunsMove
<1> DEFINE r == Requested(doc[k[1]])
<1>1. k[1] \in Docs /\ doc[k[1]] \in Document /\ run[k] \in Run
      /\ doc \in [Docs -> Document] /\ run \in [Runs -> Run]
  BY KeyParts DEF IInv, TypeOK
<1>2. /\ r \in Document /\ r.state = doc[k[1]].state
      /\ r.source = doc[k[1]].source /\ r.active = doc[k[1]].active
      /\ doc[k[1]].processing = "complete" => r.processing = "complete"
  BY <1>1 DEF Requested, Document, RunStates
<1>3. doc' = [doc EXCEPT ![k[1]] = r]
  BY DEF SetDoc
<1> HIDE DEF r
<1>4. CASE run[k].status = "absent"
  <2> DEFINE n == [run[k] EXCEPT !.status = "queued"]
  <2>1. n \in Run /\ n.status = "queued" /\ SetRun(k, n)
    BY <1>1, <1>4 DEF CreatedRun, Run, RunStates
  <2> HIDE DEF n
  <2> QED BY <1>2, <1>3, <1>4, <2>1, RunAndDocMove DEF Finished
<1>5. CASE run[k].status # "absent"
  <2>1. UNCHANGED run
    BY <1>1, <1>5 DEF CreatedRun, SetRun
  <2>2. DocsMove
    BY <1>1, <1>2, <1>3, DocMoves DEF SetDoc, IInv, DocOK
  <2>3. \A d \in Docs :
            /\ doc'[d].active = doc[d].active
            /\ doc[d].processing = "complete" => doc'[d].processing = "complete"
    BY <1>1, <1>2, <1>3
  <2> QED BY <2>1, <2>2, <2>3, RunsStay DEF DocsMove
<1> QED BY <1>4, <1>5

LEMMA EnsureRunOK ==
    ASSUME IInv, NEW w \in Workers, EnsureRun(w)
    PROVE  IInv'
<1>1. UNCHANGED <<job, file, intake, crashes>> /\ wk[w].pc \notin Phases
      /\ wk[w].pc \in ArchiveOnly
  BY DEF EnsureRun, Phases, ArchiveOnly, ProcessSteps, ArchiveSteps
<1>2. Archives(w) /\ Doc(w) \in Docs
  BY <1>1, BusyFacts
<1> DEFINE k == <<Doc(w), 1>>
<1>3. k \in Runs /\ k[1] = Doc(w) /\ 1 .. k[2] - 1 = {}
  BY <1>2, KeyParts
<1>4. DocsMove /\ RunsMove
  <2>1. CASE UNCHANGED <<doc, run>>
    BY <1>1, <2>1, TablesStay
  <2>2. CASE SetRun(k, CreatedRun(run[k])) /\ SetDoc(Doc(w), Requested(doc[Doc(w)]))
    <3> HIDE DEF k
    <3>1. SetDoc(k[1], Requested(doc[k[1]]))
      BY <1>3, <2>2
    <3> QED BY <1>1, <1>3, <2>2, <3>1, RequestMoves
  <2> QED BY <2>1, <2>2 DEF EnsureRun
<1>5. PICK pc \in {"enqueue", "complete"} : GotoSeen(w, pc, FALSE)
  BY DEF EnsureRun, Goto
<1>6. WorkersMove
  BY <1>1, <1>2, <1>4, <1>5, GotoMoves
     DEF ArchiveSteps, ProcessOnly, ProcessSteps
<1> QED BY <1>1, <1>4, <1>6, JobsStay, IntakeStays, Assemble

LEMMA CreateFallbackOK ==
    ASSUME IInv, NEW w \in Workers, CreateFallback(w)
    PROVE  IInv'
<1>1. UNCHANGED <<job, file, intake, crashes>> /\ wk[w].pc \notin Phases
      /\ wk[w].pc \in ProcessOnly /\ wk[w].pc = "fallback"
  BY DEF CreateFallback, Phases, ProcessOnly, ProcessSteps, ArchiveSteps
<1>2. ~Archives(w) /\ Fits(wk[w])
  BY <1>1, BusyFacts
<1>3. /\ Doc(w) \in Docs /\ Route(w) \in 1 .. Routes
      /\ wk[w].key = <<Doc(w), Route(w)>> /\ wk[w].key \in Runs
      /\ run[wk[w].key].status = "needs_review" /\ Route(w) < Routes
  BY <1>1, <1>2, ProcessFacts DEF Fits, Route
<1> DEFINE k == NextRun(w)
<1>4. k \in Runs /\ k[1] = Doc(w) /\ k[2] = Route(w) + 1
  BY <1>3, RoutesAssumption DEF NextRun, Runs, RoutesAssumption
<1>5. \A m \in 1 .. k[2] - 1 : run[<<k[1], m>>].status = "needs_review"
  <2>1. TAKE m \in 1 .. k[2] - 1
  <2>2. m = Route(w) \/ m \in 1 .. Route(w) - 1
    BY <1>3, <1>4, <2>1
  <2>3. run[<<Doc(w), Route(w)>>].status = "needs_review"
    BY <1>3
  <2>4. CASE m = Route(w)
    BY <1>4, <2>3, <2>4
  <2>5. CASE m \in 1 .. Route(w) - 1
    BY <1>3, <1>4, <2>3, <2>5 DEF IInv, Chain
  <2> QED BY <2>2, <2>4, <2>5
<1>6. DocsMove /\ RunsMove
  <2>1. CASE UNCHANGED <<doc, run>>
    BY <1>1, <2>1, TablesStay
  <2>2. CASE SetRun(k, CreatedRun(run[k])) /\ SetDoc(Doc(w), Requested(doc[Doc(w)]))
    <3> HIDE DEF k
    <3>1. SetDoc(k[1], Requested(doc[k[1]]))
      BY <1>4, <2>2
    <3> QED BY <1>1, <1>4, <1>5, <2>2, <3>1, RequestMoves
  <2> QED BY <2>1, <2>2 DEF CreateFallback
<1>7. PICK pc \in {"fallback_enqueue", "complete"} : GotoSeen(w, pc, FALSE)
  BY DEF CreateFallback, Goto
<1>8. WorkersMove
  BY <1>1, <1>2, <1>3, <1>6, <1>7, GotoMoves
     DEF ArchiveOnly, ArchiveSteps, ProcessSteps, Maintenance
<1> QED BY <1>1, <1>6, <1>8, JobsStay, IntakeStays, Assemble

----------------------------------------------------------------------------
LEMMA InitOK ==
    ASSUME Init
    PROVE  IInv
<1>1. NewDocument \in Document /\ NewRun \in Run
  BY RoutesAssumption DEF NewDocument, Document, NewRun, Run, RoutesAssumption
<1>2. AbsentRow \in Row
  BY DEF AbsentRow, Row, Statuses
<1>3. At("poll") \in Worker
  BY DEF At, Worker, Phases
<1>4. 0 \in 0 .. MaxCrashes
  BY BoundsAssumption DEF BoundsAssumption
<1>5. TypeOK
  BY <1>1, <1>2, <1>3, <1>4 DEF Init, TypeOK
<1>6. \A d \in Docs : DocOK(d) /\ IntakeOK(d)
  BY DEF Init, DocOK, IntakeOK, NewDocument
<1>7. \A k \in Keys : JobOK(k)
  BY <1>2 DEF Init, JobOK, Sound, AbsentRow
<1>8. \A w \in Workers : Fits(wk[w])
  BY <1>3 DEF Init, Fits, At, Phases, ArchiveOnly, ProcessOnly, ArchiveSteps,
              ProcessSteps, Maintenance
<1>9. Chain
  <2>1. SUFFICES ASSUME NEW d \in Docs, NEW n \in 1 .. Routes
                 PROVE  run[<<d, n>>].status = "absent"
    BY DEF Chain
  <2>2. <<d, n>> \in Runs
    BY DEF Runs
  <2> QED BY <2>2 DEF Init, NewRun
<1>10. CompleteIsShown
  <2>1. SUFFICES ASSUME NEW d \in Docs
                 PROVE  /\ doc[d].active = 0
                        /\ \A n \in 1 .. Routes : run[<<d, n>>].status # "complete"
    BY DEF CompleteIsShown
  <2>2. \A n \in 1 .. Routes : <<d, n>> \in Runs
    BY DEF Runs
  <2> QED BY <2>2 DEF Init, NewRun, NewDocument
<1> QED BY <1>5, <1>6, <1>7, <1>8, <1>9, <1>10 DEF IInv

LEMMA StepOK ==
    ASSUME IInv, [Next]_vars
    PROVE  IInv'
<1>1. CASE UNCHANGED vars
  BY <1>1, TablesStay, JobsStay, WorkersStay, IntakeStays, Assemble DEF vars
<1>2. ASSUME NEW w \in Workers, Archive(w)
      PROVE  IInv'
  BY <1>2, LooksOK, ReadsOK, ColumnsOK, DeleteSpoolOK, ClaimsOK, SettlesOK,
     EnqueuesOK, EnsureRunOK DEF Archive
<1>3. ASSUME NEW w \in Workers, Process(w)
      PROVE  IInv'
  BY <1>3, ReadsOK, ClaimsOK, SettlesOK, EnqueuesOK, BeginOK, ProcessRunOK,
     EndsOK, CreateFallbackOK DEF Process
<1>4. ASSUME NEW w \in Workers, Work(w) \/ Raise(w) \/ Crash(w)
      PROVE  IInv'
  BY <1>2, <1>3, <1>4, LooksOK, ReadsOK, SettlesOK DEF Work
<1> QED BY <1>1, <1>4, IntakesOK, OthersOK DEF Next

(* A run that exists is changed by the newest claim of its job only.       *)
ChangedByOwner(k) ==
    run[k].status # "absent" /\ run'[k] # run[k] =>
        /\ run[k].status \notin Finished
        /\ run'[k].fence >= run[k].fence
        /\ \E w \in Workers : /\ wk[w].key = k
                              /\ wk[w].token = run'[k].fence
                              /\ wk'[w] # wk[w]

LEMMA UnchangedRuns ==
    ASSUME UNCHANGED run
    PROVE  \A k \in Runs : ChangedByOwner(k)
BY DEF ChangedByOwner

(* What a claim does to its run under its fence. *)
LEMMA FencedChange ==
    ASSUME IInv, NEW w \in Workers, wk[w].key \in Runs, NEW n \in Run,
           SetRun(wk[w].key, n), run[wk[w].key].status \notin Finished,
           run[wk[w].key].fence <= wk[w].token, n.fence = wk[w].token,
           wk'[w] # wk[w]
    PROVE  \A k \in Runs : ChangedByOwner(k)
<1>1. /\ run'[wk[w].key] = n
      /\ \A k \in Runs \ {wk[w].key} : run'[k] = run[k]
  BY DEF IInv, TypeOK, SetRun
<1>2. n.fence >= run[wk[w].key].fence
  <2>1. run[wk[w].key].fence \in Nat /\ n.fence \in Nat
    BY DEF IInv, TypeOK, Run
  <2> QED BY <2>1
<1> QED BY <1>1, <1>2 DEF ChangedByOwner

(* A request creates a run, or leaves it as it is. *)
LEMMA CreatedChange ==
    ASSUME IInv, NEW q \in Runs, SetRun(q, CreatedRun(run[q]))
    PROVE  \A k \in Runs : ChangedByOwner(k)
<1>1. /\ run'[q] = CreatedRun(run[q])
      /\ \A k \in Runs \ {q} : run'[k] = run[k]
  BY DEF IInv, TypeOK, SetRun
<1> QED BY <1>1 DEF ChangedByOwner, CreatedRun

LEMMA WorkIsFenced ==
    ASSUME IInv, NEW w \in Workers, Process(w)
    PROVE  \A k \in Runs : ChangedByOwner(k)
<1>1. SUFFICES ASSUME run' # run
               PROVE  \A k \in Runs : ChangedByOwner(k)
  BY UnchangedRuns
<1>2. \/ SubmitParser(w) \/ ParserUnavailable(w) \/ ReplaceProjection(w)
      \/ CommitStage(w) \/ ParserFailed(w) \/ Protect(w)
      \/ FinishComplete(w) \/ FinishNeedsReview(w) \/ BeginProcessingRun(w)
      \/ CreateFallback(w) \/ FinishCancelled(w) \/ FailProcessingRun(w)
  BY <1>1 DEF Process, ClaimRun, Progress, ParserPending, EnqueueFallback,
              CompleteRun, DeferRun
<1>3. /\ wk[w].pc \notin Phases
      /\ wk[w].pc \in ProcessOnly \/ ~Archives(w)
  BY <1>2 DEF SubmitParser, ParserUnavailable, ReplaceProjection, CommitStage,
         ParserFailed, Protect, FinishComplete, FinishNeedsReview,
         BeginProcessingRun, CreateFallback, FinishCancelled, FailProcessingRun,
         Phases, ProcessOnly, ProcessSteps, ArchiveSteps
<1>4. ~Archives(w)
  BY <1>3, BusyFacts
<1>5. /\ wk[w].key \in Runs /\ wk[w] \in Worker /\ Doc(w) \in Docs
      /\ Route(w) \in 1 .. Routes
      /\ MyRun(w) \in Run /\ wk[w].token \in Nat /\ Fits(wk[w])
  BY <1>3, <1>4, ProcessFacts, BusyFacts
<1>6. ASSUME NEW pc, Goto(w, pc), pc # wk[w].pc
      PROVE  wk'[w] # wk[w]
  BY <1>5, <1>6 DEF IInv, TypeOK, Goto, GotoSeen, Worker
<1>7. ASSUME Rest(w, "poll")
      PROVE  wk'[w] # wk[w]
  BY <1>3, <1>5, <1>7 DEF IInv, TypeOK, Rest, At, Phases
<1>8. ASSUME Fenced(MyRun(w), wk[w].token)
      PROVE  /\ run[wk[w].key].status \notin Finished
             /\ run[wk[w].key].fence <= wk[w].token
             /\ MyRun(w).fence = wk[w].token
  BY <1>5, <1>8 DEF Fenced, MyRun, Finished
<1>9. ASSUME NEW n \in Run, n.fence = MyRun(w).fence, NEW pc, Commit(w, n, pc),
             pc # wk[w].pc
      PROVE  \A k \in Runs : ChangedByOwner(k)
  BY <1>1, <1>5, <1>6, <1>8, <1>9, FencedChange DEF Commit
<1>10. ASSUME NEW status \in RunStates
       PROVE  /\ FinishedRun(MyRun(w), status) \in Run
              /\ FinishedRun(MyRun(w), status).fence = MyRun(w).fence
  BY <1>5, <1>10 DEF FinishedRun, Run
<1>11. ASSUME NEW status \in RunStates, NEW pc, Finish(w, status, pc),
              pc # wk[w].pc
       PROVE  \A k \in Runs : ChangedByOwner(k)
  BY <1>1, <1>5, <1>6, <1>8, <1>10, <1>11, FencedChange DEF Finish
<1>12. CASE SubmitParser(w)
  <2>1. /\ [MyRun(w) EXCEPT !.op = TRUE] \in Run
        /\ [MyRun(w) EXCEPT !.op = TRUE].fence = MyRun(w).fence
    BY <1>5 DEF Run
  <2> QED BY <1>9, <1>12, <2>1 DEF SubmitParser
<1>13. CASE ParserUnavailable(w)
  <2>1. /\ [MyRun(w) EXCEPT !.op = FALSE] \in Run
        /\ [MyRun(w) EXCEPT !.op = FALSE].fence = MyRun(w).fence
    BY <1>5 DEF Run
  <2> QED BY <1>9, <1>13, <2>1 DEF ParserUnavailable
<1>14. CASE ReplaceProjection(w)
  BY <1>5, <1>9, <1>14 DEF ReplaceProjection
<1>15. CASE CommitStage(w)
  <2> DEFINE n == [MyRun(w) EXCEPT !.stage = wk[w].token]
  <2>1. n \in Run /\ n.fence = MyRun(w).fence
    BY <1>5 DEF Run
  <2>2. Commit(w, n, "finish")
    BY <1>1, <1>15 DEF CommitStage, CanCommitStage, Commit
  <2> QED BY <1>9, <1>15, <2>1, <2>2 DEF CommitStage
<1>16. CASE ParserFailed(w) \/ Protect(w)
  BY <1>11, <1>16 DEF ParserFailed, Protect, RunStates, Finished
<1>17. CASE FinishComplete(w)
  BY <1>11, <1>17 DEF FinishComplete, RunStates, Finished
<1>18. CASE FinishNeedsReview(w)
  <2>1. PICK pc \in {"fallback", "complete"} : Finish(w, "needs_review", pc)
    BY <1>18 DEF FinishNeedsReview
  <2> QED BY <1>11, <1>18, <2>1 DEF FinishNeedsReview, RunStates, Finished
<1>19. CASE BeginProcessingRun(w)
  <2> DEFINE n == BegunRun(MyRun(w), wk[w].token)
  <2>1. n \in Run /\ n.fence = wk[w].token
    BY <1>5 DEF BegunRun, Run, RunStates
  <2>2. /\ run[wk[w].key].status \notin Finished
        /\ run[wk[w].key].fence <= wk[w].token /\ SetRun(wk[w].key, n)
    BY <1>1, <1>19 DEF BeginProcessingRun, CanBegin, MyRun, Finished
  <2>3. wk'[w] # wk[w]
    <3>1. PICK pc \in {"parse", "submit", "retry"} : Goto(w, pc)
      BY <1>19 DEF BeginProcessingRun
    <3> QED BY <1>6, <1>19, <3>1 DEF BeginProcessingRun
  <2> HIDE DEF n
  <2> QED BY <1>5, <2>1, <2>2, <2>3, FencedChange
<1>20. CASE CreateFallback(w)
  <2>1. NextRun(w) \in Runs
    BY <1>5, <1>20, RoutesAssumption
       DEF CreateFallback, Fits, Route, NextRun, Runs, RoutesAssumption
  <2> QED BY <1>1, <1>20, <2>1, CreatedChange DEF CreateFallback
<1>21. CASE FinishCancelled(w)
  BY <1>1, <1>5, <1>7, <1>8, <1>10, <1>21, FencedChange
     DEF FinishCancelled, RunStates, Finished
<1>22. CASE FailProcessingRun(w)
  BY <1>1, <1>5, <1>7, <1>8, <1>10, <1>22, FencedChange
     DEF FailProcessingRun, RunStates
<1> QED BY <1>2, <1>12, <1>13, <1>14, <1>15, <1>16, <1>17, <1>18, <1>19,
           <1>20, <1>21, <1>22

LEMMA StepIsFenced ==
    ASSUME IInv, [Next]_vars
    PROVE  \A k \in Runs : ChangedByOwner(k)
<1>1. CASE UNCHANGED run
  BY <1>1, UnchangedRuns
<1>2. ASSUME NEW w \in Workers, EnsureRun(w), run' # run
      PROVE  \A k \in Runs : ChangedByOwner(k)
  <2>1. wk[w].pc \notin Phases
    BY <1>2 DEF EnsureRun, Phases
  <2>2. <<Doc(w), 1>> \in Runs
    BY <2>1, BusyFacts, KeyParts
  <2> QED BY <1>2, <2>2, CreatedChange DEF EnsureRun
<1>3. ASSUME NEW w \in Workers, Archive(w), ~EnsureRun(w)
      PROVE  UNCHANGED run
  BY <1>3 DEF Archive, RecoverAwaiting, ReEnqueue, ReMark, RecoverRun,
     QueueUnprocessed, EndMaintenance, ClaimArchive, ReadRecord, Submit,
     MarkArchiving, MarkReady, DeleteSpool, ClearSpool, EnsureEnqueued,
     CompleteArchive, MarkFailure, FindDeadLetter, MarkDeadLetter
<1>4. ASSUME NEW w \in Workers, RetryJob(w) \/ ReadBack(w) \/ Raise(w) \/ Crash(w)
      PROVE  UNCHANGED run
  BY <1>4 DEF RetryJob, ReadBack, Raise, Crash
<1>5. ASSUME NEW d \in Docs, Accept(d) \/ Intake(d) \/ IntakeFails(d)
      PROVE  UNCHANGED run
  BY <1>5 DEF Accept, Intake, EnqueueDocument, MarkEnqueued, IntakeFails
<1>6. ASSUME NEW k \in Keys, Expire(k) \/ OperatorCancel(k)
      PROVE  UNCHANGED run
  BY <1>6 DEF Expire, OperatorCancel
<1>7. CASE UNCHANGED vars
  BY <1>1, <1>7 DEF vars
<1> QED BY <1>1, <1>2, <1>3, <1>4, <1>5, <1>6, <1>7, WorkIsFenced DEF Next, Work

(* Documents, runs, jobs and workers fit together in every state.          *)
THEOREM Invariant == Spec => []IInv
<1>1. Init => IInv
  BY InitOK
<1>2. IInv /\ [Next]_vars => IInv'
  BY StepOK
<1> QED BY <1>1, <1>2, PTL DEF Spec

(* The tables and the memory of the workers keep their types.              *)
THEOREM TypeCorrect == Spec => []TypeOK
<1>1. IInv => TypeOK
  BY DEF IInv
<1> QED BY <1>1, Invariant, PTL

(* Accepted bytes stay in the spool until the archived copy is verified.   *)
THEOREM SpoolIsKept == Spec => []SpoolUntilVerified
<1>1. IInv => SpoolUntilVerified
  BY DEF IInv, DocOK, SpoolUntilVerified
<1> QED BY <1>1, Invariant, PTL

(* A document shows as complete the one run that completed it, however     *)
(* many routes it has been through.                                        *)
THEOREM OneRunCompletes == Spec => []CompleteIsShown
<1>1. IInv => CompleteIsShown
  BY DEF IInv
<1> QED BY <1>1, Invariant, PTL

(* No stale worker changes a run: its owner is always the newest claim.    *)
THEOREM RunsAreFenced == Spec => ResultsAreFenced
<1>1. IInv /\ [Next]_vars => \A k \in Runs : ChangedByOwner(k)
  BY StepIsFenced
<1>2. IInv /\ [Next]_vars =>
        [\A k \in Runs :
            run[k].status # "absent" /\ run'[k] # run[k] =>
                /\ run[k].status \notin Finished
                /\ run'[k].fence >= run[k].fence
                /\ \E w \in Workers : /\ wk[w].key = k
                                      /\ wk[w].token = run'[k].fence
                                      /\ wk'[w] # wk[w]]_vars
  BY <1>1 DEF ChangedByOwner
<1> QED BY <1>2, Invariant, PTL DEF Spec, ResultsAreFenced

----------------------------------------------------------------------------
(* The jobs of the documents implement the abstract ledger.                *)
JobsBooked == \A k \in Keys : Booked(job[k])
JobsAbide == \A k \in Keys : Abides(job[k], job'[k])

LEMMA SameJobsAbide ==
    ASSUME JobsBooked, UNCHANGED job
    PROVE  JobsAbide
BY CallersAbide DEF JobsBooked, JobsAbide

LEMMA RowAbides ==
    ASSUME IInv, JobsBooked, NEW k \in Keys, NEW r, SetRow(k, r),
           Abides(job[k], r)
    PROVE  JobsAbide
BY CallersAbide DEF SetRow, JobsBooked, JobsAbide, IInv, TypeOK

LEMMA RequestAbides ==
    ASSUME IInv, JobsBooked, NEW k \in Keys,
           \/ SetRow(k, Enqueued(job[k], TRUE))
           \/ SetRow(k, CancelRequested(job[k]))
           \/ Expire(k)
    PROVE  JobsAbide
<1>1. Booked(job[k])
  BY DEF JobsBooked
<1>2. CASE Expire(k)
  BY <1>1, <1>2, ColumnsAbide, RowAbides DEF Expire
<1> QED BY <1>1, <1>2, CallersAbide, RowAbides

LEMMA SettlementAbides ==
    ASSUME IInv, JobsBooked, NEW w \in Workers,
           CompleteArchive(w) \/ CompleteRun(w) \/ DeferRun(w) \/ RetryJob(w)
    PROVE  JobsAbide
<1>1. wk[w].pc \notin Phases
  BY DEF CompleteArchive, CompleteRun, DeferRun, RetryJob, Phases
<1>2. wk[w].key \in Keys /\ wk[w].token \in Nat
  BY <1>1, BusyFacts DEF Worker
<1> DEFINE k == wk[w].key
           t == wk[w].token
<1>3. /\ Booked(job[k])
      /\ CanComplete(job[k], w, t) => Abides(job[k], Completed(job[k]))
      /\ CanAcknowledgeCancel(job[k], w, t)
             => Abides(job[k], CancelAcknowledged(job[k]))
      /\ CanDefer(job[k], w, t) => Abides(job[k], Deferred(job[k], TRUE))
      /\ CanRetry(job[k], w, t)
             => Abides(job[k], Retried(job[k], MaxAttempts, TRUE))
  <2>1. Booked(job[k]) /\ MaxAttempts \in Nat
    BY <1>2, AttemptsAssumption DEF JobsBooked, AttemptsAssumption
  <2> QED BY <1>2, <2>1, HoldersAbide
<1>4. \/ UNCHANGED job
      \/ CanComplete(job[k], w, t) /\ SetRow(k, Completed(job[k]))
      \/ /\ CanAcknowledgeCancel(job[k], w, t)
         /\ SetRow(k, CancelAcknowledged(job[k]))
      \/ CanDefer(job[k], w, t) /\ SetRow(k, Deferred(job[k], TRUE))
      \/ /\ CanRetry(job[k], w, t)
         /\ SetRow(k, Retried(job[k], MaxAttempts, TRUE))
  <2>1. CASE CompleteArchive(w)
    BY <2>1 DEF CompleteArchive, MyRow
  <2>2. CASE CompleteRun(w)
    BY <2>2 DEF CompleteRun, MyRow
  <2>3. CASE DeferRun(w)
    BY <2>3 DEF DeferRun, MyRow
  <2>4. CASE RetryJob(w)
    BY <2>4 DEF RetryJob, MyRow
  <2> QED BY <2>1, <2>2, <2>3, <2>4
<1> QED BY <1>2, <1>3, <1>4, RowAbides, SameJobsAbide

LEMMA ClaimAbides ==
    ASSUME IInv, JobsBooked, NEW w \in Workers, ClaimArchive(w) \/ ClaimRun(w)
    PROVE  JobsAbide
<1>1. PICK S \in SUBSET Keys : \E pc, otherwise : ClaimOf(w, S, pc, otherwise)
  <2>1. {ArchiveKey(d) : d \in Docs} \in SUBSET Keys /\ Runs \in SUBSET Keys
    BY KeyParts
  <2> QED BY <2>1 DEF ClaimArchive, ClaimRun
<1>2. /\ MaxAttempts \in Nat
      /\ \A k \in Keys : SweptJobs[k] = Swept(job[k], MaxAttempts)
  BY AttemptsAssumption DEF SweptJobs, AttemptsAssumption
<1>3. \A k \in Keys : Abides(job[k], SweptJobs[k])
  BY <1>2, SweptAbides DEF JobsBooked
<1>4. CASE job' = SweptJobs
  BY <1>3, <1>4 DEF JobsAbide
<1>5. ASSUME NEW k \in S, Claimable(SweptJobs[k], MaxAttempts),
             job' = [SweptJobs EXCEPT ![k] = Claimed(SweptJobs[k], w)]
      PROVE  JobsAbide
  <2>1. Abides(job[k], Claimed(SweptJobs[k], w))
    BY <1>1, <1>2, <1>5, ClaimedAbides DEF JobsBooked
  <2>2. DOMAIN SweptJobs = Keys
    BY DEF SweptJobs
  <2> QED BY <1>3, <1>5, <2>1, <2>2 DEF JobsAbide
<1> QED BY <1>1, <1>4, <1>5 DEF ClaimOf

LEMMA EnqueueAbides ==
    ASSUME IInv, JobsBooked, NEW w \in Workers,
           ReEnqueue(w) \/ RecoverRun(w) \/ EnsureEnqueued(w) \/ EnqueueFallback(w)
    PROVE  JobsAbide
<1>1. CASE RecoverRun(w)
  BY <1>1, KeyParts, RequestAbides DEF RecoverRun
<1>2. CASE ReEnqueue(w)
  <2>1. wk[w].key \in Keys
    BY <1>2, BusyFacts DEF ReEnqueue, Phases
  <2> QED BY <1>2, <2>1, RequestAbides DEF ReEnqueue, MyRow
<1>3. CASE EnsureEnqueued(w)
  <2>1. <<Doc(w), 1>> \in Keys
    BY <1>3, BusyFacts, KeyParts DEF EnsureEnqueued, Phases
  <2> QED BY <1>3, <2>1, RequestAbides DEF EnsureEnqueued
<1>4. CASE EnqueueFallback(w)
  <2>1. wk[w].pc = "fallback_enqueue"
        /\ (UNCHANGED job \/ SetRow(NextRun(w), Enqueued(job[NextRun(w)], TRUE)))
    BY <1>4 DEF EnqueueFallback
  <2>2. Route(w) < Routes /\ Route(w) \in 0 .. Routes /\ Doc(w) \in Docs
    BY <2>1, BusyFacts DEF Fits, Route, Phases
  <2>3. NextRun(w) \in Keys
    BY <2>2, RoutesAssumption DEF NextRun, Keys, RoutesAssumption
  <2> QED BY <2>1, <2>3, RequestAbides, SameJobsAbide
<1> QED BY <1>1, <1>2, <1>3, <1>4

LEMMA StepAbides ==
    ASSUME IInv, JobsBooked, [Next]_vars
    PROVE  JobsAbide
<1>1. ASSUME NEW w \in Workers, Archive(w)
      PROVE  JobsAbide
  BY <1>1, SameJobsAbide, ClaimAbides, SettlementAbides, EnqueueAbides
  DEF Archive, RecoverAwaiting, ReMark, QueueUnprocessed, EndMaintenance,
      ReadRecord, Submit, MarkArchiving, MarkReady, DeleteSpool, ClearSpool,
      EnsureRun, MarkFailure, FindDeadLetter, MarkDeadLetter
<1>2. ASSUME NEW w \in Workers, Process(w)
      PROVE  JobsAbide
  BY <1>2, SameJobsAbide, ClaimAbides, SettlementAbides, EnqueueAbides
  DEF Process, Progress, BeginProcessingRun, SubmitParser, ParserPending,
      ParserUnavailable, ParserFailed, Protect, ReplaceProjection, CommitStage,
      FinishComplete, FinishNeedsReview, CreateFallback, FinishCancelled,
      FailProcessingRun, Commit, Finish
<1>3. ASSUME NEW w \in Workers, RetryJob(w) \/ ReadBack(w) \/ Raise(w) \/ Crash(w)
      PROVE  JobsAbide
  BY <1>3, SameJobsAbide, SettlementAbides DEF ReadBack, Raise, Crash
<1>4. ASSUME NEW d \in Docs, Accept(d) \/ Intake(d) \/ IntakeFails(d)
      PROVE  JobsAbide
  <2>1. ArchiveKey(d) \in Keys
    BY KeyParts
  <2> QED BY <1>4, <2>1, SameJobsAbide, RequestAbides
          DEF Accept, Intake, EnqueueDocument, MarkEnqueued, IntakeFails
<1>5. ASSUME NEW k \in Keys, Expire(k) \/ OperatorCancel(k)
      PROVE  JobsAbide
  BY <1>5, RequestAbides DEF OperatorCancel
<1>6. CASE UNCHANGED vars
  BY <1>6, SameJobsAbide DEF vars
<1> QED BY <1>1, <1>2, <1>3, <1>4, <1>5, <1>6 DEF Next, Work

(* The rows of the document jobs are leased to one worker at a time, under *)
(* epochs without gaps, and a completed job stays completed.               *)
THEOREM DocumentJobsKeepTheLedger == Spec => LedgerSpec
<1>1. Init => JobsBooked /\ Ledger!Init
  <2> SUFFICES ASSUME Init PROVE JobsBooked /\ Ledger!Init
    OBVIOUS
  <2>1. AbsentRow \in Row
    BY DEF AbsentRow, Row, Statuses
  <2>2. Booked(AbsentRow)
    BY <2>1 DEF Booked, Sound, AbsentRow
  <2>3. LedgerEntry(AbsentRow) = Ledger!NewEntry
    BY PhaseOf DEF AbsentRow, LedgerEntry, Ledger!NewEntry
  <2> QED BY <2>2, <2>3 DEF Init, JobsBooked, Ledger!Init, JobsView
<1>2. IInv /\ JobsBooked /\ [Next]_vars => JobsBooked' /\ [Ledger!Next]_JobsView
  <2> SUFFICES ASSUME IInv, JobsBooked, [Next]_vars
               PROVE  JobsBooked' /\ Ledger!Next
    OBVIOUS
  <2>1. JobsAbide
    BY StepAbides
  <2>2. \A k \in Keys : Booked(job'[k]) /\ job'[k] \in Row
    BY <2>1 DEF JobsAbide, Abides, Booked, Sound
  <2>3. \A k \in Keys : Ledger!Lawful(LedgerEntry(job[k]), LedgerEntry(job'[k]))
    BY <2>1
    DEF JobsAbide, Abides, Law!Lawful, Law!Submit, Law!Grant, Law!Finish,
        Law!GiveBack, Law!Abort, Law!Reopen, Law!Unheld,
        Ledger!Lawful, Ledger!Submit, Ledger!Grant, Ledger!Finish,
        Ledger!GiveBack, Ledger!Abort, Ledger!Reopen, Ledger!Unheld
  <2>4. \A k \in Keys : LedgerEntry(job'[k]) \in Ledger!Entry
    BY <2>2, EntriesHaveType DEF Law!Entry, Ledger!Entry
  <2> QED BY <2>2, <2>3, <2>4 DEF JobsBooked, Ledger!Next, JobsView
<1> QED BY <1>1, <1>2, Invariant, PTL DEF Spec, LedgerSpec, Ledger!Spec
=============================================================================
