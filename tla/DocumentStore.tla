--------------------------- MODULE DocumentStore ---------------------------
(***************************************************************************)
(* The rows of documents.db (app/skills/domains/documents/storage.py), the *)
(* ingress spool, the document jobs of durable_jobs and the memory of the  *)
(* processes that work on them.  Every repository method is a transaction  *)
(* of its own; DocumentArchive and DocumentProcessing are the two halves   *)
(* of the worker that calls them, DocumentPipeline composes them.          *)
(***************************************************************************)
EXTENDS JobRows

CONSTANTS Docs,         \* accepted uploads
          Routes,       \* routes enabled: 1 native, 2 OCR, 3 VLM
          MaxAttempts,  \* max_attempts of both enqueue methods
          MaxPolls,     \* bound: the parser is not ready up to this claim
          MaxCrashes,   \* bound: deaths of worker processes
          Cancelled     \* jobs of a document that an operator cancels

ASSUME RoutesAssumption == Routes \in Nat \ {0}
ASSUME AttemptsAssumption == MaxAttempts \in Nat \ {0}
ASSUME BoundsAssumption == MaxPolls \in Nat /\ MaxCrashes \in Nat
ASSUME CancelledAssumption == Cancelled \subseteq 0 .. Routes

VARIABLES doc,      \* documents and document_intakes
          run,      \* document_processing_runs
          job,      \* durable_jobs
          file,     \* whether the spool still holds the upload
          intake,   \* where accept() of each upload stands
          wk,       \* the worker processes
          crashes   \* how many of them have died

vars == <<doc, run, job, file, intake, wk, crashes>>

(* The archive job of a document is its job 0, that of run k its job k.    *)
Keys == Docs \X (0 .. Routes)
Runs == Docs \X (1 .. Routes)

ASSUME KeysAssumption == \A k \in Keys : k # None

Finished == {"complete", "needs_review", "protected", "cancelled"}
RunStates == {"queued", "processing", "failed"} \cup Finished
DocStates == {"awaiting", "queued", "archiving", "ready", "failed"}

(* spool, task and source say that spool_key, archive_task_ref and         *)
(* source_ref are set; processing is processing_state, active the run of   *)
(* active_run_id.                                                          *)
Document == [state: DocStates \cup {"absent"}, spool: BOOLEAN, task: BOOLEAN,
             source: BOOLEAN, active: 0 .. Routes,
             processing: RunStates \cup {"not_requested"}]

NewDocument == [state |-> "absent", spool |-> FALSE, task |-> FALSE,
                source |-> FALSE, active |-> 0,
                processing |-> "not_requested"]

(* op says that provider_operation_ref is set, stage is the fencing token  *)
(* of the committed normalize stage (0: none).                             *)
Run == [status: RunStates \cup {"absent"}, fence: Nat, op: BOOLEAN,
        stage: Nat]

NewRun == [status |-> "absent", fence |-> 0, op |-> FALSE, stage |-> 0]

----------------------------------------------------------------------------
(* Documents *)

Created(r) == [r EXCEPT !.state = "awaiting", !.spool = TRUE]

(* These three set the state whatever it was.                              *)
Enqueuing(r) == [r EXCEPT !.state = "queued"]
Archiving(r) == [r EXCEPT !.state = "archiving", !.task = TRUE]
Failure(r, terminal) ==
    [r EXCEPT !.state = IF terminal THEN "failed"
                        ELSE IF r.task THEN "archiving" ELSE "queued"]

Ready(r) == [r EXCEPT !.state = "ready", !.source = TRUE]
Despooled(r) == [r EXCEPT !.spool = FALSE]

----------------------------------------------------------------------------
(* Processing runs *)

(* create_processing_run: one run per source version, route and            *)
(* configuration; a repeated request finds it, but marks the document      *)
(* queued again unless it is complete.                                     *)
CreatedRun(n) == IF n.status = "absent" THEN [n EXCEPT !.status = "queued"]
                 ELSE n
(* Variant: processing_state != complete is missing. *)
RequestedAgain(r) == [r EXCEPT !.processing = "queued"]

Requested(r) == IF r.processing = "complete" THEN r
                ELSE [r EXCEPT !.processing = "queued"]

CanBegin(n, token) ==
    n.status \in {"queued", "processing", "failed"} /\ n.fence <= token
BegunRun(n, token) == [n EXCEPT !.status = "processing", !.fence = token]

(* Variant: asks for the status alone. *)
FencedByStatus(n, token) == n.status = "processing"

(* The WHERE clause of every statement of a begun run.                     *)
Fenced(n, token) == n.status = "processing" /\ n.fence = token

(* commit_stage: INSERT ... DO NOTHING, then the stored row must be this   *)
(* claim's own.                                                            *)
CanCommitStage(n, token) == Fenced(n, token) /\ n.stage \in {0, token}

(* finish_processing_run *)
FinishedRun(n, status) == [n EXCEPT !.status = status]
Shown(r, k, status) ==
    [r EXCEPT !.processing = status,
              !.active = IF status = "complete" THEN k ELSE @]

----------------------------------------------------------------------------
(* The worker processes.  run_once goes through three phases: maintenance  *)
(* ("poll"), the archive jobs ("archive"), and the dead letters with the   *)
(* processing jobs ("reconcile"); the other values of pc are statements    *)
(* within a phase.  seen is what the worker keeps of what it read last;    *)
(* token is 0 outside of a claimed job.                                    *)
(***************************************************************************)
Phases == {"poll", "archive", "reconcile"}
ArchiveSteps == {"read", "submit", "marking", "ready", "delete",
                 "clear", "create", "enqueue", "complete", "retry",
                 "readback", "failure"}
Maintenance == {"reenqueue", "remark", "deadletter"}
ProcessSteps == {"progress", "begin", "submit", "stage", "finish",
                 "parse", "fallback", "fallback_enqueue", "defer", "cancelled",
                 "complete", "retry", "readback", "failure"}

Worker == [pc: Phases \cup ArchiveSteps \cup Maintenance \cup ProcessSteps,
           key: Keys \cup {None}, token: Nat, seen: BOOLEAN]

At(phase) == [pc |-> phase, key |-> None, token |-> 0, seen |-> FALSE]

Doc(w) == wk[w].key[1]
Route(w) == wk[w].key[2]
Archives(w) == wk[w].key # None /\ Route(w) = 0

GotoSeen(w, pc, seen) == wk' = [wk EXCEPT ![w].pc = pc, ![w].seen = seen]
Goto(w, pc) == GotoSeen(w, pc, FALSE)
Rest(w, phase) == wk' = [wk EXCEPT ![w] = At(phase)]

SetDoc(d, r) == doc' = [doc EXCEPT ![d] = r]
SetRun(k, n) == run' = [run EXCEPT ![k] = n]
SetRow(k, r) == job' = [job EXCEPT ![k] = r]

MyRun(w) == run[wk[w].key]
MyRow(w) == job[wk[w].key]

(* claim_jobs for one job type: the sweeps pass over the whole table.      *)
SweptJobs == [k \in Keys |-> Swept(job[k], MaxAttempts)]

ClaimOf(w, S, pc, otherwise) ==
    LET ready == {k \in S : Claimable(SweptJobs[k], MaxAttempts)} IN
    \/ \E k \in ready :
           /\ job' = [SweptJobs EXCEPT ![k] = Claimed(SweptJobs[k], w)]
           /\ wk' = [wk EXCEPT ![w] = [pc |-> pc, key |-> k,
                        token |-> SweptJobs[k].token + 1, seen |-> FALSE]]
    \/ ready = {} /\ job' = SweptJobs /\ Rest(w, otherwise)

(* Variant: looks at documents that are being archived only. *)
UnshownArchiving(d) == /\ job[<<d, 0>>].status = "dead_letter"
                       /\ doc[d].state = "archiving"

(* The archive dead letters that a document does not show yet; all are     *)
(* shown before processing jobs are claimed.                               *)
Unshown(d) == /\ job[<<d, 0>>].status = "dead_letter"
              /\ doc[d].state \notin {"ready", "failed"}

(* retry_job; the worker ignores whether it changed the row, and reads the *)
(* status of the job afterwards.                                           *)
RetryJob(w) ==
    /\ wk[w].pc = "retry"
    /\ IF CanRetry(MyRow(w), w, wk[w].token)
       THEN SetRow(wk[w].key, Retried(MyRow(w), MaxAttempts, TRUE))
       ELSE UNCHANGED job
    /\ Goto(w, "readback")
    /\ UNCHANGED <<doc, run, file, intake, crashes>>

ReadBack(w) ==
    /\ wk[w].pc = "readback"
    /\ GotoSeen(w, "failure", MyRow(w).status = "dead_letter")
    /\ UNCHANGED <<doc, run, job, file, intake, crashes>>

(* An exception in a statement of a claimed job leads to retry_job; one in *)
(* the handlers themselves ends the process (Crash).                       *)
Raise(w) ==
    /\ wk[w].token # 0
    /\ wk[w].pc \notin {"retry", "readback", "failure", "defer", "cancelled"}
    /\ Goto(w, "retry")
    /\ UNCHANGED <<doc, run, job, file, intake, crashes>>
=============================================================================
