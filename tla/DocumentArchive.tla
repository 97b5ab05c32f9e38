-------------------------- MODULE DocumentArchive --------------------------
(***************************************************************************)
(* Intake of an upload (documents/service.py) and the archive half of      *)
(* document_processing_worker.py: a staged file is handed to the archive,  *)
(* downloaded again and compared, and only then removed from the spool.    *)
(***************************************************************************)
EXTENDS DocumentStore

ArchiveKey(d) == <<d, 0>>

----------------------------------------------------------------------------
(* The request thread: accept() creates the row for the staged file,       *)
(* enqueues the job and marks the document; an enqueue that fails leaves   *)
(* the document to recover_awaiting_enqueue.                               *)

Accept(d) ==
    /\ doc[d].state = "absent"
    /\ SetDoc(d, Created(doc[d]))
    /\ file' = [file EXCEPT ![d] = TRUE]
    /\ intake' = [intake EXCEPT ![d] = "enqueue"]
    /\ UNCHANGED <<run, job, wk, crashes>>

EnqueueDocument(d) ==
    /\ intake[d] = "enqueue"
    /\ SetRow(ArchiveKey(d), Enqueued(job[ArchiveKey(d)], TRUE))
    /\ intake' = [intake EXCEPT ![d] = "mark"]
    /\ UNCHANGED <<doc, run, file, wk, crashes>>

MarkEnqueued(d) ==
    /\ intake[d] = "mark"
    /\ SetDoc(d, Enqueuing(doc[d]))
    /\ intake' = [intake EXCEPT ![d] = "done"]
    /\ UNCHANGED <<run, job, file, wk, crashes>>

(* The enqueue raises, or the process of the request dies.                 *)
IntakeFails(d) ==
    /\ intake[d] \in {"enqueue", "mark"}
    /\ intake' = [intake EXCEPT ![d] = "done"]
    /\ UNCHANGED <<doc, run, job, file, wk, crashes>>

----------------------------------------------------------------------------
(* Maintenance: accepted documents without a job, runs without a job, and  *)
(* archived documents without a run.                                       *)

(* Variant: looks at begun runs. *)
LostBegun(k) == run[k].status = "processing" /\ job[k].status = "absent"

Lost(k) == run[k].status = "queued" /\ job[k].status = "absent"

Unprocessed(d) ==
    doc[d].state = "ready" /\ doc[d].processing = "not_requested"

Start(w, pc, d) ==
    wk' = [wk EXCEPT ![w] = [pc |-> pc, key |-> ArchiveKey(d), token |-> 0,
                             seen |-> TRUE]]

RecoverAwaiting(w) ==
    /\ wk[w].pc = "poll"
    /\ \E d \in Docs : doc[d].state = "awaiting" /\ Start(w, "reenqueue", d)
    /\ UNCHANGED <<doc, run, job, file, intake, crashes>>

ReEnqueue(w) ==
    /\ wk[w].pc = "reenqueue"
    /\ SetRow(wk[w].key, Enqueued(MyRow(w), TRUE))
    /\ Goto(w, "remark")
    /\ UNCHANGED <<doc, run, file, intake, crashes>>

ReMark(w) ==
    /\ wk[w].pc = "remark"
    /\ SetDoc(Doc(w), Enqueuing(doc[Doc(w)]))
    /\ Rest(w, "poll")
    /\ UNCHANGED <<run, job, file, intake, crashes>>

RecoverRun(w) ==
    /\ wk[w].pc = "poll"
    /\ \E k \in Runs : Lost(k) /\ SetRow(k, Enqueued(job[k], TRUE))
    /\ UNCHANGED <<doc, run, file, intake, wk, crashes>>

QueueUnprocessed(w) ==
    /\ wk[w].pc = "poll"
    /\ \E d \in Docs : Unprocessed(d) /\ Start(w, "create", d)
    /\ UNCHANGED <<doc, run, job, file, intake, crashes>>

EndMaintenance(w) ==
    /\ wk[w].pc = "poll"
    /\ \A d \in Docs : doc[d].state # "awaiting" /\ ~Unprocessed(d)
    /\ \A k \in Runs : ~Lost(k)
    /\ Rest(w, "archive")
    /\ UNCHANGED <<doc, run, job, file, intake, crashes>>

----------------------------------------------------------------------------
(* _process_archive *)

ClaimArchive(w) ==
    /\ wk[w].pc = "archive"
    /\ ClaimOf(w, {ArchiveKey(d) : d \in Docs}, "read", "reconcile")
    /\ UNCHANGED <<doc, run, file, intake, crashes>>

(* The record read at the start decides: a document that is ready already  *)
(* is tidied up, one without a spool file cannot be archived.              *)
ReadRecord(w) ==
    /\ wk[w].pc = "read"
    /\ LET r == doc[Doc(w)] IN
       GotoSeen(w, CASE r.state = "ready" /\ r.spool -> "delete"
                     [] r.state = "ready" /\ ~r.spool -> "create"
                     [] r.state # "ready" /\ ~r.spool -> "retry"
                     [] r.state # "ready" /\ r.spool /\ r.task -> "ready"
                     [] r.state # "ready" /\ r.spool /\ ~r.task -> "submit",
                r.processing = "not_requested")
    /\ UNCHANGED <<doc, run, job, file, intake, crashes>>

Submit(w) ==
    /\ Archives(w) /\ wk[w].pc = "submit"
    /\ Goto(w, IF file[Doc(w)] THEN "marking" ELSE "retry")
    /\ UNCHANGED <<doc, run, job, file, intake, crashes>>

(* Variant: releases the spool once the archive has accepted the file. *)
MarkArchivingReleases(w) ==
    /\ wk[w].pc = "marking"
    /\ SetDoc(Doc(w), Archiving(doc[Doc(w)]))
    /\ file' = [file EXCEPT ![Doc(w)] = FALSE]
    /\ Goto(w, "ready")
    /\ UNCHANGED <<run, job, intake, crashes>>

MarkArchiving(w) ==
    /\ wk[w].pc = "marking"
    /\ SetDoc(Doc(w), Archiving(doc[Doc(w)]))
    /\ Goto(w, "ready")
    /\ UNCHANGED <<run, job, file, intake, crashes>>

(* The archive has the document and the bytes downloaded from it are the   *)
(* accepted ones; any other answer raises.                                 *)
MarkReady(w) ==
    /\ wk[w].pc = "ready"
    /\ SetDoc(Doc(w), Ready(doc[Doc(w)]))
    /\ Goto(w, "delete")
    /\ UNCHANGED <<run, job, file, intake, crashes>>

DeleteSpool(w) ==
    /\ wk[w].pc = "delete"
    /\ file' = [file EXCEPT ![Doc(w)] = FALSE]
    /\ Goto(w, "clear")
    /\ UNCHANGED <<doc, run, job, intake, crashes>>

ClearSpool(w) ==
    /\ wk[w].pc = "clear"
    /\ SetDoc(Doc(w), Despooled(doc[Doc(w)]))
    /\ GotoSeen(w, "create", doc[Doc(w)].processing = "not_requested")
    /\ UNCHANGED <<run, job, file, intake, crashes>>

(* _ensure_processing_queued, with the record read before.                 *)
EnsureRun(w) ==
    /\ wk[w].pc = "create"
    /\ IF wk[w].seen
       THEN /\ SetRun(<<Doc(w), 1>>, CreatedRun(run[<<Doc(w), 1>>]))
            /\ SetDoc(Doc(w), Requested(doc[Doc(w)]))
            /\ Goto(w, "enqueue")
       ELSE Goto(w, "complete") /\ UNCHANGED <<doc, run>>
    /\ UNCHANGED <<job, file, intake, crashes>>

EnsureEnqueued(w) ==
    /\ wk[w].pc = "enqueue"
    /\ SetRow(<<Doc(w), 1>>, Enqueued(job[<<Doc(w), 1>>], TRUE))
    /\ IF wk[w].token = 0 THEN Rest(w, "poll") ELSE Goto(w, "complete")
    /\ UNCHANGED <<doc, run, file, intake, crashes>>

(* complete_job, else acknowledge_cancel, else the fence is stale.         *)
CompleteArchive(w) ==
    /\ Archives(w) /\ wk[w].pc = "complete"
    /\ LET r == MyRow(w) IN
       CASE CanComplete(r, w, wk[w].token) ->
                SetRow(wk[w].key, Completed(r)) /\ Rest(w, "reconcile")
         [] CanAcknowledgeCancel(r, w, wk[w].token) ->
                SetRow(wk[w].key, CancelAcknowledged(r))
                /\ Rest(w, "reconcile")
         [] OTHER -> UNCHANGED job /\ Goto(w, "retry")
    /\ UNCHANGED <<doc, run, file, intake, crashes>>

(* _retry_archive ends with mark_failure, whoever owns the job by then.    *)
MarkFailure(w) ==
    /\ Archives(w) /\ wk[w].pc = "failure"
    /\ SetDoc(Doc(w), Failure(doc[Doc(w)], wk[w].seen))
    /\ Rest(w, "reconcile")
    /\ UNCHANGED <<run, job, file, intake, crashes>>

----------------------------------------------------------------------------
(* _reconcile_archive_dead_letters *)

FindDeadLetter(w) ==
    /\ wk[w].pc = "reconcile"
    /\ \E d \in Docs : Unshown(d) /\ Start(w, "deadletter", d)
    /\ UNCHANGED <<doc, run, job, file, intake, crashes>>

MarkDeadLetter(w) ==
    /\ wk[w].pc = "deadletter"
    /\ SetDoc(Doc(w), Failure(doc[Doc(w)], TRUE))
    /\ Rest(w, "reconcile")
    /\ UNCHANGED <<run, job, file, intake, crashes>>

----------------------------------------------------------------------------
Intake(d) == EnqueueDocument(d) \/ MarkEnqueued(d)

Archive(w) ==
    \/ RecoverAwaiting(w) \/ ReEnqueue(w) \/ ReMark(w) \/ RecoverRun(w)
    \/ QueueUnprocessed(w) \/ EndMaintenance(w) \/ ClaimArchive(w)
    \/ ReadRecord(w) \/ Submit(w) \/ MarkArchiving(w) \/ MarkReady(w)
    \/ DeleteSpool(w) \/ ClearSpool(w) \/ EnsureRun(w)
    \/ EnsureEnqueued(w) \/ CompleteArchive(w) \/ MarkFailure(w)
    \/ FindDeadLetter(w) \/ MarkDeadLetter(w)
=============================================================================
