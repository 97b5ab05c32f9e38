------------------------- MODULE DocumentProcessing -------------------------
(***************************************************************************)
(* The processing half of document_processing_worker.py and process() of   *)
(* documents/processing.py: a claimed run is submitted to a parser, polled *)
(* by deferring its job, and its result is stored and finished under the   *)
(* fencing token of the claim.                                             *)
(***************************************************************************)
EXTENDS DocumentStore

ClaimRun(w) ==
    /\ wk[w].pc = "reconcile"
    /\ \A d \in Docs : ~Unshown(d)
    /\ ClaimOf(w, Runs, "progress", "poll")
    /\ UNCHANGED <<doc, run, file, intake, crashes>>

(* update_progress, the only look at the lease before the work.            *)
Progress(w) ==
    /\ wk[w].pc = "progress"
    /\ Goto(w, IF CanCheckpoint(MyRow(w), w, wk[w].token) THEN "begin"
               ELSE "retry")
    /\ UNCHANGED <<doc, run, job, file, intake, crashes>>

BeginProcessingRun(w) ==
    /\ wk[w].pc = "begin"
    /\ IF CanBegin(MyRun(w), wk[w].token)
       THEN /\ SetRun(wk[w].key, BegunRun(MyRun(w), wk[w].token))
            /\ SetDoc(Doc(w), [doc[Doc(w)] EXCEPT !.processing = "processing"])
            /\ Goto(w, IF MyRun(w).op THEN "parse" ELSE "submit")
       ELSE Goto(w, "retry") /\ UNCHANGED <<doc, run>>
    /\ UNCHANGED <<job, file, intake, crashes>>

(* A change of the run that only its newest begun claim may make.          *)
Commit(w, n, pc) ==
    /\ IF Fenced(MyRun(w), wk[w].token)
       THEN SetRun(wk[w].key, n) /\ Goto(w, pc)
       ELSE UNCHANGED run /\ Goto(w, "retry")
    /\ UNCHANGED <<doc, job, file, intake, crashes>>

(* The parser accepts the document; set_processing_operation; Pending.     *)
SubmitParser(w) ==
    /\ ~Archives(w) /\ wk[w].pc = "submit"
    /\ Commit(w, [MyRun(w) EXCEPT !.op = TRUE], "defer")

(* The bound: by a later claim the parser has answered.                    *)
MayPoll(w) == wk[w].token <= MaxPolls

(* The operation is still running.                                         *)
ParserPending(w) ==
    /\ wk[w].pc = "parse"
    /\ MayPoll(w)
    /\ Goto(w, "defer")
    /\ UNCHANGED <<doc, run, job, file, intake, crashes>>

(* The parser has forgotten it: the next claim submits again.              *)
ParserUnavailable(w) ==
    /\ wk[w].pc = "parse"
    /\ MayPoll(w)
    /\ Commit(w, [MyRun(w) EXCEPT !.op = FALSE], "defer")

(* finish_processing_run sets the document too, or raises.                 *)
Finish(w, status, pc) ==
    /\ IF Fenced(MyRun(w), wk[w].token)
       THEN /\ SetRun(wk[w].key, FinishedRun(MyRun(w), status))
            /\ SetDoc(Doc(w), Shown(doc[Doc(w)], Route(w), status))
            /\ Goto(w, pc)
       ELSE Goto(w, "retry") /\ UNCHANGED <<doc, run>>
    /\ UNCHANGED <<job, file, intake, crashes>>

ParserFailed(w) ==
    /\ wk[w].pc = "parse"
    /\ Finish(w, "failed", "retry")

(* Restricted content is withheld before anything is stored.               *)
Protect(w) ==
    /\ wk[w].pc = "parse"
    /\ Finish(w, "protected", "complete")

(* The result is fetched and replaces the projection of the run.           *)
ReplaceProjection(w) ==
    /\ wk[w].pc = "parse"
    /\ Commit(w, MyRun(w), "stage")

CommitStage(w) ==
    /\ wk[w].pc = "stage"
    /\ IF CanCommitStage(MyRun(w), wk[w].token)
       THEN /\ SetRun(wk[w].key, [MyRun(w) EXCEPT !.stage = wk[w].token])
            /\ Goto(w, "finish")
       ELSE UNCHANGED run /\ Goto(w, "retry")
    /\ UNCHANGED <<doc, job, file, intake, crashes>>

FinishComplete(w) ==
    /\ wk[w].pc = "finish"
    /\ Finish(w, "complete", "complete")

(* The quality is insufficient: a review, and the next route if there is.  *)
FinishNeedsReview(w) ==
    /\ wk[w].pc = "finish"
    /\ Finish(w, "needs_review",
              IF Route(w) < Routes THEN "fallback" ELSE "complete")

NextRun(w) == <<Doc(w), Route(w) + 1>>

(* _enqueue_fallback; what it raises is swallowed.                         *)
CreateFallback(w) ==
    /\ wk[w].pc = "fallback"
    /\ \/ /\ SetRun(NextRun(w), CreatedRun(run[NextRun(w)]))
          /\ SetDoc(Doc(w), Requested(doc[Doc(w)]))
          /\ Goto(w, "fallback_enqueue")
       \/ Goto(w, "complete") /\ UNCHANGED <<doc, run>>
    /\ UNCHANGED <<job, file, intake, crashes>>

EnqueueFallback(w) ==
    /\ wk[w].pc = "fallback_enqueue"
    /\ \/ SetRow(NextRun(w), Enqueued(job[NextRun(w)], TRUE))
       \/ UNCHANGED job
    /\ Goto(w, "complete")
    /\ UNCHANGED <<doc, run, file, intake, crashes>>

CompleteRun(w) ==
    /\ ~Archives(w) /\ wk[w].pc = "complete"
    /\ IF CanComplete(MyRow(w), w, wk[w].token)
       THEN SetRow(wk[w].key, Completed(MyRow(w))) /\ Rest(w, "poll")
       ELSE UNCHANGED job /\ Goto(w, "retry")
    /\ UNCHANGED <<doc, run, file, intake, crashes>>

(* DocumentProcessingPending: defer_job, or the cancellation it met.       *)
DeferRun(w) ==
    /\ wk[w].pc = "defer"
    /\ LET r == MyRow(w) IN
       CASE CanDefer(r, w, wk[w].token) ->
                SetRow(wk[w].key, Deferred(r, TRUE)) /\ Rest(w, "poll")
         [] CanAcknowledgeCancel(r, w, wk[w].token) ->
                SetRow(wk[w].key, CancelAcknowledged(r))
                /\ Goto(w, "cancelled")
         [] OTHER -> UNCHANGED job /\ Rest(w, "poll")
    /\ UNCHANGED <<doc, run, file, intake, crashes>>

FinishCancelled(w) ==
    /\ wk[w].pc = "cancelled"
    /\ IF Fenced(MyRun(w), wk[w].token)
       THEN /\ SetRun(wk[w].key, FinishedRun(MyRun(w), "cancelled"))
            /\ SetDoc(Doc(w), Shown(doc[Doc(w)], Route(w), "cancelled"))
       ELSE UNCHANGED <<doc, run>>
    /\ Rest(w, "poll")
    /\ UNCHANGED <<job, file, intake, crashes>>

(* _fail_processing_run, only when the job was seen dead-lettered.         *)
FailProcessingRun(w) ==
    /\ ~Archives(w) /\ wk[w].pc = "failure"
    /\ IF wk[w].seen /\ Fenced(MyRun(w), wk[w].token)
       THEN /\ SetRun(wk[w].key, FinishedRun(MyRun(w), "failed"))
            /\ SetDoc(Doc(w), Shown(doc[Doc(w)], Route(w), "failed"))
       ELSE UNCHANGED <<doc, run>>
    /\ Rest(w, "poll")
    /\ UNCHANGED <<job, file, intake, crashes>>

----------------------------------------------------------------------------
Process(w) ==
    \/ ClaimRun(w) \/ Progress(w) \/ BeginProcessingRun(w)
    \/ SubmitParser(w) \/ ParserPending(w) \/ ParserUnavailable(w)
    \/ ParserFailed(w) \/ Protect(w) \/ ReplaceProjection(w)
    \/ CommitStage(w) \/ FinishComplete(w)
    \/ FinishNeedsReview(w) \/ CreateFallback(w) \/ EnqueueFallback(w)
    \/ CompleteRun(w) \/ DeferRun(w) \/ FinishCancelled(w)
    \/ FailProcessingRun(w)
=============================================================================
