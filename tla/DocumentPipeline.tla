-------------------------- MODULE DocumentPipeline --------------------------
(***************************************************************************)
(* Uploads, the document workers and what happens to them: the two halves  *)
(* of the worker share one loop, one ledger and one table of documents.    *)
(***************************************************************************)
EXTENDS DocumentArchive, DocumentProcessing

TypeOK ==
    /\ doc \in [Docs -> Document]
    /\ run \in [Runs -> Run]
    /\ job \in [Keys -> Row]
    /\ file \in [Docs -> BOOLEAN]
    /\ intake \in [Docs -> {"none", "enqueue", "mark", "done"}]
    /\ wk \in [Workers -> Worker]
    /\ crashes \in 0 .. MaxCrashes

Init ==
    /\ doc = [d \in Docs |-> NewDocument]
    /\ run = [k \in Runs |-> NewRun]
    /\ job = [k \in Keys |-> AbsentRow]
    /\ file = [d \in Docs |-> FALSE]
    /\ intake = [d \in Docs |-> "none"]
    /\ wk = [w \in Workers |-> At("poll")]
    /\ crashes = 0

(* The process dies and is started again, or an exception ends one of the  *)
(* parts of its maintenance.                                               *)
Crash(w) ==
    /\ crashes < MaxCrashes
    /\ wk[w] # At("poll")
    /\ Rest(w, "poll")
    /\ crashes' = crashes + 1
    /\ UNCHANGED <<doc, run, job, file, intake>>

Abandoned(k) ==
    ~\E w \in Workers : wk[w].key = k /\ wk[w].token = job[k].token

Expire(k) ==
    /\ job[k].status = "running"
    /\ ~job[k].expired
    /\ SetRow(k, [job[k] EXCEPT !.expired = TRUE])
    /\ UNCHANGED <<doc, run, file, intake, wk, crashes>>

(* The operator cancels a job.                                             *)
OperatorCancel(k) ==
    /\ k[2] \in Cancelled
    /\ job[k].status # "absent"
    /\ SetRow(k, CancelRequested(job[k]))
    /\ UNCHANGED <<doc, run, file, intake, wk, crashes>>

Work(w) == Archive(w) \/ Process(w) \/ RetryJob(w) \/ ReadBack(w)

Next ==
    \/ \E d \in Docs : Accept(d) \/ Intake(d) \/ IntakeFails(d)
    \/ \E w \in Workers : Work(w) \/ Raise(w) \/ Crash(w)
    \/ \E k \in Keys : Expire(k) \/ OperatorCancel(k)

Spec == Init /\ [][Next]_vars

Fairness ==
    /\ \A w \in Workers : WF_vars(Work(w))
    /\ \A k \in Keys : WF_vars(Abandoned(k) /\ Expire(k))

FairSpec == Spec /\ Fairness

----------------------------------------------------------------------------
(* Properties *)

(* Accepted bytes are never discarded: the spool keeps an upload until its *)
(* archived copy was downloaded, compared and recorded (mark_ready), for   *)
(* every order of failures, retries and late workers.                      *)
SpoolUntilVerified ==
    \A d \in Docs : doc[d].state # "absent" /\ ~doc[d].source => file[d]

(* A document is shown as complete exactly when a run has completed it,    *)
(* and its active run is that run: no late create_processing_run, begin or *)
(* finish of another claim hides the result (storage.py:760, 1195).        *)
CompleteIsShown ==
    \A d \in Docs :
        /\ doc[d].active # 0 => run[<<d, doc[d].active>>].status = "complete"
        /\ \A n \in 1 .. Routes :
               run[<<d, n>>].status = "complete"
               => doc[d].processing = "complete" /\ doc[d].active = n

(* Stale workers cannot commit: a finished run stays as it is, its fence   *)
(* never goes back, and a change of a run is made by the claim that owns   *)
(* the fence afterwards, so by no claim that a later one has superseded.   *)
ResultsAreFenced ==
    [][\A k \in Runs :
        run[k].status # "absent" /\ run'[k] # run[k] =>
            /\ run[k].status \notin Finished
            /\ run'[k].fence >= run[k].fence
            /\ \E w \in Workers : /\ wk[w].key = k
                                  /\ wk[w].token = run'[k].fence
                                  /\ wk'[w] # wk[w]]_vars

(* The truth reaches the owner: once an archive job is dead-lettered, by   *)
(* its own worker or by the sweep of another claim, its document ends up   *)
(* ready or failed for good, whatever a late thread still writes.          *)
DeadLetterShown ==
    \A d \in Docs : job[<<d, 0>>].status = "dead_letter"
                    ~> [](doc[d].state \in {"ready", "failed"})

GivenUp(k) == job[k].status \in {"dead_letter", "cancelled"}

(* An accepted upload is processed although request threads and workers    *)
(* fail between any two statements, unless one of its jobs is given up:    *)
(* awaiting_enqueue, ready_unprocessed and pending_processing_runs close   *)
(* the gaps between documents.db and the ledger.                           *)
UploadIsProcessed ==
    \A d \in Docs :
        doc[d].state # "absent"
        ~> \/ run[<<d, 1>>].status \in Finished \cup {"failed"}
           \/ GivenUp(<<d, 0>>)
           \/ GivenUp(<<d, 1>>)

(* The durable_jobs table as its users see it keeps the promises of        *)
(* JobLedger through crashes, late workers and cancellations: whoever      *)
(* rewrites a job of a document moves it lawfully (documents/service.py    *)
(* and document_processing_worker.py call the same repository).            *)
JobsView == [k \in Keys |-> LedgerEntry(job[k])]

Ledger == INSTANCE JobLedger WITH Jobs <- Keys, ledger <- JobsView

LedgerSpec == Ledger!Spec
=============================================================================
