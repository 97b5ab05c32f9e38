# Formal models of Jarvis

TLA+ specifications of the concurrent core of Jarvis, the household assistant
of this repository: the durable job ledger, the admission of turns, the human
approval of actions, the task workspace, the document pipeline, the tickets
with their reviews, and the admission to the GPU. TLC checks them on small
instances; TLAPS proves the theorems listed below for all values of the
constants.

Contents: [the system](#the-system) · [components](#components) ·
[modules](#modules-and-how-they-correspond-to-the-code) ·
[runs](#runs) · [fairness](#fairness) · [proofs](#proofs) ·
[disagreements with the documentation](#disagreements-with-the-documentation) ·
[abstractions](#abstractions) · [not modelled](#not-modelled)

Check a run with `tlc -workers 2 -config X.cfg M` and a proof module with
`tlapm M.tla`; the runs and the configuration of each are in `PROJECT.json`,
and so are the source lines that every definition translates (`map`), the
hazards of the code with the properties that would catch them (`hazards`) and,
for every property, a plausible bug that violates it (`mutants`; the bugs are
the definitions marked "Variant" or "Mutant").

## The system

Jarvis is a set of Python processes around SQLite databases. There is no
message broker and no shared memory between processes: **they interact through
database rows**, and a `BEGIN IMMEDIATE` transaction is the unit of atomicity.
Each repository method opens one transaction, so nearly everything that can go
wrong goes wrong *between* two of them.

* The **API process** and the **Discord bot** accept turns. A turn passes the
  admission of `TurnService`, is routed (router, tool loop, language model)
  and leaves rows behind: an exchange to persist, a proposal to approve, a
  task to run, a document to archive, a ticket to review.
* **Worker processes** poll `durable_jobs`. They claim a batch of leased jobs,
  do the work (often a slow call to a provider or a model) and settle each job
  with `complete_job`, `retry_job`, `defer_job`, `dead_letter_job` or
  `acknowledge_cancel`. A lease has an owner, an expiry and a fencing token.
  A worker that is slow loses its lease without noticing.
* `durable_jobs` is in another database than documents and tickets: a row and
  the job that works on it are written in two transactions, in either order.
* The **owner** decides on proposals, steers, pauses and cancels tasks; an
  **operator** cancels and requeues jobs.
* **Providers** (Discord, Gmail, Paperless, the parsers) are called over HTTP;
  the answer may be lost after the effect. Model servers share one GPU, which
  the **accelerator admission** application gives to one request at a time.

What is hard, everywhere: leases that expire under a worker, a worker that
dies between the statement that changes a domain row and the one that settles
its job, effects that cannot be taken back, owners who change their mind while
a worker acts, timeouts that stop the waiting but not the work.

## Components

State, operations, hard behaviour and what makes each component correct.

| Component | State | Operations | Hard behaviour | Correct when | Model |
|---|---|---|---|---|---|
| Durable job ledger (`app/jobs/repository.py`) | `durable_jobs` rows | enqueue, claim (with sweep), complete, retry, defer, dead-letter, acknowledge cancel, renew, checkpoint, release, cancel, requeue | expiry under a worker, callers without a token, crash with a claimed batch | a lease is respected, one claim per lease, bounded attempts, no stranded job, every job ends | `DurableJobs`, `JobLedger` |
| Turn admission (`app/services/turn_service.py`) | admitted count, semaphore, session locks, executor queue | route | a timeout cannot stop a running thread; queueing for two locks | exact count, order per session, every turn answered | `TurnService` |
| Action approval (`app/reviews/repository.py`, `service.py`) | `action_proposals` and their jobs | create, decide, expire, cancel, supersede, begin and finish execution, mark delivered | decision, expiry and cancellation racing execution | at most one effect, nothing after a refusal, what is announced is final | `ActionApproval`, `ProposalLifecycle` |
| Action approval worker (`app/workers/action_approval_worker.py`, `app/core/approved_action_execution.py`) | three batches in memory | run_once, execute, deliver | crash around the dispatch, lost lease, retry after no effect | one dispatcher, an approval is resolved | `ActionApproval` |
| Task workspace (`app/tasks/*`) | `agent_tasks`, messages, one job per generation, effect receipts | create, message, continue, pause, cancel, delete; begin_run, consume_usage, worker_transition | owner against worker, generations, enqueue in two transactions, steering during inference | the owner is obeyed, one current job, no answer to a stale prompt | `TaskWorkspace`, without the tools' effects |
| Documents (`app/skills/domains/documents`, `app/workers/document_processing_worker.py`) | documents, intakes, processing runs, spool files, two job types | accept, archive, verify, process, fall back, defer, cancel, reconcile | job and row in two databases, a lost lease over a finished archive, polls of a parser, dead letter by a sweep | an upload survives until its copy is verified, is processed or shown as failed; results are fenced | `DocumentStore`, `DocumentArchive`, `DocumentProcessing`, `DocumentPipeline` |
| Tickets and their review (`app/tickets`, `app/workers/ticket_review_worker.py`) | tickets, expectations, receipts, watchdog and review jobs, review runs | begin request, capture, record outcome, watchdog, review, remediate | watchdog racing the turn, revisions moving under a review, one attempt, repair in several transactions | a verdict rests on all the evidence, what is pending has a review, executions end | `ActionTickets`, `TicketReview` |
| Accelerator admission (`app/accelerator`, `app/api/accelerator_admission_app.py`) | one resource row, waiters, coroutines, threads | enqueue, try_acquire, heartbeat, release, cancel, guarded calls | grant to a thread whose coroutine is gone, late heartbeat, failed cleanup | tables agree, a working handler owns the GPU, a patient request is served | `Accelerator` |
| Operator job controls (`app/api/routes/jobs.py`) | - | cancel, requeue any job | against a worker that settles | as above | in `ActionApproval`, `TaskWorkspace`, `DurableJobs`, `DocumentPipeline` |
| Durable writes (`app/services/durable_write_service.py`) | exchange rows | enqueue, flush | commit before a lost lease is noticed | committed once | its jobs in `DurableJobs` |
| Email operations (`app/skills/domains/email_agent`, `app/workers/email_operations_worker.py`) | operations with their own leases | reserve, claim, write to Gmail, verify, reduce parent | lost answer after a Gmail write, rate limits | verified at most once, parent reduced from its children | only their outcome (`ChildEnds`) |
| Pending interactions (`app/core/pending_interaction.py`) | one pending record per session | store, continue, clear, cancel, expire | a late answer after expiry or replacement | an answer is used once and for its own question | not modelled |
| Task code runner, Plane mirror, job enqueue IPC, model compute, router and tool loop, executor, skills, bot, Google and document clients, database layer, API and UI, deployment | | | | | [not modelled](#not-modelled) |

## Modules and how they correspond to the code

    JobRows                     what each statement does to one durable_jobs row
      |-- DurableJobs           the ledger with its worker processes
      |     `-- refines JobLedger          a lease that changes hands (as do all below)
      |-- ActionApproval        proposals + their three jobs + the approval worker
      |     `-- refines ProposalLifecycle  the documented state diagram
      |-- TaskWorkspace         tasks + their jobs + requests + task workers
      |-- DocumentStore         documents, runs, spool, jobs, worker memory
      |     |-- DocumentArchive      intake, maintenance, archive jobs
      |     |-- DocumentProcessing   processing jobs
      |     `-- DocumentPipeline     both halves, crashes, clock, operator
      `-- ActionTickets         tickets, receipts, jobs, the turns of a session
            `-- TicketReview         + the review worker and remediation
    TurnService                 admission of turns (no database)
    Accelerator                 admission to the GPU (a database of its own)

`MC*` modules give the constants values; `*_proofs` modules hold the theorems.

**JobRows** has no state. Each operator is one statement of
`DurableJobRepository` on one row: `Swept` is the sweep at the start of
`claim_jobs` (cancellation, deadline, expired lease, exhausted attempts, in the
order of the code), `Claimed` the claim, `CanComplete`/`Completed` and so on
the WHERE clause and the SET clause of a settlement. Every module that has
jobs applies these operators to its own rows, so the ledger's behaviour is
written once.

**DurableJobs**: `job` is the table, `held[w]` the claims a worker process has
in memory with the token each claim returned. `Claim` takes a batch after
sweeping all rows; `Complete`, `Retry`, `Defer`, `DeadLetter`,
`AcknowledgeCancel` settle (and succeed or fail according to the row),
`RenewLease` and `Checkpoint` are the calls in the middle, `Crash` loses
`held[w]`. `Tokenless` types settle without a token, as
`durable_write_service.py`, the ticket review and the Plane workers do.
`LeaseExpires`, `DelayElapses`, `DeadlinePasses` are the clock.

**JobLedger** is what callers may rely on: a job is open, leased to one holder
under an epoch, done or void; a grant raises the epoch. `LedgerEntry` (`JobRows`)
maps a row to it. Every module that has jobs states in `LedgerSpec` that its
tables are such ledgers: `ActionApproval`, `TaskWorkspace`, `DocumentPipeline`,
and `TicketReview` for its watchdogs and its reviews.

**TurnService**: `pc[r]` is the await at which the coroutine of `route` stands
(waiting for a permit, for the session lock, for the router), `thread[r]` the
router call on the executor, `admitted` the counter. `Timeout` is `wait_for`:
it frees lock and permit, drops a call that the executor has not started and
leaves a running one alone.

**ActionApproval**: `proposal` (state, execution fencing token, recorded
cards, whether `expires_at` has passed), `job` (notification, execution and
outcome row per proposal), and per worker process the batch in memory
(`held`), the claim it works on, the statement it is at (`pc`) and the
executor's answer. `PollNotification`, `PollExecution` and `PollOutcome` are
the three claims of `run_once`; `TakeExecution`, `BeginActionExecution`,
`Dispatch`, `FinishActionExecution`, `RetryAfterNoEffect` follow `execute()`;
`Complete`, `Retry`, `DeadLetter` settle. `Raise` is an exception out of the
middle; `Crash` a death of the process. `expire_due` runs with each call that runs it and also on its own.
`effects` counts what really happened and is not visible to the code.

**ProposalLifecycle** is the state diagram of the documentation with the count
of effects: it takes effect only while executing, at most once, and only an
executing proposal with its effect becomes executed.

**TaskWorkspace**: `task` (status, generation, steering revision,
`active_job_id`, messages, model decisions used and granted, workspace bound),
`job` (one row per task and generation: that is the idempotency key),
`call[p]` (what the process `p` has left to do of a service call: bind the
workspace, insert the job, point the task at it, cancel the old job, delete),
`wk[w]` (the worker's run: statement, claim, the steering revision and the
messages it last read, whether its heartbeat saw the lease lost). A service
call such as `pause` or `continue_task` is a first transaction (`Cancel`,
`Continue`, ...) followed by `CallStep`s that may be interleaved with anything
or lost with the process. `Begin`, `Check`, `Charge`, `Prompt`, `Chat`,
`Answer`, `Tools`, `EndRun`, `CompleteJob`, `RetryJob`, `ReadBack`, `GiveUp`
are `_run_claimed` and `_execute_task`; `Restart` is a crash of the worker
followed by `recover_queued`.

**DocumentStore** holds the tables and what the two halves of the worker share:
`doc` (archive state, whether `spool_key`, `archive_task_ref` and `source_ref`
are set, processing state and active run), `run` (one per document and route,
with its fencing token, its parser operation and its committed stage), `job`
(job 0 of a document archives it, job *k* processes its run *k*), `file` (the
spool on disk), `wk` (the statement a worker is at, its claim, and the one
thing it remembers of an earlier read). **DocumentArchive** has the request
thread (`Accept`, `EnqueueDocument`, `MarkEnqueued`, each of which may be the
last), the maintenance that closes the gaps it leaves (`RecoverAwaiting`,
`RecoverRun`, `QueueUnprocessed`), the archive job from `ReadRecord` to
`CompleteArchive`, and the dead letters (`FindDeadLetter`, `MarkDeadLetter`).
**DocumentProcessing** has the processing job: `BeginProcessingRun` takes over
the run, `SubmitParser` and `DeferRun` are a poll, `ReplaceProjection`,
`CommitStage`, `FinishComplete`/`FinishNeedsReview` store a result under the
claim's token, `CreateFallback` starts the next route. **DocumentPipeline**
puts the halves into the worker's loop and adds crashes, the clock and the
operator.

**ActionTickets**: `ticket` (status, the manifest of promised effects, their
outcomes and receipts, and `rev`, the set of receipts its evidence revision was
computed from), `watch` and `review` (the two kinds of jobs), `runs` (verdicts
with the receipts they were based on), `turn` (the statement at which
`begin_request` or `capture_response` stands), `bound` (the session's active
ticket). `RecordChild` is `record_child_outcome_atomic`, called by other
workers. **TicketReview** adds the one review worker: a watchdog is `Look`,
`Act`, `WatchSchedules`, `ClearWatch`; a review `Open`, `MarkVerifying`,
`Judge`, `Conclude`, with `Excuse`, `RetryReview`, `Escalate` when something
raises; a remediation `CreateChild`, `StartChild`, `MarkParent`,
`PromiseRepair`, `Dispatch`, `FailClosed`.

**Accelerator**: `gpu` is the resource row, `waiter` and `line` the waiter rows
in the order of their creation, `req[r]` the coroutine of `lease()` with its
handler, `thread[r]` the call of `try_acquire` it has in a thread, `busy` the
requests whose upstream call is on the GPU. `TryAcquire` runs whatever the
coroutine does meanwhile. `Withdraw` is a cancelled coroutine or a statement
that raises, wherever it stands; `Leave` is the finally block with what the
coroutine knows.

## Runs

Twelve runs. Between them every action and every disjunct fires; every property
has a mutant of the code under which TLC finds it violated.

| Run | Instance | States | What it shows |
|---|---|---|---|
| `jobs_two` | 2 workers, two jobs of one tokenless type (one with a deadline), 2 attempts, batch 2 | 44 507 | nobody settles a claim another process holds now (`OwnerFence`), no waiting job is out of reach (`NoStrandedJob`), a lease ends early only by its holder (`LeaseRespected`), refinement of `JobLedger` (`LedgerSpec`) |
| `jobs_one` | 1 job of a fenced type with a deadline, 2 workers, 2 attempts, 2 requeues, 2 deferrals; fair | 73 597 | attempt budget (`AttemptBudget`), cancelled jobs never complete (`CancelIsHonoured`), checkpoints never go back (`CheckpointsMoveForward`), every job ends (`EveryJobEnds`) |
| `turns` | 4 turns, 3 of one session, 2 permits, queue 1, 3 threads; fair | 10 273 | types (`TypeOK`), exact count (`AdmissionIsExact`), overlap only around a timeout (`OverlapOnlyAfterTimeout`), no call starts after its turn was answered (`NoGhostStart`), order (`SessionOrder`), every turn answered (`EveryTurnIsAnswered`) |
| `approval` | 1 proposal decided in the task workspace, 2 workers, 3 execution attempts, 1 operator call; fair | 309 523 | at most one effect (`AtMostOneEffect`), nothing after a refusal (`WithdrawnIsInert`), an approved proposal keeps its job (`ApprovedKeepsItsJob`), refinement of `ProposalLifecycle` (`LifecycleSpec`), an approval is resolved (`ApprovalIsResolved`) |
| `approval_cards` | 1 proposal decided on Discord, 2 workers, 2 delivery attempts, 1 execution attempt | 548 042 | a decision follows a recorded card (`DecidedWasShown`), an announced outcome is final (`OutcomeStaysTrue`) |
| `tasks_workers` | 1 task, 2 workers whose leases run out, 1 request thread, 2 attempts, 2 generations, 2 steering revisions | 1 733 766 | a live task keeps its job (`LiveTaskKeepsItsJob`), only the owner ends a pause (`OwnerIsObeyed`), a run ends only on an answer to all messages (`DecidesOnAllMessages`) |
| `tasks_requests` | 1 worker that restarts, 1 request thread that dies, 2 attempts; fair | 151 282 | the task never names the job of an earlier generation (`ActiveJobIsCurrent`); after a cancellation no worker keeps coming back (`StopEndsTheRun`) |
| `tasks_queue` | 1 worker that loses leases, operator with 1 requeue, 1 attempt; fair | 160 263 | a queued task is taken, withdrawn, or has a job that attempts or the operator ended (`QueuedTaskIsTaken`) |
| `documents_one` | 1 upload, 1 worker that dies once, 2 routes, 2 attempts; fair | 313 804 | an upload is processed or one of its jobs given up (`UploadIsProcessed`), a dead-lettered archive job ends in `ready` or `failed` for good (`DeadLetterShown`) |
| `documents_two` | 1 upload, 2 workers whose leases run out, 1 route, 2 attempts, parser not ready for 2 claims, the operator cancels the processing job | 3 319 515 | the spool keeps the file until the copy is verified (`SpoolUntilVerified`), a completed run is what the document shows (`CompleteIsShown`), no superseded claim changes a run (`ResultsAreFenced`) |
| `accelerator` | a live, a patient OCR and a mail request, 1 call each, 1 fault; fair | 1 052 550 | waiter table and resource row agree (`TablesAgree`), a working handler owns the GPU unless its lease was swept (`HandlerOwnsGpu`), a patient request is served (`PatientIsServed`) |
| `tickets` | 1 turn, 1 child effect, 1 repair ticket, 2 attempts, API and worker die once each; fair | 256 673 | what waits for a review keeps the job of its revision, but for three cases (`ReviewsAreNotLost`), a verdict lacks evidence only if it came late (`VerdictsNeedEvidence`), verdicts are kept (`WorkerKeepsVerdicts`), reviews and guarded executions end (`EveryReviewEnds`, `GuardedExecutionEnds`) |

Why the bounds are enough. The ledger treats jobs one by one except in a claim,
which takes several rows of one type in one transaction; with two jobs of one
type and a batch of two a claim takes none, either or both, and two workers show
every handover (a third worker relates to the others as the second to the
first). Settlement without the token is what `jobs_two` runs and settlement
with it what `jobs_one` runs; the proofs cover any mixture of types. Two attempts are the first,
the last, and the step between them; `approval` has a third so that a retry is
neither. `approval_cards` has one execution attempt and no operator call, since
it is about cards and their delivery: there the part of `OutcomeStaysTrue` that
speaks of dispatches is hardly exercised, and `OutcomesStayTrue` proves it for
any number of both. `MaxRequeues`, `MaxDefers`, `MaxOperatorCalls`, `MaxGen`, `MaxSteer`,
`MaxPolls`, `MaxTurns` bound what the code does not bound; each of them is at
least the number needed for an old and a new claim, generation or direction to
meet, with the exception of `MaxTurns` below. Three turns of one session
compete for two permits, so one waits for a permit while one waits for the
lock, and the fourth makes the service full. In `tasks_*` one request thread
and the worker's own recovery are the two processes that enqueue concurrently.

Uploads do not interact except through the sweep, which each module applies to
all its rows, and the maintenance; one upload with an archive and a processing
job shows both. With two routes and two workers the graph is out of reach:
`documents_one` has the fallback and `documents_two` the stale worker, and
`CompleteIsShown`, `ResultsAreFenced` and `SpoolUntilVerified` are proved for
any number of both. The accelerator's three requests are two of one lane and
one above them: a holder, the next in line and one that overtakes it. One fault
suffices to leave a waiter, a lease or an upstream call behind; the theorems
allow any number.

`tickets` has one turn: the three cases that `ReviewsAreNotLost` excepts need a
second or a third. Its action properties are proved for any number of turns and
were checked with two (`MaxTurns = 2`, 4 787 277 states); the liveness
properties were checked with two turns and a worker that dies
(`MaxRestarts = 0`, 1 402 064 states, a few minutes each). The transitions
that are refused and caught inside `process_job` occur only with the second
turn, and the reduction `partial` only with two children.

A turn that was answered has nothing left to do: `turns` ends in a state
without successors, and only it switches the deadlock check off. In all other
modules the system never stops.

## Fairness

* `DurableJobs`: delays elapse, the lease of a claim that nobody has in memory
  any more runs out (wall-clock time passes), a worker does not stay in one
  claim for ever (provider calls have timeouts), and for each job type some
  worker keeps polling (`run_forever` sleeps `poll_seconds`). Nothing is
  assumed of producers, operators and crashes.
* `TurnService`: coroutines that hold what they wait for run on (the event
  loop), and `wait_for` timers fire. Nothing is assumed of the router: calls
  may hang for ever.
* `ActionApproval`: abandoned leases run out; a worker polls and goes on
  working. Humans, operators, crashes, expiry of approvals are free.
* `TaskWorkspace`: a request that is being served goes on, a worker goes on and
  polls again, the lease of a dead claim runs out. Owners, operators,
  heartbeats and failures are free.
* `DocumentPipeline`: a worker goes on and polls again, and the lease of a claim
  that nobody has in memory runs out. Requests are free: one may never come to
  its second statement. Crashes, exceptions and the operator are free.
* `Accelerator`: coroutines, threads and upstream calls go on (`httpx` timeouts),
  time passes for waiters and leases. Arrivals, heartbeats, deadlines, `/ready`
  and faults are free.
* `TicketReview`: one of the steps of turns, worker or clock is taken as long as
  one is possible, in any order. Children, tools, users and restarts are free.
  `run_once` does nothing while live input is recent (`has_recent_live_input`);
  that polls go on to claim assumes that there are quiet windows.

Only weak fairness is assumed anywhere.

`EveryTurnIsAnswered` needs the timers: a turn that holds a permit while it
waits for its session is behind a call that may hang. `EveryJobEnds` needs no
bound on crashes, because every claim costs an attempt. `QueuedTaskIsTaken` is
checked without deaths of workers and requests: only the start of a worker
process enqueues a task whose request died, and a worker that restarts for ever
never works. `UploadIsProcessed` needs no such exception, because the document
worker looks for lost uploads at every poll.

## Proofs

TLAPS checks the 53 theorems listed in `PROJECT.json`, in seven modules, and
the lemmas about the ledger's statements (`JobRows_proofs`) on which the
proofs about jobs rest, for any sets of workers, jobs, proposals,
tasks, requests, turns, uploads and routes and any budgets and bounds. The only
assumptions are those the modules name: SQL NULL is no worker, no request and
no key of a job, every job has a type, every turn a session, every request a
priority, budgets, batch limits, attempts, routes and capacities are in the
range the code requires, bounds are natural numbers, request threads are not
workers, there is a review worker, a ticket is not its own repair, and proposals decided
locally are proposals. The bounds (`MaxRequeues`, `MaxGen`, ...) are parameters
of the theorems too.

**The ledger** (`DurableJobs_proofs`). `OwnerFence` and `AttemptBudget` are not
inductive. `IInv` adds to the types
* `RowsOK`: a row has an owner exactly while running, a waiting row has
  attempts left and no cancellation, attempts do not exceed the budget;
* `ClaimsPaidFor`: the token of a row, that is the number of its claims, is at
  most its attempts plus what requeues and deferrals gave back. `AttemptBudget`
  follows with the bound on attempts;
* `ClaimsOK`: a remembered claim has a token between 1 and the row's, no other
  process remembers it, and it is the newest one if its worker owns the row.

The steps are sorted by what they do to a row: most are *quiet* (token, owner
or attempts do not grow) and one lemma covers them; a claim, a deferral and a
requeue are the three that pay or give back. From `IInv` follow `TypeCorrect`,
`OwnerFencing`, `ClaimUniqueness`, `LeasesOnlyWhileRunning`, `NothingStranded`,
`AttemptsAreBudgeted`.

Every step of the ledger is, row by row, a step of `JobLedger` or a stutter
(`Refinement`), and only the holder ends a lease that has not run out
(`LeasesAreRespected`). Two more action properties say what no step does to a
row (`Careful`): end a cancelled claim in any other way than cancelled or
dead-lettered (`CancelAlwaysHonoured`), or take a checkpoint back
(`CheckpointsOnlyForward`). The latter needs that a checkpoint never carries a
newer token than its row (`CheckpointsOK`), because a worker that may write
holds the newest claim.

**The same ledger under the other components** (last section of their
`_proofs`). A table is written by many hands there: reviews expire, answers of
humans withdraw and enqueue jobs, an owner who pauses cancels them, an operator
requeues them, every claim sweeps the whole table, workers settle their jobs with
a token or without. That each of these statements keeps `JobLedger` is proved once per statement, for one row, in
`JobRows_proofs`: `Abides(r, s)` says that `s` is a consistent row and that
`LedgerEntry` takes the step from `r` to `s` to a lawful move or a stutter. The
invariant is `Booked`: a row is consistent, and has an owner exactly while it
runs. It is not in the `IInv` of those components, whose properties do without it. A
component's step is then a set of such statements, at most one per row, as in a
decision that finds other approvals expired and withdraws their jobs in the
same transaction. Hence `DocumentJobsKeepTheLedger`, `TaskJobsKeepTheLedger`,
`ApprovalJobsKeepTheLedger` and `TicketJobsKeepTheLedger`: a lease goes to one
worker at a time under epochs without gaps, and a job that is done stays done,
however the components use it. TLC agrees on instances of the four modules
(96 255 to 548 042 states); no run of the project repeats it.

**Turns** (`TurnService_proofs`). The counter is a number, `InFlight` a set; to
relate them the invariant must know that the set is finite at all times
(`CountsOK`), which it proves without assuming that there are finitely many
turns. `QueuesOK` says that a queue holds turns of one kind, none twice, so
that the head of a queue leaves it for good; `CallsOK` says what the router
call of a turn may be doing, whence `OverlapsAreTimeouts` and `NoGhosts`.
`SessionsInOrder` is about positions in two queues. It needs the converse of
`QueuesOK`: whoever waits for a permit or a lock is in the line for it
(`WaitersInLine`). The lines change only by an arrival at the end or the
departure of the head, and the turn that passes from the first line to the
second was ahead of all that stay in the first.

**The approval path** (`ActionApproval_proofs`). That an action takes effect at
most once depends on who dispatches. `IInv` says, beside the types:
* `RowsOK`: an absent row is empty;
* `ClaimsOK`: claims are unique and never newer than their row;
* `CurrentOK`: the claim a worker is at is one it holds, of the kind its
  statement belongs to;
* `DispatchOK`: a dispatching worker's proposal is executing and carries that worker's
  token, and the worker's recorded answer agrees with the number of effects;
* `EffectsOK`: at most one effect, and none unless the proposal is executing, executed
  or `failed_terminal`.

Two dispatchers would carry the same fence, hence the same claim, which is in
one memory only (`DispatchersExclude`); a second dispatch finds the proposal
executing under another token and gives up, so there is one effect
(`EffectOnce`); `WithdrawnAreInert` reads off `EffectsOK` and `DispatchOK`; and
`LifecycleRefinement` shows each step to be a step of `ProposalLifecycle`.

`Records` relates the three job rows of a proposal to its state: there is an
outcome job exactly when there is an outcome (`OutcomesStayTrue`), a decision
has its card on record (`DecisionsWereShown`), and the execution job of an
approved proposal exists and is not completed (`ApprovalsKeepTheirJobs`). The
last is inductive only with `DoneOK`: a worker that is about to complete the
execution job of a proposal that another worker put back to `approved` has
lost the lease, so its `complete_job` finds no row.

**The task workspace** (`TaskWorkspace_proofs`). A late worker may find the
task in a newer generation, and an enqueue may be overtaken by another. `IInv`
therefore relates everything outstanding to generations: `RowsOK` and
`TasksOK` (no row of a generation not reached), `CallsOK` (a call concerns a
generation already reached), `RunsOK` (a run never sees its task queued again
under its own generation, and a worker about to complete its job has no live
task of that generation), together with `ActiveJobIsCurrent` and
`LiveTaskKeepsItsJob`. The argument is in two halves: each action is shown to
be a *move* (of the tables, of the outstanding calls, of the runs), and moves
are shown to keep `IInv`. `OwnerAlwaysObeyed` is an action property, proved
action by action from the same invariant. `DecisionsHearTheOwner` needs one
about what a run has read (`Attentive`): a run never acts under a direction
ahead of its task's, and one that waits for the model's decision or carries it
out under the present direction has read every message, since a message always
comes with a new direction and the direction only grows.

**Documents** (`DocumentPipeline_proofs`). A worker that lost its lease goes on
with what it remembers, so the invariant is about memories: `Fits` says that
whoever is about to delete a spool file knows of a recorded archive copy, and
that whoever asks for a fallback comes from a run that ended with a review.
`SpoolIsKept` then needs only that `source_ref` is never taken back (`DocOK`).
`OneRunCompletes` needs `Chain`: every run of a document but the newest ended
with a review, so no older run is left that could complete as well. The halves
of the worker are shown to be moves of documents, runs, jobs and memories, and
`Assemble` puts the invariant together again. `RunsAreFenced` is an action
property: a step that changes a run is taken by a worker whose claim carries
the fence the run has afterwards.

**The accelerator** (`Accelerator_proofs`). `TablesAgree` alone is not
inductive: a grant may be on its way to a coroutine, in a thread, when the
lease is swept. `GrantOK` says that what a thread brings back, and what a
handler works under, is the present lease or belongs to a waiter marked
expired; `ThreadOK` that a thread whose request does not ask has nothing to
bring. Every action is shown to be a sweep, quiet, or a grant, a release or a
cancellation of one row.

**Tickets** (`TicketReview_proofs`). The review worker reads a ticket and
writes it several transactions later, while turns, child workers and the clock
go on. `IInv` says of the ticket table that what is pending, in review or
verified has a revision, made of recorded receipts (`Documented`), and of the
worker's memory that the ticket it works on is still open and has all the
receipts of the revision it was asked to review (`WorkOK`), because only the
worker settles tickets and receipts are never withdrawn; a run that is about
to end in a verdict has saved its review. Statements of the turn, the children,
the clock and the worker are shown to be *plain* (they settle nothing and
forget neither revision nor receipt), except `Conclude`. Whence
`VerdictsAreSubstantiated` and, as an action property, `VerdictsStay`. The
theorems hold for any number of turns and crashes.

That the revision a verdict stands on is one that a review saw needs more
(`JudgedOK`): while a review is at work, a ticket that is still `verifying`
shows the revision the review saw, because every writer that brings another one
takes the ticket out of `verifying` and only the worker leads it back. Each
step is sorted by which statuses its writes leave as they were (`Carries`).
`Excuse` takes back the evidence of the run it fails, and that evidence is of a
ticket in review, hence of none with a verdict (`FailedRuns`).
Only `Conclude` can then make a verdict without evidence, and only from
`cancelled`, `escalated` or `unverifiable` (`OnlyLateVerdictsLackEvidence`).
That this does happen is shown [below](#disagreements-with-the-documentation);
`TimelyVerdictsRestOnEvidence` says that in behaviours where it does not,
`VerifiedOnEvidence` is an invariant.

`ReviewsAreLostInThreeWays` is about two tables: the revision a ticket shows and
the review job of that revision. It needs that a ticket gets receipts of its
own effects only (`OwnOK`, whence the assumption that a ticket is not its own
repair), so that the job is in the table. Statements that put no ticket up for
review carry the tickets that are (`Carries`), no statement but `complete_job`
ends a job as completed, and `Schedule` makes the job or finds it.

Every theorem named here that mentions a property of a run proves it for all
constants; TLC checked the property, and the invariant it rests on, first. The
type invariants (but that of `TurnService`), `ClaimsAreUnique`,
`LeaseOnlyWhileRunning`, `OneDispatcher`, `AwaitedTurnsAreSerial`,
`Substantiated` and the `LedgerSpec` of all modules but `DurableJobs` are proved
and in no run.

**Only model-checked**: liveness (`EveryJobEnds`, `EveryTurnIsAnswered`,
`ApprovalIsResolved`, `StopEndsTheRun`, `QueuedTaskIsTaken`,
`DeadLetterShown`, `UploadIsProcessed`, `PatientIsServed`, `EveryReviewEnds`,
`GuardedExecutionEnds`), which rests on fairness and is out of the prover's
reach. Every safety property of a run is proved.

## Disagreements with the documentation

While modelling, the code was found to do other than a document, a comment or
a test says. The first four are definitions of the modules: add the name to the
configuration (as an INVARIANT, or a PROPERTY for the second) and TLC shows the
counterexample. No run checks them, since the code does not keep them.

* `RouterCallsAreSerial` (`TurnService`, configuration `MCTurnService.cfg`).
  `README.md:78` describes turn admission as serialized per session, and
  `tests/unit/test_turn_service.py:77` asserts that at most one router call of
  a session is active. `wait_for` (`turn_service.py:58`) cannot stop a thread
  that has started: after a timeout the old call runs beside the next one.
* `ExhaustionIsTerminal` (`ActionApproval`, `MCActionApproval.cfg`).
  `docs/reasoning-led-capability-execution-plan.md:464-465` says that
  "exhausted non-effect failure sets `failed_terminal`". The code puts the
  proposal back to `approved` (`approved_action_execution.py:494`) before
  `retry_job` decides that the attempts are used up: it stays `approved` beside
  a dead-lettered job, and no outcome is announced until it expires.
* `OneWorkerOwnsTask` (`TaskWorkspace`, `MCTaskWorkspace.cfg`).
  `docs/JARVIS-TASK-WORKSPACE-IMPLEMENTATION-PLAN.md:72` says "Use the existing
  lease/fencing mechanism to ensure one worker owns a task." A lease covers a
  job: a `pause` whose process dies before it cancels the job
  (`tasks/service.py:196`), followed by `continue_task`, gives the task two
  jobs and two workers, both with live leases (`Faults = {"request"}`). So does
  a worker that lost its lease and pauses the task for its budget, which its
  successor does not notice before the owner continues it.
* `BoundBeforeClaim` (`TaskWorkspace`, `MCTaskWorkspaceRequests.cfg`). The comment at
  `app/tasks/service.py:103-104` says that the workspace is bound "before any
  worker can claim the job". `create_task` already commits the task as queued,
  and `recover_queued` of a worker that starts then enqueues it.
* Documents. `docs/OCR/OCR-Plan.md:203` says "Every processing state change is
  idempotent and conditional on the expected document/run version", and line
  1415 that "stale workers cannot commit after fencing changes". Runs keep this
  (`ResultsAreFenced`); `mark_failure` (`documents/storage.py:291`) does not:
  `_retry_archive` of a worker that lost its lease takes a document that its
  successor archived from `ready` back to `archiving`, where no job moves it.
* Tickets. `docs/action-ticket-verification.md:26` has a watchdog "Reconcile a
  captured/executing request if Jarvis stops before recording a receipt." The
  transition to `executing` and the enqueue of the watchdog are two
  transactions (`tickets/service.py:251` and `:255`): a process that stops in
  between leaves an execution without a watchdog. A watchdog has one attempt;
  if the worker dies with it, the ticket stays `executing` as well.
  `GuardedExecutionEnds` says what remains.

Behaviour that no text speaks of, but that a reader of the properties should
know:

* A second turn on a ticket that brings no new receipt computes the same
  evidence revision. `schedule_verification` then finds the completed review
  job by its idempotency key and sets the ticket to `verification_pending` all
  the same: no review follows (`tickets/repository.py:942`). The same happens
  when the job is still running because the worker is between its verdict and
  `complete_job` (`ClosedBeneath`), and, with three turns and a restart of the
  API, when the handler of `process_job` puts a ticket back to
  `verification_pending` that a turn has taken to another revision without
  scheduling it (`ExcusedElsewhere`). TLC finds each of the three if
  `ReviewsAreNotLost` does not except it.
* The last transition of `process_job` (`review_service.py:221`) names no
  `expected_version`, although `transition_ticket` takes one, and terminal
  tickets may be reopened as `verified`. If, while one review is at work, the
  turns of the session take the ticket to reconciliation, bring a further
  receipt, and cancel it, the review makes the cancelled ticket `verified`, with
  a revision no review has seen: `VerifiedOnEvidence` fails (`MaxTurns = 4`,
  `MaxRestarts = 3`; a guided search finds it, the whole graph is out of reach).
* A review job that the sweep of another claim dead-letters escalates nothing
  (`ticket_review_worker.py:260`), and a task whose job ends that way stays
  `running` (`tasks/worker.py:261`): only the worker whose own `retry_job` ends
  the job looks further. The document worker does reconcile
  (`DeadLetterShown`).
* `CapturePending` returns before the receipts of the turn are recorded: a turn
  that did something and then asked a question leaves no receipt of it.
* A transition that is refused while a watchdog is handled, or by `Escalate`,
  is caught nowhere: the worker process ends.
* The operator's `resolve-reconciliation` with "verified" is accepted for a
  ticket in `reconciliation_required`, but `_ALLOWED_TRANSITIONS` has no such
  step: the call raises.
* `commit_stage` keeps the row of the first claim (`storage.py:960`): a worker
  that fails between it and `finish_processing_run` makes every later claim
  raise until the job is dead-lettered.
* A handler that is cancelled in `asyncio.wait`
  (`accelerator_admission_app.py:427`) leaves its upstream call on the GPU and
  releases the lease. That upstream calls exclude each other is not claimed.

## Abstractions

*Time.* Wall-clock columns are the comparisons the code makes: `due`,
`expired`, `overdue`, `fresh`. Each may become true at any moment, so slow and
fast clocks are covered; durations and backoff factors are not, except where a
module says so. In `ActionApproval`, `TaskWorkspace` and the document modules
retry delays elapse at once (a delay only removes behaviours).

*JobRows, DurableJobs.* Payloads are a checkpoint number: the token of the
claim that wrote last. Priorities and fairness among types are left out: any
batch of candidates may be chosen.

*TurnService.* Cancellation of a turn by its client is not modelled.
`status()` only reads.

*ActionApproval.* A claim takes all candidates (fewer than the batch limit).
`expire_due` is composed with the call that runs it. The executor keeps its
contract: an answer `retryable` or `denied` means no effect, a receipt means an
effect, anything else may mean either. Operator calls are bounded.
`cancel_approved_action` and `supersede` are repository operations that the
application does not call yet; they are modelled as the human's. Reviews that
are not about proposals are not modelled.

*TaskWorkspace.* An optimistic revision check acts on the present row or does
nothing. Active seconds and capability calls may run out at any time; model
decisions are counted. A worker that dies restarts at once: the effect is the
same, since it holds nothing in between. The reads at the top of the loop
(heartbeat, job, task) are one step; the re-read before a budget pause is
merged with its transition. Exceptions come from the model, the tools and a
lost lease. What tools do, their receipts, plans, learned preferences and
skills are left out. So is the cut of a long history in `_model_messages`: it
drops the oldest messages, so "all messages" of `DecidesOnAllMessages` is up to
the newest that the context budget admits.

*Documents.* A worker claims one job at a time. `complete_job` followed by
`acknowledge_cancel`, and `defer_job` followed by it, are one step each. All
dead letters are shown before processing jobs are claimed. The archive and the
parser answer as they like; a failed check of the downloaded bytes is an
exception. `needs_review` stands for every result that is not good enough.
Uploads are new ones: a duplicate returns the existing row. Left out:
uploads of a media type without a configured route, the limit of 100 rows per
reconciliation, tool-requested reprocessing and its payload recovery, scanner
folders and the reconciliation of their origins, waiting for the archive's text,
enrichment, corrections, completion notices.

*Tickets.* One worker, one job at a time, which is the batch of one that
`docs/action-ticket-verification.md:30` prescribes. The default of the code is
five (`app/config.py:769`, `.env.example:169`): the jobs of a batch are then worked
off one after the other, and the leases of the later ones may run out before
their turn, which is not modelled. Failing the run of a refused review and
reopening its ticket are one step, and so are what a review reads and the
record of its run; `run_once` yielding to recent live input is left out. The
lease of a job outlasts the work on it (it is the model timeout plus a minute),
so it runs out only after a crash. A review is due an hour after it is scheduled, later than
the watchdogs that exist by then and the statements in progress (`ReviewDue`);
this is the one assumption on durations. A revision is the set of receipts it
was computed from. Left out: the mirror in Plane with its outbox, the
operator's routes, the repair of receipts written by earlier releases.

*Accelerator.* Each repository method holds the file's lock and is one step. A
thread outlives the coroutine that awaits it. Patient requests are those whose
`wait_seconds` outlast the leases in front of them. Model servers answer, fail
or go on for a while. Timestamps are unique, so `line` is a total order.

*Environment.* SQLite gives each transaction as one step; a failing commit is
an exception before it.

## Not modelled

* **Task effects** (`tasks/capabilities.py`): reservations and receipts of tool
  calls. `finish_effect` writes whatever it finds, so the only thing that
  protects a receipt is that one run at a time calls tools, which the lease
  does not give (see `OneWorkerOwnsTask`); there is no promise left to check.
* **Durable writes**: the exchange store is an insert keyed by an operation id;
  repetition after a lost lease is harmless by that key, a data check. The jobs
  are the tokenless ones of `DurableJobs`.
* **Email operations and spam worker**: operations with leases of their own
  around calls to Gmail. Most of the code is rules on message data; what the
  rest of the system sees of it is the outcome of a child (`ChildEnds`).
* **Pending interactions**: one record in the session, replaced as a whole by
  the turns of that session, one after the other; how turns overlap is
  `TurnService`'s subject.
* **Plane mirror, job enqueue IPC, model compute and document notices**: jobs
  with an idempotency key and fenced settlement; every ledger operation they use
  is in `DurableJobs`, the rest is HTTP.
* **Task code runner**: launching containers and a request/response broker over
  pipes.
* **Router, tool loop, prompts, language models**: sequential computations whose
  answers are nondeterministic where a module needs one.
* **Authorization rules, household skills, Discord bot, Google and document
  clients, database layer, HTTP API and UI, deployment**: no concurrency of
  their own, or input and output only.
