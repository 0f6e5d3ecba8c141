# Verification of the contract pipeline

TLA+ models of the back end of contract-intelligence-core and of its AI2 job store, their TLC runs,
and proofs of their main invariants. Paths below are relative to
`backend/src/contract_intelligence/` unless they start with `ai-service/`.

A user uploads a dossier (a contract and its annexes). The orchestrator (`worker.py`) has every
document read by the OCR service AI1 over Kafka, hands the complete OCR to the extraction service
AI2 over HTTP, persists its facts and findings, and puts the dossier up for human review. Reviewers
close its items, an administrator approves it, and an owner may delete it. Users may restart, retry,
reprocess or cancel at any moment, workers may crash, and Kafka may deliver twice.

## Inventory

| Component | State | Operations | Interacts by |
|---|---|---|---|
| Orchestrator, `worker.py` | `job` (status, current run, error), `dossier.status`, `pipeline_run` rows and the OCR recorded on them; in memory, one hand-off task per run | two event handlers, watchdog, start-up scan, hand-off to AI2 | `dossier_events` and AI1 topics, rows shared with the API, HTTP to AI2 |
| Record delivery, `worker.py` and `shared/processed_events.py` | committed offsets, `processed_event`, dead-letter topic | fetch, retry, mark, park, commit | Kafka consumer group |
| Runs API, `extraction_service.py`, `contract_router.py` | the same rows | trigger, reprocess, restart, retry-failed, ai2/retry, cancel, manifest confirm | transaction, then `dossier_events` |
| Review and approval, `review/` | `review_item` with versions, `dossier.is_approved` | actions, lock, approve | `advance_dossier_status` moves dossier and job |
| AI1 worker, `ai-service/src/contract_ocr` | answered commands, in memory | OCR, upload, publish | Kafka |
| AI2 jobs, `ai-service/app/tools/jobs.py`, `api/main.py` | job table with leases and tokens, query snapshot; in memory, executors and the jobs held | submit, claim, progress, complete, kill, sweep | HTTP and its own database |
| Upload sessions, `upload_session_store.py` and its router | session and chunk rows, chunk objects | open, chunk, complete, cancel, sweep | conditional UPDATEs, an advisory lock per user |
| Deletion and purge, `dossier_deletion_service.py`, `ai-service/app/tools/dossier_deletion.py` | tombstone, purge status and evidence, on both sides | tombstone, purge, sweep | rows, storage, AI2 |
| Manifest | manifest row and its items | confirm with a version check | event to the worker |

What is hard: every handler commits in several transactions and publishes between them; some
transactions lock the job row and some read it unlocked; a hand-off lives for minutes on a session
that keeps the rows it first read; Kafka repeats records and moves partitions; deadlines race late
answers; runs are superseded while their answers are under way. `PROJECT.json` lists these hazards
line by line.

What makes each correct: the orchestrator never persists a result without the whole OCR, or for a
run that was superseded, and leaves no dossier stuck; delivery loses and reorders nothing; review
shows the current run's result, and approval is of a complete review; an AI2 job is answered by the
holder of its lease only; an upload session completes once, with all its chunks; a purge of
AI2 leaves nothing behind, and nothing writes after it; what the back end's leaves behind, or lets in
afterwards, is accounted for.

## Modules

    JobLifecycle                 what the pipeline promises of a job (abstract)
    DossierPipeline              worker, API, AI1 and AI2 around one dossier
      DossierPipelineTypes       type correctness, proved
        DossierPipelineProofs    safety under every race, proved
          DossierLifecycleProofs what needs the absence of races, and the refinement, proved
            MCDossierPipeline    small instances for TLC
    RecordDelivery               consumers of one topic, on any log
      RecordDeliveryProofs       at-least-once and ordered delivery, proved
      MCRecordDelivery           small instance for TLC
    UploadSessions               one user's chunked uploads, before there is a dossier
      UploadSessionsProofs       one dossier per session, of the last chunks, proved
        UploadStoreProofs        rows and objects, the cap on sessions, proved
      MCUploadSessions           small instance for TLC
    Ai2JobStore                  AI2's jobs, executors and purge, on its own database
      Ai2JobStoreProofs          the safety of jobs, snapshot and purge, proved
      MCAi2JobStore              small instance for TLC
    DossierRecord                review, approval and deletion of one dossier
      DossierRecordProofs        their safety, proved
      MCDossierRecord            small instance for TLC

**DossierPipeline** keeps one dossier: `job`, `dossier`, `runs`, `manifest` are database rows,
`events` and `results` the Kafka records not acknowledged yet, `ocr` what AI1 was asked, `hand`,
`acks` and `task` the memory of each worker process, `pending` the unlocked transactions,
`dispatch` runs the API committed and has not published. One action is one transaction, publication
or offset commit:

| Actions | Code |
|---|---|
| `IgnoreStart`, `ResumeRun`, `OpenRun` | `_mark_processing` and its commit in `handle_dossier_uploaded` |
| `PublishCommands`, `CompleteCarriedRun`, `CommitCarried` | the rest of `handle_dossier_uploaded`, `_complete_carried_run` |
| `HandleAi2Retry`, `CommitReopen`, `HandleManifestConfirmed` | `handle_dossier_event`, `_reopen_for_ai2_retry` |
| `HandlerFails`, `DeadLetter`, `AckEvent`, `AckResult` | `_handle_with_retry`, `_dead_letter`, `_process_record` |
| `DropAi1Result`, `FailAi1Run`, `DuplicateAi1Result`, `RecordAi1Result` | the outcomes of `handle_ai1_result` |
| `Ai1Overdue`, `CommitTimeout` | `fail_overdue_ai1_runs` |
| `TaskStart` ... `TaskDone`, `TaskDies` | `_ai2_hand_off`, `_run_ai2_if_ready`, `_finalize_ai2_success`, `_fail_ai2_run`, `_ai2_task_done` |
| `Crash`, `Start` | `run_consumer`, `_resume_pending_ai2` |
| `Trigger`, `CommitTrigger`, `Reprocess`, `DispatchRun`, `DispatchFails`, `ApiDies` | `ExtractionService.trigger_pipeline_run`, `reprocess_dossier` |
| `Restart`, `RetryFailed`, `Ai2Retry`, `ConfirmManifest` | `contract_router.py` |
| `Cancel`, `CommitCancel` | `cancel_pipeline_run`, `PipelineRunRepository.cancel` |
| `CloseLastReviewItem`, `Approve` | `submit_action`, `approve_dossier`, `advance_dossier_status` |
| `Ai1Answers`, `Ai1Garbles` | `ai-service/.../kafka_worker.py` |

Three decisions shape it.

- *Locks.* `_mark_processing`, `create_reprocess`, the AI1 result handler and
  `_finalize_ai2_success` select the job FOR UPDATE: each is one action. The watchdog, the AI2 retry,
  the carried run, the cancel and the trigger read without a lock and UPDATE by key: they are in
  `pending` in between, and their UPDATE is unconditional. `Racing` names the kinds of those that
  others may overtake in a run; `{}` makes them all atomic.
- *Cached rows.* SQLAlchemy's identity map, with `expire_on_commit=False`, gives a hand-off the job
  row it loaded at its start even on a locked SELECT (only the `WHERE current_run_id = ...` is
  evaluated by the database). `task[w][r].cached` says whether that cache still stands; a rollback
  expires it (`TaskForgets`, `TaskFails`).
- *Task slots.* `_schedule_ai2` does nothing while the run's task is not done, and a task that has
  decided to end is still not done (`closing`).

**RecordDelivery** takes a topic apart that `DossierPipeline` treats as a set: partitions, offsets,
the `processed_event` marker, attempts, the dead-letter topic, crashes and partition moves. In
`DossierPipeline` the marker and the offset are one commit (`AckEvent`): a record that comes again
after the marker is skipped, which `NothingLost` and `InOrder` of `RecordDelivery` justify. Kafka's
assignment is external; a commit for a partition the worker has lost raises, and ends the worker.

**JobLifecycle** is the abstract specification: status, current run, runs used, runs with a result.
`FollowsLifecycle` checks that `DossierPipeline` implements it (`INSTANCE ... WITH`): forward only
along a run, the result arriving with the step into review and once per run, AI2 repeated on the
same OCR only from `failed`, a job taken back by a new run only.

**UploadSessions** has the requests of several API processes against the sessions of one user. A
request is a little program (`request[r].at`) with the rows it has read in local variables; every
step ends at a commit or at an access to MinIO, because only there can others come between.

| Actions | Code |
|---|---|
| `OpenCount`, `OpenCommit` | `create_upload_session` under `lock_owner`, with its eviction |
| `PutStore`, `PutSave` | `put_upload_chunk`: the object first, then `touch_open` and `save_chunk` |
| `CompleteRead`, `Claim`, `ReadChunks`, `Join`, `Finish`, `FailBuilding` | `complete_upload_session` |
| `Cancel`, `DeleteObjects` | `cancel_upload_session`, `delete_objects_quietly` |
| `SweepSelect`, `SweepDelete`, `SweepObjects` | `sweep_expired_sessions`, `run_expired_session_sweep` |
| `Tick`, `Pass` | time since `updated_at` and since `created_at`, by the limits the code compares with |
| `Crash`, `CrashSweep` | a process ends, its transaction is rolled back |

A chunk object is named by the number of its send, since `chunk_key` is new for every send.
`Slow` says whether building a dossier may outlast `COMPLETING_STALE_AFTER` (10 minutes, for an
answer due in 100 seconds). It is FALSE in the run and in the theorems: with it a second request
may claim a session that is still being built and, since `finish` updates the row by its key, each
commits a dossier. Nothing in the code but that limit prevents it.

**Ai2JobStore** is the PostgreSQL store with `AI2_JOB_ISOLATION=process`, the deployed
configuration. A job's row is `status`, `token`, `lapsed` (its lease), `born` (creation order); an
executor is a background task with its child process, and an orphan a child whose parent was
killed. The token is the number of the claim, which a uuid stands for in the code.

| Actions | Code |
|---|---|
| `Submit`, `Start`, `SpawnFails` | `create_or_get`, `_run_wire_job`, `_run_isolated_job` |
| `Claim`, `Report`, `Progress`, `WriteVectors`, `Complete`, `FailRun` | `_execute_wire_job`, `set_wire`, `complete_with_snapshot`, `fail_unclaimed` |
| `Kill`, `RecordKilled`, `Restart` | `_run_isolated_job`, a new API process |
| `Lapse`, `SweepHold`, `SweepFail` | leases, `_sweep_stale_jobs` |
| `Erase`, `RemoveFiles`, `RecordPurge` | `purge_dossier`, `retry_pending_purges` |

`Fenced` is the trigger `guard_dossier_write` of migration 0009: it refuses every later write of a
dossier with a tombstone, and is why `FinishedStays` allows "gone" and nothing else.

**DossierRecord** takes up where `DossierPipeline` has one action for "the last item is closed" and
one for "approve". The row locks decide who may overtake whom, so they are the model: a transaction
that holds locks while others run is two steps, the first once it has its locks and has read, the
second its commit (`Submit`/`CommitReview`, `Approve`/`CommitApproval`, `StartPurge`/...).
`DossierFree`, `JobFree` and `ItemFree` say that the dossier, job or item row is not locked by
another; a transaction the database aborts leaves no trace. The pipeline is six steps here
(`AskRun`, `OpenRun`, `RecordOcr`, `Extract`, `FailRun`, `Finalize`): its own interleavings are in
`DossierPipeline`. Facts get their items when the result is persisted; the item of a clause is
created by the first review of it, for the run its form was opened on (`forms`, `RunsOf`).

Deletion is a tombstone and then a purge, in one transaction over the rows, the object storage and
AI2. Objects are deleted while it is open and do not come back when it is rolled back; a deletion that
fails is logged and counted (`DeleteObjects`, `purge.missed` for `blobs_deleted < blob_count`), the rows
that name the object are cleared all the same, and a purge repeated for AI2 does not try it again. The
purge's UPDATEs of the job and its runs keep the worker out until it commits (`Erasing`). Nothing keeps
it out afterwards: `_cancel_active_jobs` leaves `extracted` and `failed` jobs alone, so the hand-off
still persists its result (`Finalize`), a late OCR result is still kept (`KeepLateOcr`), and AI1 may
still use its upload URLs (`Ai1Uploads`; an upload during a purge is one before its deletions or after
its commit). `late` remembers which of the three came after the backend's content was erased, and
`PurgeRecordIsTrue` allows each kind of content only what its own late arrival brings.

How they fit: an upload ends in `stage_new_dossier`, the first `dossier.uploaded` of
`DossierPipeline`; a hand-off there polls one job of `Ai2JobStore`, whose end (`EveryJobEnds`) or the
hand-off's own deadline ends the wait; its result is `Finalize` of `DossierRecord`; and the
AI2 side of a purge there is `Erase` ... `RecordPurge` of `Ai2JobStore`, which may be asked again.

## Runs

| Run | Instance | Shows |
|---|---|---|
| `pipeline_core` | 1 worker, 2 documents, 2 runs, manifest confirmation, every restart, retry, reprocess and review request, no fault | the invariants and the inductive `LifecycleIntegrity`, `NoLateAttemptPersisted`, refinement of `JobLifecycle` |
| `pipeline_races` | 2 workers, cancel and timeout overtaken by others, a dying hand-off | what lost updates cannot break; the inductive invariant |
| `pipeline_live` | fairness, 1 document, 1 crash, failing handler, lost publication or garbled result | nothing waits for ever; no result and no `extracted` job without the OCR; superseded runs gain nothing |
| `delivery` | 2 workers, 2 partitions, 2 attempts, 2 crashes or moves | nothing lost or reordered, everything settled |
| `uploads` | 2 sessions under a cap of 1, 2 requests at once, 2 sends, 1 crash | one dossier per session, of the last sends; no row without object; the cap; every session ends |
| `ai2_jobs` | 2 jobs of a dossier, 2 executors, 1 slot, 3 submissions, 1 restart or failure, a purge | ended jobs stay ended, the last claim answers, snapshot of the latest job, nothing after a purge, every job ends |
| `record` | 2 facts and 1 clause, 2 reviewers, 2 runs, 2 actions, 1 fault | the last close moves the dossier, no action is lost or lands on a sealed dossier, approval and purge records are true, deletions complete |
| `cancel_overwritten` | a cancel, no fault | finding 1 |
| `restart_uncommanded` | one failing handler | finding 2 |
| `extracted_stuck` | a manifest confirmation, no fault | finding 3 |
| `stranded_items` | 2 facts, 2 runs, no fault needed | finding 4 |
| `late_output` | 1 fact, 1 run, no fault | finding 5 |

Bounds. Two documents tell "all" from "any" (one is enough where only run and job matter); two runs
are a current one and a superseded or a base one, which is all that a transition ever reads;
`MaxPending = 1` lets one unlocked transaction be overtaken by any number of locked ones;
`MaxAttempts = 2` lets a late AI2 attempt meet its successor; `MaxFaults` bounds faults only. Users
stop asking when no run id is left. In `uploads`, two sessions and two requests let an eviction meet a
send, a completion its repetition or its takeover, and a cap of one is already exceeded by two; a
second send of a slot is what a replaced chunk needs. In `ai2_jobs`, two executors are the first one
given up and its successor, or two submissions of one job, and one slot makes a job wait. In `record`,
two reviewers close the last two items with one action each, and two runs are the current and the
superseded one. A hand-off that dies (`TaskDies`) is in `pipeline_races` only: nothing but a restart of
the worker finds its job again, so `ExtractedIsHandedOff` does not hold with it.
`CHECK_DEADLOCK FALSE` is set because a dossier that has been reviewed, or has failed with no request
left, a session that is gone and a job that ended rightly stop.

Fairness. Weak fairness on each loop of a worker (event consumer, result consumer, watchdog), on each
hand-off (its poll has a deadline), on restarting a dead worker, on the commit of a transaction in
progress, and on the publication that follows a commit in the API. None on AI1, on users or on
faults: `ProcessingEnds` holds because of the watchdog, not because AI1 answers. The consumer takes
records one at a time in the order of their partition, so each record is reached. `QueuedRunStarts`
is about a run whose `dossier.uploaded` was published; the process that commits a run and dies before
it publishes leaves a run that stays queued (`ApiDies`, in `pipeline_live`).
In `uploads`: on the steps of a request once accepted, the maintenance loop and time; not on clients,
so a session that nobody completes ends by the sweep. In `ai2_jobs`: on executors (a child that hangs
is killed at its deadline, so `Runs` has `Kill`), leases running out, the sweep of every second and the
purges it resumes. In `record`: on commits and on the purge taken up by the maintenance loop; not on
reviewers, the administrator or the worker.

Expected to hold only under the stated instance: `FailedJobHasEndedRun` and `ActiveRunIsCurrent`
without races (a timeout overtaken by a restart leaves a live run under a failed job);
`NoLateAttemptPersisted` with one worker; `DossierMirrorsJob` everywhere.

## Findings

1. `cancel_overwritten`. A cancel committed while AI2 is polled is not seen by
   `_finalize_ai2_success`, whose locked SELECT returns the cached row: the result is persisted and
   the cancelled dossier goes to review. The docstrings of the cancel and of the finalisation say the
   opposite.
2. `restart_uncommanded`. When an OCR command cannot be published after `_mark_processing` of a
   restart was committed, the retry of the handler takes the event for a duplicate: the new run is
   never commanded, and waits for the watchdog.
3. `extracted_stuck`. A hand-off requested while the previous task of the run is ending is dropped:
   a manifest confirmed in that window leaves the dossier `extracted` until the worker restarts.
4. `stranded_items`. A dossier in review that is run again keeps the open items of its first run.
   `submit_action` refuses every action on them (their run is not the job's), while `count_open` counts
   them for the move to reviewed and for approval: the dossier stays in review for good. The
   documented lifecycle allows the new run and expects the review to be able to end.
5. `late_output`. A dossier is deleted while its job is `extracted`. The deletion stops jobs in
   `uploaded` or `processing` only, and the hand-off does not look at `deleted_at`: after the purge has
   completed it persists the facts and findings it had fetched, and no later purge looks at that
   dossier. `docs/ai2/AI2-01-business-policy-perspective.vi.md:94` says that the job stops and that late
   output is not published.

## Proofs

All theorems are about `Spec` for every value of the constants that satisfies the named assumptions
(finite sets of documents and workers, distinct null values): any number of documents, runs, workers,
sessions, chunks, jobs, items and reviewers. Every safety invariant and action property of a passing
run, the refinement of `JobLifecycle` included, is stated by a theorem. Where one needs more of the
constants (`~Slow`, one worker, no race), the theorem says so itself, and the paragraph below says
what happens without it.

*DossierPipelineTypes.* `TypeCorrect`: `[]TypeOK`, one lemma per group of actions.

*DossierPipelineProofs.* `IntegrityHolds`: `[]RunIntegrity`. `ResultNeedsWholeOcr` is not inductive:
a hand-off persists its result minutes after it looked at the documents. `RunIntegrity` adds that a
task past its start belongs to a run with the whole OCR (`EngagedIsWhole`; a run's OCR only grows),
that an id not used yet is blank (`FreshIsBlank`), that the current run exists
(`CurrentRunExists`), and that a job in review has a result (`ReviewedRunHasResult`). Each action is
either *quiet* (it touches neither the OCR and results of runs nor the hand-offs that go on) or
*telling*, and only the telling ones are proved one by one. From it follow `ResultsNeedWholeOcr`,
`ReviewsHaveResults` and `OnlyTheCurrentRunGains`. `MirrorHolds` is inductive given the types.
None of them assumes that transactions are not overtaken: they survive every lost update the model
has.

*DossierLifecycleProofs* has what does not survive them all. A step is the end of an unlocked
transaction (`Commit`), one of the dozen that write the job or a run (`Acting`), or one of those that
only move records, commands and tasks (`Bystander`); the proofs go through the first two kinds, one
step per action.

| Theorem | Conditions | Without them |
|---|---|---|
| `ExtractedIsComplete`: `ExtractedMeansComplete` | no racing `reopen`, `carried` or `trigger` | TLC finds a counterexample for each of the three: the job is marked extracted on a run that was created meanwhile |
| `NoLateAttempt`: `NoLateAttemptPersisted` | one worker; any race, request, fault | a second worker retries AI2 while the first still polls the older attempt |
| `LifecycleIntegrityHolds`, `FailedJobsHaveEndedRuns`, `FailedJobsTakeNoResult`, `JobFollowsLifecycle` | `Undisputed`: one worker, no race, no `cancel`, no `garble` | a cancel is overwritten by the hand-off (run `cancel_overwritten`) and leaves a run active under a failed job, as do a second worker and a racing timeout; a stored OCR result that is lost or overwritten (`garble`) fails the job behind a hand-off that goes on, and the failed job then goes to review |
| `OneActiveRun`: `ActiveRunIsCurrent` | `Undisputed`, no `dispatch` fault | a run that another event has already started is closed because its own publication fails; its hand-off opens it again behind the next run |
| `OpenedRunsAreCommanded`: `OpenedRunIsCommanded` | one worker, no `handler` fault, no `crash` | runs `restart_uncommanded`, and the same trace with a crash for the failure; with two workers an event that is dropped is acknowledged while the other worker still publishes |

The code grants none of these conditions: several workers may serve one dossier, and the rows of an
unlocked transaction are free between its reads and its commit. What the theorems say is where the
properties can break: nowhere but in the interleavings that the conditions exclude.
The inductive invariants:

- `Grounded` (a job that left `uploaded` has a run, and so has a handler about to command OCR),
  `Alone` (of the transactions that may not be overtaken there is one at a time), `HandHeld` (a
  handler's open transaction keeps its worker's hand) and `NotCommanded` (no command, result or
  handler is about a run nobody has started) hold without conditions.
- `HeldIsWhole` and `DecidedHolds` say that what a transaction has read is still so when it commits:
  this is what a race destroys.
- `EngagedIsLatest` says that a hand-off works on the latest attempt of its run, and that the run it
  works on is not one a user may retry: the failure that allows a retry ends the only hand-off.
- `Agreed` ties the hand-off to the job: a hand-off of the current run means the job is extracted
  and the run has no result (`EngagedIsExtracted`), a result means the job is in review
  (`NoResultYet`), a failed job's run has ended. None of the three is inductive without the others.
- `Consistent` says that AI1 does not reject what it has read; without it an answer
  to a repeated command fails an extracted job with its hand-off under way.
- `ProcessingIsCommanded` says that the documents a run in processing lacks are commanded, or a
  handler is about to.

`JobFollowsLifecycle` maps a job to its status, run, the runs that exist and those that have a
result. Every `Commit` and every `Acting` step is shown to be the corresponding action of
`JobLifecycle` or a stutter (`CommitFollows`, `ActingFollows`); the guards of its actions, which say
that a job fails only before it has a result and goes back only to a new run, come from
`LifecycleIntegrity`.

*RecordDeliveryProofs.* `IntegrityHolds`: `[]DeliveryIntegrity`. An offset says nothing by itself
of what was handled, so the invariant says that what the owner of a partition has fetched is settled
or in its hand, that everything ahead of a record in hand is settled, and that a marker stands for a
handler that ran. It gives `DeliveryIsAtLeastOnce` (`NothingLost`) and `HandledInOrder` (`InOrder`),
for any log.

*UploadSessionsProofs.* `SessionIntegrityHolds`, under `~Slow`: a completing session may be claimed
again by its condition alone, so `OneDossier` needs that no request still builds it. `Held` and
`Alone` say that a request past its claim is the only one of a session that has not been idle for
long; `Once` that what was built is not open any more; `RowsAreAcked` and `JoinsAcked` that the rows
of a session that may still be completed are the acknowledged sends, and those the builder has read.
It gives `OneDossierHolds` and `DossierIsLastSentHolds`.

*UploadStoreProofs*, with no condition. `StoreIntegrityHolds`: objects are deleted after the commit
that drops their rows, by a request or a sweep that remembers which, so `RowsHaveObjects` is inductive
only with the account of who may still mention an object: it is in one row at most (`RowsOwn`), or is
a send whose row is yet to be written (`SavesOwn`), or waits to be deleted (`DoomedUnused`,
`SweptUnused`), and a key is never given twice (`Numbered`). The cap is checked by counting and kept by
the advisory lock on the user: `OneOpener` says that whoever holds it has counted at least the
sessions that are open when it adds its own. They give `RowsHaveObjectsHolds` and `CapHoldsAlways`.

*Ai2JobStoreProofs.* `JobIntegrityHolds`: the conditions of the UPDATEs compare tokens, so `Tokens`
says what a token means: the row has one exactly while it runs, and it is that of the last claim.
`Purging` ties a purge in progress to its tombstone. It gives `FinishedStaysHolds`,
`AnswerOfLastClaimHolds`, `SnapshotIsLatestHolds` and `NothingAfterPurgeHolds`, for any number of
jobs, dossiers, executors, orphans and purges.

*DossierRecordProofs.* `RecordIntegrityHolds`: a review action, an approval and a purge never overlap
(`Exclusive`), so what each has read of the items still holds when it commits (`LastIsKnown`,
`ClosedForApproval`); POST /runs takes none of these locks, but no row or form is of a run the job has
not reached (`NothingAhead`). `FactsAreFinal` says that the items of facts exist only from the end of
their run, which is why `Finalize` cannot reopen a closed item; `ReadStands` that the version an action
has read is still the latest when it commits. `PurgeIsTrue` follows each kind of content through a
deletion: from the deletion of the objects on, one still stored is counted as missed; from the commit
on, whatever is there was missed or came late, by the entry of `late` for its kind (`LateKnown`,
`PurgeStaysTrue`); AI2, once it has erased the dossier, takes nothing of it again. They give
`ApprovedIsClosedHolds`, `PurgeRecordIsTrueHolds`, `SealedStaysHolds`, `NoActionLostHolds` and
`LastCloseMovesHolds`, for any facts, clauses, reviewers and runs.

Only model-checked: all liveness (`AllSettled`, `ProcessingEnds`, `EventsDrain`, `ExtractedIsHandedOff`,
`QueuedRunStarts`, `EverySessionEnds`, `EveryJobEnds`, `DeletionCompletes`: fairness and ENABLED are out
of the prover's reach), and what the violation runs refute. Where two of those refuted properties,
`FailedJobTakesNoResult` and `OpenedRunIsCommanded`, are proved under conditions, the conditions name
the cause: the cancel, and the failure after the commit.

## Not modelled

In `DossierPipeline`: step and progress rows, audit rows and page counts (advisory); AI1's progress
reports (in `RecordDelivery`, where they matter); the reindex of a reviewed dossier; deletion, hence
the job status `cancelled` (in `DossierRecord`); the append-only database path that skips the evidence
rows of a repeated OCR; the legacy OFF pin of the semantic profile; a manifest whose shape AI2 cannot
take; two triggers at once (one API process); the job row a handler keeps from its first commit when it
finds no document missing (`worker.py:1266`): `Complete` tests the current one, so a cancel overwritten
there is left out; a repeated reprocess request; two identical records outstanding at once; row-lock
deadlocks, which abort one transaction and are then a failed attempt. OCR and AI2 themselves are a
choice of outcomes.

In `UploadSessions`: a commit whose outcome is unknown, after which `complete_upload_session` deletes
the PDFs of a dossier that may exist; a build slower than `COMPLETING_STALE_AFTER`; digests and sizes
of the bytes; the integrity error of two sends of a chunk, which the upsert of PostgreSQL does not
raise. The sweep deletes by id what it selected, also a session that was claimed between its SELECT and
its DELETE: the model has that step (`SweepDelete`), and `FailBuilding` what follows.

In `Ai2JobStore`: the SQLite store and thread isolation of the tests, where a hung job keeps its slot;
nonces and processing traces; durable runs (`tools/durable.py`), which no route uses; the edges and
pairs of the contract graph, which follow the snapshot in its transaction; what an executor meets
after its own completion, when its token is gone and its writes change nothing.

In `DossierRecord`: `create_reprocess` and several POST /runs at once; the blobs one by one (one that
is still stored stands for any number); ledgers from before AI2's evidence was kept; external
approvals; the reviews of findings, which take the path of clauses; a clause item without a run, of a
dossier older than the runs. The run of a clause item is the one of the form here; the code reads it
when the action is posted, which is among them. Approval reads the job without a lock, so a run opened
meanwhile is overwritten by `approved` (the model has it); an approved dossier that is run again can
never be approved again, because `is_approved` is not reset.

The components marked `not_modelled` in `PROJECT.json` say why they are left out. Most of the
repository's code is language-model prompting and extraction, OCR, document parsing, evaluation
scripts, data transfer objects, adapters and the web interface: what it computes is data here, a choice
among outcomes, and no operation of it changes the state these models keep. The map therefore names a
small share of the repository's lines; it names nearly all that decide the order of things.

## What could follow

1. The theorems of *DossierLifecycleProofs* under weaker conditions: `Undisputed` excludes a second
   worker altogether, where it may be enough that no run has two hand-offs at once.
2. Violation runs for the hazards that are listed without a property: a timeout overtaken by a
   restart (`worker.py:803`), an approved job put back to `uploaded`
   (`extraction/infrastructure/persistence/repository_impl.py:137`), a run set back to running
   (`worker.py:1430`).
3. The versions of the manifest, and the publication of tenant lexicons, as modules of their own.
