--------------------------- MODULE DossierPipeline ---------------------------
(***************************************************************************)
(* The pipeline of one dossier, as backend/.../worker.py runs it: upload,  *)
(* OCR of every document by AI1, hand-off of the whole OCR to AI2, human   *)
(* review.  The state is what the database, the two Kafka topics and the   *)
(* memory of the worker processes hold.  Every action is one database      *)
(* transaction (or one publication, or one offset commit) of one actor:    *)
(* a worker's event consumer, its result consumer, its watchdog, one of    *)
(* its background AI2 hand-offs, or an API request.                        *)
(*                                                                         *)
(* A transaction that locks the job row (SELECT ... FOR UPDATE) is one     *)
(* action.  One that reads the job unlocked and writes it later is two: it *)
(* is in `pending' between its SELECT and its UPDATE, and what the others  *)
(* commit meanwhile is overwritten.                                        *)
(***************************************************************************)
EXTENDS Naturals, FiniteSets

CONSTANTS
  Docs,        \* the documents of the dossier
  Runs,        \* run ids; the bound on the number of pipeline_run rows
  NoRun,       \* job.current_run_id IS NULL
  Workers,     \* worker processes
  Api,         \* the API process
  Requests,    \* the user requests that may be made
  Racing,      \* kinds of unlocked transactions that others may overtake
  Faults,      \* kinds of faults that may happen
  MaxPending,  \* bound on the unlocked transactions in progress at once
  MaxFaults,   \* bound on the number of faults
  MaxAttempts  \* bound on the AI2 attempt a user still retries

RequestKinds == {"trigger", "reprocess", "restart", "retry_failed", "ai2_retry",
                 "cancel", "confirm_manifest", "review"}
PendingKinds == {"timeout", "reopen", "carried", "cancel", "trigger"}
FaultKinds == {"crash", "handler", "dispatch", "task", "garble"}

ASSUME DocsAssumption == IsFiniteSet(Docs) /\ Docs # {}
ASSUME RunsAssumption == IsFiniteSet(Runs) /\ NoRun \notin Runs
ASSUME WorkersAssumption == IsFiniteSet(Workers) /\ Api \notin Workers
ASSUME SwitchesAssumption ==
  Requests \subseteq RequestKinds /\ Racing \subseteq PendingKinds /\ Faults \subseteq FaultKinds
ASSUME BoundsAssumption == {MaxPending, MaxFaults, MaxAttempts} \subseteq Nat

VARIABLES
  job,       \* the dossier's latest job row: status, current_run_id, error class
  dossier,   \* the dossier row: status (what approval reads), is_approved
  runs,      \* pipeline_run rows: status, documents with a recorded OCR result,
             \* AI2 attempt, attempt whose AI2 result is persisted (0: none), base run
  manifest,  \* manifest.status = "confirmed"
  events,    \* dossier_events records not acknowledged yet
  ocr,       \* OCR command of a run's document at AI1: none, sent, answered
  results,   \* AI1 result records not acknowledged yet
  hand,      \* per worker: the dossier_events record in hand
  acks,      \* per worker: the result record handled and not acknowledged yet
  task,      \* per worker and run: the background AI2 hand-off (_ai2_tasks)
  pending,   \* unlocked transactions between their SELECT and their UPDATE
  dispatch,  \* runs the API committed whose dossier.uploaded is not published yet
  faults     \* number of faults so far

vars == <<job, dossier, runs, manifest, events, ocr, results, hand, acks, task,
          pending, dispatch, faults>>
-----------------------------------------------------------------------------
JobStatuses == {"uploaded", "processing", "extracted", "pending_review",
                "reviewed", "approved", "failed"}
RunStatuses == {"absent", "queued", "running", "succeeded", "failed", "cancelled"}
(* Error codes, classed by what the guards tell apart: any OCR failure, the  *)
(* two of AI2_RETRYABLE_ERRORS, an AI2 refusal (BLOCKED), RUN_CANCELLED.     *)
Errors == {"none", "ai1", "ai2_retryable", "ai2_blocked", "cancelled"}
EventKinds == {"uploaded", "restart", "retry_failed", "ai2_retry", "confirmed"}
ResultKinds == {"completed", "rejected", "failed"}

Events == [kind : EventKinds, run : Runs \cup {NoRun}]
Results == [run : Runs, doc : Docs, kind : ResultKinds]
Jobs == [status : JobStatuses, run : Runs \cup {NoRun}, error : Errors]
RunRows == [status : RunStatuses, extracted : SUBSET Docs, attempt : Nat \ {0},
            result : Nat, base : Runs \cup {NoRun}]
Tasks == [pc : {"none", "waiting", "freezing", "polling", "closing"},
          attempt : Nat, cached : BOOLEAN, seen : Nat]
Hands == [pc : {"down", "idle", "retry", "dispatch", "write", "ack"},
          ev : Events, run : Runs \cup {NoRun}]
Pendings == [kind : PendingKinds, by : Workers \cup {Api}, run : Runs \cup {NoRun}]

UploadEvent == [kind |-> "uploaded", run |-> NoRun]
IdleHand == [pc |-> "idle", ev |-> UploadEvent, run |-> NoRun]
NoTask == [pc |-> "none", attempt |-> 0, cached |-> FALSE, seen |-> 0]
\* Mutant: AI2 attempts are numbered from 0.
NewRunFromZero(s, docs, b) ==
  [status |-> s, extracted |-> docs, attempt |-> 0, result |-> 0, base |-> b]

NewRun(s, docs, b) ==
  [status |-> s, extracted |-> docs, attempt |-> 1, result |-> 0, base |-> b]

AbsentRun == NewRun("absent", {}, NoRun)

Absent == {r \in Runs : runs[r].status = "absent"}
Active(r) == r # NoRun /\ runs[r].status \in {"queued", "running"}
AnyActive == \E r \in Runs : Active(r)
WorkerUp(w) == hand[w].pc # "down"

(* Forward-only chain of the pipeline; failed and the human-owned states are *)
(* final for the worker.                                                     *)
Rank == [uploaded |-> 0, processing |-> 1, extracted |-> 2, pending_review |-> 3]

TransitionAllowed(current, target) ==
  /\ current \in DOMAIN Rank
  /\ IF target = "failed" THEN Rank[current] < Rank["pending_review"]
                          ELSE Rank[target] >= Rank[current]

(* The job row and the dossier row move together.                            *)
Move(row) == /\ job' = row
             /\ dossier' = [dossier EXCEPT !.status = row.status]

\* Mutant: the dossier row is forgotten.
FailJobAlone(e) == job' = [job EXCEPT !.status = "failed", !.error = e] /\ UNCHANGED dossier

FailJob(e) == Move([job EXCEPT !.status = "failed", !.error = e])

(* _schedule_ai2: a run's slot is taken until its task is really over.       *)
Schedule(w, r) ==
  IF task[w][r].pc = "none" THEN [task EXCEPT ![w][r].pc = "waiting"] ELSE task

(* An unlocked transaction has read what it decides on.                      *)
Begin(kind, by, r) ==
  /\ Cardinality(pending) < MaxPending
  /\ pending' = pending \cup {[kind |-> kind, by |-> by, run |-> r]}

Hold(w, ev, pc, r) == hand' = [hand EXCEPT ![w] = [pc |-> pc, ev |-> ev, run |-> r]]

Init ==
  /\ job = [status |-> "uploaded", run |-> NoRun, error |-> "none"]
  /\ dossier = [status |-> "uploaded", approved |-> FALSE]
  /\ runs = [r \in Runs |-> AbsentRun]
  /\ manifest = ("confirm_manifest" \notin Requests)
  /\ events = {UploadEvent}
  /\ ocr = [r \in Runs |-> [d \in Docs |-> "none"]]
  /\ results = {}
  /\ hand = [w \in Workers |-> IdleHand]
  /\ acks = [w \in Workers |-> {}]
  /\ task = [w \in Workers |-> [r \in Runs |-> NoTask]]
  /\ pending = {}
  /\ dispatch = {}
  /\ faults = 0
-----------------------------------------------------------------------------
(* The dossier_events consumer.  A record stays in the topic until its       *)
(* offset is committed; events carry no Kafka key, so any worker may get any *)
(* of them, in any order.                                                    *)
Receives(w, ev) ==
  /\ ev \in events
  /\ \/ hand[w].pc = "idle"
     \/ hand[w].pc = "retry" /\ hand[w].ev = ev
  /\ \A v \in Workers \ {w} : hand[v].pc \in {"down", "idle"} \/ hand[v].ev # ev

Restarting(ev) == ev.kind \in {"restart", "retry_failed"}
StartsRun(ev) == ev.kind = "uploaded" \/ Restarting(ev)

\* Mutant: a queued run is not let in.
RefusedUnlessProcessing(ev) == ~Restarting(ev) /\ job.status # "processing"

(* _mark_processing: the requests it drops.                                  *)
Refused(ev) ==
  IF Restarting(ev) THEN job.run # ev.run \/ job.status = "approved"
                    ELSE job.status \notin {"uploaded", "processing"}

Resumes(ev) == ~Restarting(ev) /\ Active(job.run)

IgnoreStart(w, ev) ==
  /\ Receives(w, ev) /\ StartsRun(ev) /\ Refused(ev)
  /\ Hold(w, ev, "ack", NoRun)
  /\ UNCHANGED <<job, dossier, runs, manifest, events, ocr, results, acks, task,
                 pending, dispatch, faults>>

(* A queued reprocess run takes over the OCR of its base run when it starts. *)
Carried(r) ==
  IF runs[r].status = "queued" /\ runs[r].base # NoRun /\ runs[runs[r].base].extracted # {}
    THEN runs[runs[r].base].extracted
    ELSE runs[r].extracted

ResumeRun(w, ev) ==
  /\ Receives(w, ev) /\ StartsRun(ev) /\ ~Refused(ev) /\ Resumes(ev)
  /\ Move([job EXCEPT !.status = "processing", !.error = "none"])
  /\ runs' = [runs EXCEPT ![job.run].status = "running", ![job.run].extracted = Carried(job.run)]
  /\ Hold(w, ev, "dispatch", job.run)
  /\ UNCHANGED <<manifest, events, ocr, results, acks, task, pending, dispatch, faults>>

\* Mutant: the superseded run is not cancelled.
SupersededLeftRunning(old) == runs

(* The superseded run is cancelled if active, and this worker's hand-off of  *)
(* it forgotten; other workers keep theirs.                                  *)
Superseded(old) ==
  IF Active(old) THEN [runs EXCEPT ![old].status = "cancelled"] ELSE runs

Kept(ev) == IF ev.kind = "retry_failed" /\ job.run # NoRun THEN runs[job.run].extracted ELSE {}

OpenRun(w, ev, r) ==
  /\ Receives(w, ev) /\ StartsRun(ev) /\ ~Refused(ev) /\ ~Resumes(ev)
  /\ r \in Absent
  /\ runs' = [Superseded(job.run) EXCEPT ![r] = NewRun("running", Kept(ev), NoRun)]
  /\ task' = IF job.run = NoRun THEN task ELSE [task EXCEPT ![w][job.run] = NoTask]
  /\ Move([status |-> "processing", run |-> r, error |-> "none"])
  /\ Hold(w, ev, "dispatch", r)
  /\ UNCHANGED <<manifest, events, ocr, results, acks, pending, dispatch, faults>>

\* Mutant: results are looked up by dossier, not by run.
MissingEverywhere(r) == Docs \ UNION {runs[q].extracted : q \in Runs}

\* Mutant: any result makes the OCR whole.
MissingUnlessAny(r) == IF runs[r].extracted = {} THEN Docs ELSE {}

(* The rest of handle_dossier_uploaded, after the commit of the run.         *)
Missing(r) == Docs \ runs[r].extracted

CommandsSent(r, docs) ==
  ocr' = [ocr EXCEPT ![r] = [d \in Docs |-> IF d \in docs THEN "sent" ELSE ocr[r][d]]]

PublishCommands(w) ==
  /\ hand[w].pc = "dispatch"
  /\ Missing(hand[w].run) # {}
  /\ CommandsSent(hand[w].run, Missing(hand[w].run))
  /\ hand' = [hand EXCEPT ![w].pc = "ack", ![w].run = NoRun]
  /\ UNCHANGED <<job, dossier, runs, manifest, events, results, acks, task, pending,
                 dispatch, faults>>

(* A publication raises: the commands before it are out, the handler is      *)
(* retried from its start.                                                   *)
HandlerFails(w) ==
  /\ "handler" \in Faults /\ faults < MaxFaults
  /\ hand[w].pc = "dispatch"
  /\ \E docs \in SUBSET Missing(hand[w].run) : CommandsSent(hand[w].run, docs)
  /\ hand' = [hand EXCEPT ![w].pc = "retry", ![w].run = NoRun]
  /\ faults' = faults + 1
  /\ UNCHANGED <<job, dossier, runs, manifest, events, results, acks, task, pending, dispatch>>

(* The retries are used up: the record is parked on the dead-letter topic.   *)
DeadLetter(w) ==
  /\ hand[w].pc = "retry"
  /\ events' = events \ {hand[w].ev}
  /\ hand' = [hand EXCEPT ![w] = IdleHand]
  /\ UNCHANGED <<job, dossier, runs, manifest, ocr, results, acks, task, pending,
                 dispatch, faults>>

(* _complete_carried_run when nothing is left to OCR: the job is read        *)
(* unlocked; it is dropped when superseded.                                  *)
CompleteCarriedRun(w) ==
  LET r == hand[w].run IN
  /\ hand[w].pc = "dispatch" /\ Missing(r) = {}
  /\ IF job.run = r /\ TransitionAllowed(job.status, "extracted")
       THEN /\ Begin("carried", w, r)
            /\ hand' = [hand EXCEPT ![w].pc = "write"]
            /\ UNCHANGED task
       ELSE /\ task' = IF job.run = r THEN Schedule(w, r) ELSE task
            /\ hand' = [hand EXCEPT ![w].pc = "ack", ![w].run = NoRun]
            /\ UNCHANGED pending
  /\ UNCHANGED <<job, dossier, runs, manifest, events, ocr, results, acks, dispatch, faults>>

(* _reopen_for_ai2_retry, its reads: the one exception to forward-only.      *)
MayReopen(r) ==
  /\ job.run = r /\ job.status = "failed" /\ job.error = "ai2_retryable"
  /\ Docs \subseteq runs[r].extracted

HandleAi2Retry(w, ev) ==
  /\ Receives(w, ev) /\ ev.kind = "ai2_retry"
  /\ IF MayReopen(ev.run)
       THEN /\ Begin("reopen", w, ev.run)
            /\ Hold(w, ev, "write", ev.run)
       ELSE /\ Hold(w, ev, "ack", NoRun)
            /\ UNCHANGED pending
  /\ UNCHANGED <<job, dossier, runs, manifest, events, ocr, results, acks, task, dispatch, faults>>

HandleManifestConfirmed(w, ev) ==
  /\ Receives(w, ev) /\ ev.kind = "confirmed"
  /\ task' = IF job.run = NoRun THEN task ELSE Schedule(w, job.run)
  /\ Hold(w, ev, "ack", NoRun)
  /\ UNCHANGED <<job, dossier, runs, manifest, events, ocr, results, acks, pending,
                 dispatch, faults>>

\* Mutant: the offset is not committed.
AckEventUncommitted(w) ==
  /\ hand[w].pc = "ack"
  /\ hand' = [hand EXCEPT ![w] = IdleHand]
  /\ UNCHANGED <<job, dossier, runs, manifest, events, ocr, results, acks, task, pending,
                 dispatch, faults>>

(* The processed_event marker and the offset are committed after the         *)
(* handler's own transactions; a record redelivered after the marker is      *)
(* skipped, so the two commits are one step.                                 *)
AckEvent(w) ==
  /\ hand[w].pc = "ack"
  /\ events' = events \ {hand[w].ev}
  /\ hand' = [hand EXCEPT ![w] = IdleHand]
  /\ UNCHANGED <<job, dossier, runs, manifest, ocr, results, acks, task, pending,
                 dispatch, faults>>
-----------------------------------------------------------------------------
(* AI1 (external): an answer to a command, never, or - when its offset       *)
(* commit fails after it published the result - both a result and a failure. *)
(* It is consistent: it does not reject (no readable page) what it read, nor  *)
(* read what it has just rejected.                                           *)
Outstanding(d, k) == \E m \in results : m.doc = d /\ m.kind = k
Ai1Read(d) == Outstanding(d, "completed") \/ \E r \in Runs : d \in runs[r].extracted

Ai1Sends(r, d, kinds) ==
  /\ ocr[r][d] = "sent"
  /\ ocr' = [ocr EXCEPT ![r][d] = "answered"]
  /\ results' = results \cup {[run |-> r, doc |-> d, kind |-> k] : k \in kinds}
  /\ UNCHANGED <<job, dossier, runs, manifest, events, hand, acks, task, pending, dispatch>>

Ai1Answers(r, d) ==
  /\ \/ Ai1Sends(r, d, {"failed"})
     \/ /\ ~Outstanding(d, "rejected")
        /\ \E kinds \in {{"completed"}, {"completed", "failed"}} : Ai1Sends(r, d, kinds)
     \/ ~Ai1Read(d) /\ Ai1Sends(r, d, {"rejected"})
  /\ UNCHANGED faults

(* The stored result is not the one the message announces: a second OCR of   *)
(* the same document overwrote it, or the storage lost it.                   *)
Ai1Garbles(r, d) ==
  /\ "garble" \in Faults /\ faults < MaxFaults
  /\ Ai1Sends(r, d, {"rejected"})
  /\ faults' = faults + 1

(* The AI1 results consumer, under the job's row lock.  Records of one       *)
(* document share a key, so a failure follows the result it came after.      *)
ReceivesResult(w, m) ==
  /\ WorkerUp(w) /\ acks[w] = {}
  /\ m \in results
  /\ \A v \in Workers : m \notin acks[v]
  /\ m.kind = "failed" => [m EXCEPT !.kind = "completed"] \notin results

Recorded(m) == m.doc \in runs[m.run].extracted
Late == job.status = "failed"

(* The results that fail the run: a failure of a document without a result,  *)
(* or a completed event that carries no usable snapshot.                     *)
FailsRun(m) ==
  /\ job.run = m.run
  /\ TransitionAllowed(job.status, "failed")
  /\ m.kind = "rejected" \/ (m.kind = "failed" /\ ~Recorded(m))

\* Mutant: the run of the result is not checked.
KeepsResultOfAnyRun(m) ==
  m.kind = "completed" /\ (Late \/ TransitionAllowed(job.status, "extracted"))

(* The results stored on the run, late ones too: the pages were paid for.    *)
KeepsResult(m) ==
  /\ job.run = m.run /\ m.kind = "completed"
  /\ Late \/ TransitionAllowed(job.status, "extracted")

DropAi1Result(w, m) ==
  /\ ReceivesResult(w, m) /\ ~FailsRun(m) /\ ~KeepsResult(m)
  /\ acks' = [acks EXCEPT ![w] = {m}]
  /\ UNCHANGED <<job, dossier, runs, manifest, events, ocr, results, hand, task,
                 pending, dispatch, faults>>

FailAi1Run(w, m) ==
  /\ ReceivesResult(w, m) /\ FailsRun(m)
  /\ FailJob("ai1")
  /\ runs' = [runs EXCEPT ![m.run].status = "failed"]
  /\ acks' = [acks EXCEPT ![w] = {m}]
  /\ UNCHANGED <<manifest, events, ocr, results, hand, task, pending, dispatch, faults>>

(* The same content again: nothing is written, the hand-off is kicked again. *)
DuplicateAi1Result(w, m) ==
  /\ ReceivesResult(w, m) /\ KeepsResult(m) /\ Recorded(m)
  /\ task' = IF ~Late /\ Missing(m.run) = {} THEN Schedule(w, m.run) ELSE task
  /\ acks' = [acks EXCEPT ![w] = {m}]
  /\ UNCHANGED <<job, dossier, runs, manifest, events, ocr, results, hand, pending,
                 dispatch, faults>>

\* Mutant: the results are counted, not matched with the documents.
CompleteByCount(m) == Cardinality(Missing(m.run)) <= 1

(* A first result of the document, or one with other content.                *)
Complete(m) == Missing(m.run) \subseteq {m.doc}

\* Mutant: the transition is not guarded.
AfterResultAlways(m) ==
  [job EXCEPT !.status = IF Complete(m) THEN "extracted" ELSE "processing"]

AfterResult(m) ==
  LET target == IF Complete(m) THEN "extracted" ELSE "processing" IN
  IF Late \/ ~TransitionAllowed(job.status, target) THEN job ELSE [job EXCEPT !.status = target]

RecordAi1Result(w, m) ==
  /\ ReceivesResult(w, m) /\ KeepsResult(m)
  /\ runs' = [runs EXCEPT ![m.run].extracted = @ \cup {m.doc}]
  /\ Move(AfterResult(m))
  /\ task' = IF ~Late /\ Complete(m) THEN Schedule(w, m.run) ELSE task
  /\ acks' = [acks EXCEPT ![w] = {m}]
  /\ UNCHANGED <<manifest, events, ocr, results, hand, pending, dispatch, faults>>

AckResult(w) ==
  /\ acks[w] # {}
  /\ results' = results \ acks[w]
  /\ acks' = [acks EXCEPT ![w] = {}]
  /\ UNCHANGED <<job, dossier, runs, manifest, events, ocr, hand, task, pending,
                 dispatch, faults>>

\* Mutant: the deadline runs from the first result.
Ai1OverdueAfterAResult(w) ==
  /\ WorkerUp(w)
  /\ job.status = "processing" /\ job.run # NoRun /\ runs[job.run].extracted # {}
  /\ \A p \in pending : ~(p.kind = "timeout" /\ p.by = w)
  /\ Begin("timeout", w, job.run)
  /\ UNCHANGED <<job, dossier, runs, manifest, events, ocr, results, hand, acks, task,
                 dispatch, faults>>

(* The watchdog finds the run past its deadline (any time after the start).  *)
Ai1Overdue(w) ==
  /\ WorkerUp(w)
  /\ job.status = "processing" /\ job.run # NoRun
  /\ \A p \in pending : ~(p.kind = "timeout" /\ p.by = w)
  /\ Begin("timeout", w, job.run)
  /\ UNCHANGED <<job, dossier, runs, manifest, events, ocr, results, hand, acks, task,
                 dispatch, faults>>
-----------------------------------------------------------------------------
(* The background hand-off of a run to AI2.  Its session keeps the job row   *)
(* it read at the start (identity map, expire_on_commit=False): while        *)
(* `cached', the job's status is extracted for it whatever the database says *)
(* - only the WHERE current_run_id = run is evaluated there - and the run's  *)
(* result is the one `seen' when the profile was frozen.                     *)
StatusSeen(t) == IF t.cached THEN "extracted" ELSE job.status
ResultSeen(t, r) == IF t.cached THEN t.seen ELSE runs[r].result

ReadyForAi2(r) ==
  /\ job.run = r /\ job.status = "extracted"
  /\ manifest
  /\ runs[r].result = 0
  /\ Missing(r) = {}

\* Mutant: the hand-off goes on after its end.
GoesOnPolling(w, r) == UNCHANGED task

Closing(w, r) == task' = [task EXCEPT ![w][r] = [NoTask EXCEPT !.pc = "closing"]]

(* First commit of the hand-off: the run is running.                         *)
TaskStart(w, r) ==
  /\ task[w][r].pc = "waiting" /\ ReadyForAi2(r)
  /\ runs' = [runs EXCEPT ![r].status = "running"]
  /\ task' = [task EXCEPT ![w][r] =
               [pc |-> "freezing", attempt |-> runs[r].attempt, cached |-> TRUE, seen |-> 0]]
  /\ UNCHANGED <<job, dossier, manifest, events, ocr, results, hand, acks, pending,
                 dispatch, faults>>

TaskNotReady(w, r) ==
  /\ task[w][r].pc = "waiting" /\ ~ReadyForAi2(r)
  /\ Closing(w, r)
  /\ UNCHANGED <<job, dossier, runs, manifest, events, ocr, results, hand, acks,
                 pending, dispatch, faults>>

(* _freeze_semantic_profile reads the run again and the second commit sets   *)
(* it running, whatever another transaction made of it since the first.      *)
TaskFreeze(w, r) ==
  /\ task[w][r].pc = "freezing"
  /\ runs' = [runs EXCEPT ![r].status = "running"]
  /\ task' = [task EXCEPT ![w][r].pc = "polling", ![w][r].seen = runs[r].result]
  /\ UNCHANGED <<job, dossier, manifest, events, ocr, results, hand, acks, pending,
                 dispatch, faults>>

(* Recording AI2's progress raises: its rollback expires what was cached.    *)
TaskForgets(w, r) ==
  /\ task[w][r].pc = "polling" /\ task[w][r].cached
  /\ task' = [task EXCEPT ![w][r].cached = FALSE]
  /\ UNCHANGED <<job, dossier, runs, manifest, events, ocr, results, hand, acks,
                 pending, dispatch, faults>>

\* Mutant: the current run is not checked at the end.
TakesResultOfAnyRun(t, r) == TransitionAllowed(StatusSeen(t), "pending_review")

(* _finalize_ai2_success, under the job's row lock.                          *)
TakesAi2Result(t, r) == job.run = r /\ TransitionAllowed(StatusSeen(t), "pending_review")

TaskSucceeds(w, r) ==
  LET t == task[w][r] IN
  /\ t.pc = "polling" /\ TakesAi2Result(t, r)
  /\ ResultSeen(t, r) \in {0, t.attempt}
  /\ runs' = [runs EXCEPT ![r].status = "succeeded", ![r].result = t.attempt]
  /\ Move([job EXCEPT !.status = "pending_review"])
  /\ Closing(w, r)
  /\ UNCHANGED <<manifest, events, ocr, results, hand, acks, pending, dispatch, faults>>

TaskRefused(w, r) ==
  /\ task[w][r].pc = "polling" /\ ~TakesAi2Result(task[w][r], r)
  /\ Closing(w, r)
  /\ UNCHANGED <<job, dossier, runs, manifest, events, ocr, results, hand, acks,
                 pending, dispatch, faults>>

\* Mutant: the run row is left as it is.
EndJobOnly(r, status, e) ==
  /\ UNCHANGED runs
  /\ IF job.run = r /\ TransitionAllowed(status, "failed") THEN FailJob(e)
                                                          ELSE UNCHANGED <<job, dossier>>

(* _fail_ai2_run: nothing is written when the job may no longer fail.        *)
EndByFailure(r, status, e) ==
  IF job.run = r /\ TransitionAllowed(status, "failed")
    THEN FailJob(e) /\ runs' = [runs EXCEPT ![r].status = "failed"]
    ELSE UNCHANGED <<job, dossier, runs>>

(* SUCCEEDED + BLOCKED is a failure.                                         *)
TaskBlocked(w, r) ==
  /\ task[w][r].pc = "polling" /\ TakesAi2Result(task[w][r], r)
  /\ EndByFailure(r, StatusSeen(task[w][r]), "ai2_blocked")
  /\ Closing(w, r)
  /\ UNCHANGED <<manifest, events, ocr, results, hand, acks, pending, dispatch, faults>>

(* Any exception, and the deadline: rolled back, then the run fails.  The    *)
(* rollback expires the cached job only when a transaction was open.         *)
TaskFails(w, r) ==
  /\ task[w][r].pc \in {"freezing", "polling"}
  /\ \E status \in {StatusSeen(task[w][r]), job.status} : EndByFailure(r, status, "ai2_retryable")
  /\ Closing(w, r)
  /\ UNCHANGED <<manifest, events, ocr, results, hand, acks, pending, dispatch, faults>>

TaskDone(w, r) ==
  /\ task[w][r].pc = "closing"
  /\ task' = [task EXCEPT ![w][r] = NoTask]
  /\ UNCHANGED <<job, dossier, runs, manifest, events, ocr, results, hand, acks,
                 pending, dispatch, faults>>

(* An exception escapes the hand-off (hand_off_crashed): it is only logged.  *)
TaskDies(w, r) ==
  /\ "task" \in Faults /\ faults < MaxFaults
  /\ task[w][r].pc \notin {"none", "closing"}
  /\ task' = [task EXCEPT ![w][r] = NoTask]
  /\ faults' = faults + 1
  /\ UNCHANGED <<job, dossier, runs, manifest, events, ocr, results, hand, acks,
                 pending, dispatch>>
-----------------------------------------------------------------------------
(* A worker process dies: its memory and its open transactions are gone, the *)
(* records it held are redelivered.                                          *)
Crash(w) ==
  /\ "crash" \in Faults /\ faults < MaxFaults
  /\ WorkerUp(w)
  /\ hand' = [hand EXCEPT ![w] = [IdleHand EXCEPT !.pc = "down"]]
  /\ acks' = [acks EXCEPT ![w] = {}]
  /\ task' = [task EXCEPT ![w] = [r \in Runs |-> NoTask]]
  /\ pending' = {p \in pending : p.by # w}
  /\ faults' = faults + 1
  /\ UNCHANGED <<job, dossier, runs, manifest, events, ocr, results, dispatch>>

\* Mutant: a restart does not look for extracted jobs.
NothingResumed(w) == task

(* _resume_pending_ai2.                                                      *)
Resumed(w) ==
  IF job.status = "extracted" /\ job.run # NoRun THEN Schedule(w, job.run) ELSE task

Start(w) ==
  /\ ~WorkerUp(w)
  /\ hand' = [hand EXCEPT ![w] = IdleHand]
  /\ task' = Resumed(w)
  /\ UNCHANGED <<job, dossier, runs, manifest, events, ocr, results, acks, pending,
                 dispatch, faults>>
-----------------------------------------------------------------------------
(* API requests.  Room for a run is the bound on the runs a user opens.      *)
RoomForRun ==
  Cardinality({ev \in events : StartsRun(ev)}) + Cardinality(dispatch) < Cardinality(Absent)

Publish(ev) == ev \notin events /\ events' = events \cup {ev}

\* Mutant: the new run leaves the job status alone.
CreateRunKeepsStatus(r, b) ==
  /\ r \in Absent
  /\ runs' = [runs EXCEPT ![r] = NewRun("queued", {}, b)]
  /\ job' = [job EXCEPT !.run = r]
  /\ dispatch' = dispatch \cup {r}

(* PipelineRunRepository.create: the job goes back to uploaded on a queued   *)
(* run, whatever its status; the dossier row is left as it is.               *)
CreateRun(r, b) ==
  /\ r \in Absent
  /\ runs' = [runs EXCEPT ![r] = NewRun("queued", {}, b)]
  /\ job' = [status |-> "uploaded", run |-> r, error |-> "none"]
  /\ dispatch' = dispatch \cup {r}

(* trigger_pipeline_run up to its commit: the check that no run is active is *)
(* a read, the job is not locked.                                            *)
Trigger ==
  /\ "trigger" \in Requests /\ RoomForRun /\ ~AnyActive
  /\ \A p \in pending : p.kind # "trigger"
  /\ Begin("trigger", Api, NoRun)
  /\ UNCHANGED <<job, dossier, runs, manifest, events, ocr, results, hand, acks, task,
                 dispatch, faults>>

(* create_reprocess, under the job's row lock, with a fresh idempotency key. *)
Reprocessable(b) ==
  /\ b # NoRun /\ runs[b].status = "succeeded" /\ Missing(b) = {}
  /\ ~AnyActive

Reprocess(r) ==
  /\ "reprocess" \in Requests /\ RoomForRun
  /\ Reprocessable(job.run)
  /\ CreateRun(r, job.run)
  /\ UNCHANGED <<dossier, manifest, events, ocr, results, hand, acks, task, pending, faults>>

DispatchRun(r) ==
  /\ r \in dispatch
  /\ dispatch' = dispatch \ {r}
  /\ events' = events \cup {[kind |-> "uploaded", run |-> r]}
  /\ UNCHANGED <<job, dossier, runs, manifest, ocr, results, hand, acks, task, pending, faults>>

(* The publication raises and the run is closed; or the API process dies     *)
(* first and the run is not.                                                 *)
DispatchFails(r) ==
  /\ "dispatch" \in Faults /\ faults < MaxFaults
  /\ r \in dispatch
  /\ dispatch' = dispatch \ {r}
  /\ runs' = [runs EXCEPT ![r].status = "failed"]
  /\ faults' = faults + 1
  /\ UNCHANGED <<job, dossier, manifest, events, ocr, results, hand, acks, task, pending>>

ApiDies(r) ==
  /\ "dispatch" \in Faults /\ faults < MaxFaults
  /\ r \in dispatch
  /\ dispatch' = dispatch \ {r}
  /\ faults' = faults + 1
  /\ UNCHANGED <<job, dossier, runs, manifest, events, ocr, results, hand, acks, task, pending>>

(* POST ocr/restart: the event names the run the user saw.                   *)
Restart ==
  /\ "restart" \in Requests /\ RoomForRun
  /\ job.status # "processing"
  /\ Publish([kind |-> "restart", run |-> job.run])
  /\ UNCHANGED <<job, dossier, runs, manifest, ocr, results, hand, acks, task, pending,
                 dispatch, faults>>

(* POST ocr/retry-failed.                                                    *)
RetryFailed ==
  /\ "retry_failed" \in Requests /\ RoomForRun
  /\ job.run # NoRun /\ job.status = "failed" /\ job.error # "ai2_retryable"
  /\ Publish([kind |-> "retry_failed", run |-> job.run])
  /\ UNCHANGED <<job, dossier, runs, manifest, ocr, results, hand, acks, task, pending,
                 dispatch, faults>>

(* POST ai2/retry.                                                           *)
Ai2Retry ==
  /\ "ai2_retry" \in Requests
  /\ job.run # NoRun /\ job.status = "failed" /\ job.error = "ai2_retryable"
  /\ runs[job.run].attempt < MaxAttempts
  /\ Publish([kind |-> "ai2_retry", run |-> job.run])
  /\ UNCHANGED <<job, dossier, runs, manifest, ocr, results, hand, acks, task, pending,
                 dispatch, faults>>

(* cancel_pipeline_run: the run is read, then closed.                        *)
Cancel(r) ==
  /\ "cancel" \in Requests
  /\ Active(r)
  /\ Begin("cancel", Api, r)
  /\ UNCHANGED <<job, dossier, runs, manifest, events, ocr, results, hand, acks, task,
                 dispatch, faults>>

ConfirmManifest ==
  /\ "confirm_manifest" \in Requests /\ ~manifest
  /\ manifest' = TRUE
  /\ Publish([kind |-> "confirmed", run |-> NoRun])
  /\ UNCHANGED <<job, dossier, runs, ocr, results, hand, acks, task, pending, dispatch, faults>>

(* advance_dossier_status: the dossier decides, the job follows if it is in  *)
(* the same state.                                                           *)
Advance(to, approved) ==
  /\ dossier' = [status |-> to, approved |-> approved]
  /\ job' = IF job.status = dossier.status THEN [job EXCEPT !.status = to] ELSE job

(* The review action that closes the last open item of the current run.      *)
CloseLastReviewItem ==
  /\ "review" \in Requests
  /\ dossier.status = "pending_review" /\ ~dossier.approved
  /\ job.run # NoRun /\ runs[job.run].result # 0
  /\ Advance("reviewed", FALSE)
  /\ UNCHANGED <<runs, manifest, events, ocr, results, hand, acks, task, pending,
                 dispatch, faults>>

(* approve_dossier with no review item open.                                 *)
Approve ==
  /\ "review" \in Requests
  /\ dossier.status \in {"pending_review", "reviewed"} /\ ~dossier.approved
  /\ Advance("approved", TRUE)
  /\ UNCHANGED <<runs, manifest, events, ocr, results, hand, acks, task, pending,
                 dispatch, faults>>
-----------------------------------------------------------------------------
(* The second half of the unlocked transactions: the UPDATE finds the rows   *)
(* by their keys and writes them as decided at the SELECT.                   *)
CommitTimeout(p) ==
  /\ p.kind = "timeout"
  /\ FailJob("ai1")
  /\ runs' = [runs EXCEPT ![p.run].status = "failed"]
  /\ UNCHANGED <<manifest, events, ocr, results, hand, acks, task, dispatch, faults>>

CommitReopen(p) ==
  /\ p.kind = "reopen"
  /\ Move([job EXCEPT !.status = "extracted", !.error = "none"])
  /\ runs' = [runs EXCEPT ![p.run].status = "running", ![p.run].attempt = @ + 1]
  /\ task' = Schedule(p.by, p.run)
  /\ hand' = [hand EXCEPT ![p.by].pc = "ack", ![p.by].run = NoRun]
  /\ UNCHANGED <<manifest, events, ocr, results, acks, dispatch, faults>>

CommitCarried(p) ==
  /\ p.kind = "carried"
  /\ Move([job EXCEPT !.status = "extracted"])
  /\ task' = Schedule(p.by, p.run)
  /\ hand' = [hand EXCEPT ![p.by].pc = "ack", ![p.by].run = NoRun]
  /\ UNCHANGED <<runs, manifest, events, ocr, results, acks, dispatch, faults>>

CommitCancel(p) ==
  /\ p.kind = "cancel"
  /\ runs' = [runs EXCEPT ![p.run].status = "cancelled"]
  /\ IF job.run = p.run /\ job.status \in {"uploaded", "processing", "extracted"}
       THEN FailJob("cancelled")
       ELSE UNCHANGED <<job, dossier>>
  /\ UNCHANGED <<manifest, events, ocr, results, hand, acks, task, dispatch, faults>>

CommitTrigger(p) ==
  /\ p.kind = "trigger"
  /\ \E r \in Runs : CreateRun(r, NoRun)
  /\ UNCHANGED <<dossier, manifest, events, ocr, results, hand, acks, task, faults>>

Commit(p) ==
  /\ pending' = pending \ {p}
  /\ \/ CommitTimeout(p)
     \/ CommitReopen(p)
     \/ CommitCarried(p)
     \/ CommitCancel(p)
     \/ CommitTrigger(p)
-----------------------------------------------------------------------------
ConsumeEvent(w) ==
  \/ \E ev \in events :
       \/ IgnoreStart(w, ev)
       \/ ResumeRun(w, ev)
       \/ \E r \in Runs : OpenRun(w, ev, r)
       \/ HandleAi2Retry(w, ev)
       \/ HandleManifestConfirmed(w, ev)
  \/ PublishCommands(w)
  \/ CompleteCarriedRun(w)
  \/ AckEvent(w)

ConsumeResult(w) ==
  \/ \E m \in results :
       \/ DropAi1Result(w, m)
       \/ FailAi1Run(w, m)
       \/ DuplicateAi1Result(w, m)
       \/ RecordAi1Result(w, m)
  \/ AckResult(w)

RunTask(w, r) ==
  \/ TaskStart(w, r)
  \/ TaskNotReady(w, r)
  \/ TaskFreeze(w, r)
  \/ TaskSucceeds(w, r)
  \/ TaskRefused(w, r)
  \/ TaskBlocked(w, r)
  \/ TaskFails(w, r)
  \/ TaskDone(w, r)

Fault ==
  \/ \E w \in Workers : HandlerFails(w) \/ DeadLetter(w) \/ Crash(w)
  \/ \E w \in Workers, r \in Runs : TaskDies(w, r)
  \/ \E r \in Runs : DispatchFails(r) \/ ApiDies(r)
  \/ \E r \in Runs, d \in Docs : Ai1Garbles(r, d)

Request ==
  \/ Trigger
  \/ \E r \in Runs : Reprocess(r) \/ Cancel(r)
  \/ Restart
  \/ RetryFailed
  \/ Ai2Retry
  \/ ConfirmManifest
  \/ CloseLastReviewItem
  \/ Approve

(* A transaction others may not overtake is in progress.                     *)
Undisturbed == \A p \in pending : p.kind \in Racing

Other ==
  \/ \E w \in Workers : ConsumeEvent(w) \/ ConsumeResult(w) \/ Ai1Overdue(w) \/ Start(w)
  \/ \E w \in Workers, r \in Runs : RunTask(w, r) \/ TaskForgets(w, r)
  \/ \E r \in Runs : DispatchRun(r)
  \/ \E r \in Runs, d \in Docs : Ai1Answers(r, d)
  \/ Request
  \/ Fault

Next == (\E p \in pending : Commit(p)) \/ (Undisturbed /\ Other)

Spec == Init /\ [][Next]_vars

(* The loops of a worker keep running and a crashed worker is restarted; AI1 *)
(* may never answer and users may never ask.  A hand-off ends: its poll has  *)
(* a deadline.                                                               *)
Fairness ==
  /\ WF_vars(\E p \in pending : Commit(p))
  /\ \A w \in Workers :
       /\ WF_vars(Undisturbed /\ ConsumeEvent(w))
       /\ WF_vars(Undisturbed /\ ConsumeResult(w))
       /\ WF_vars(Undisturbed /\ Ai1Overdue(w))
       /\ WF_vars(Undisturbed /\ Start(w))
  /\ \A w \in Workers, r \in Runs : WF_vars(Undisturbed /\ RunTask(w, r))
  /\ \A r \in Runs : WF_vars(Undisturbed /\ DispatchRun(r))

FairSpec == Spec /\ Fairness
-----------------------------------------------------------------------------
(* Types of the whole state.                                                 *)
TypeOK ==
  /\ job \in Jobs
  /\ dossier \in [status : JobStatuses, approved : BOOLEAN]
  /\ runs \in [Runs -> RunRows]
  /\ manifest \in BOOLEAN
  /\ events \subseteq Events
  /\ ocr \in [Runs -> [Docs -> {"none", "sent", "answered"}]]
  /\ results \subseteq Results
  /\ hand \in [Workers -> Hands]
  /\ acks \in [Workers -> SUBSET Results]
  /\ task \in [Workers -> [Runs -> Tasks]]
  /\ pending \subseteq Pendings
  /\ dispatch \subseteq Runs
  /\ faults \in Nat

(* An AI2 result is never persisted on a run whose OCR is incomplete:        *)
(* reprocess runs, retries that carry documents over, late results and       *)
(* resumed hand-offs all end in a hand-off that looks at every document.     *)
ResultNeedsWholeOcr ==
  \A r \in Runs : runs[r].result # 0 => runs[r].extracted = Docs

(* A dossier in human review always shows the result of the run its job      *)
(* points at; a new run takes the job out of review in the same step.        *)
ReviewedRunHasResult ==
  job.status \in {"pending_review", "reviewed", "approved"} =>
    job.run # NoRun /\ runs[job.run].result # 0

(* The dossier row (what approval reads) and the job row (what the worker    *)
(* reads) agree, but for the time an API run waits for the worker.           *)
DossierMirrorsJob == job.status # "uploaded" => dossier.status = job.status

(* Only the run the job points at gains OCR documents or an AI2 result: a    *)
(* superseded or foreign result is dropped wherever it arrives.              *)
OnlyCurrentRunGains ==
  [][\A r \in Runs :
       (runs'[r].extracted # runs[r].extracted \/ runs'[r].result # runs[r].result)
         => job'.run = r]_vars

(* EXTRACTED means that every document of the current run has an OCR result. *)
ExtractedMeansComplete ==
  job.status = "extracted" => job.run # NoRun /\ runs[job.run].extracted = Docs

(* A failed job points at a run that has ended: nothing blocks a new run.    *)
FailedJobHasEndedRun == job.status = "failed" => ~Active(job.run)

(* At most one run is active, the one the job points at.                     *)
ActiveRunIsCurrent == \A r \in Runs : Active(r) => job.run = r

(* A job that failed on a run, and a run a user cancelled, take no AI2       *)
(* result: persist happens only from a job still in the pipeline.            *)
FailedJobTakesNoResult ==
  [][job.status = "failed" => \A r \in Runs : runs'[r].result = runs[r].result]_vars

(* A run that has just been opened for a restart is commanded to AI1 before  *)
(* its event is acknowledged, whatever the handler's retries.                *)
OpenedRunIsCommanded ==
  [][\A ev \in events \ events' :
       Restarting(ev) /\ job.status = "processing" /\ job.run # ev.run =>
         \A d \in Missing(job.run) : ocr[job.run][d] # "none"]_vars

(* The result of an AI2 attempt older than the run's current one is never    *)
(* persisted.                                                                *)
NoLateAttemptPersisted ==
  [][\A r \in Runs : runs'[r].result # runs[r].result => runs'[r].result = runs[r].attempt]_vars

(* The job follows the lifecycle of JobLifecycle.                            *)
Lifecycle == INSTANCE JobLifecycle WITH
  status <- job.status,
  run <- job.run,
  used <- Runs \ Absent,
  done <- {r \in Runs : runs[r].result # 0}

FollowsLifecycle == Lifecycle!Spec

(* A run past OCR deadlines does not keep its job in processing for ever.    *)
ProcessingEnds == job.status = "processing" ~> job.status # "processing"

(* Every dossier event is handled and acknowledged: none of a kind waits for *)
(* ever.                                                                     *)
EventsDrain ==
  \A kind \in EventKinds :
    (\E ev \in events : ev.kind = kind) ~> ~(\E ev \in events : ev.kind = kind)

(* A dossier whose OCR is in is handed to AI2 and leaves EXTRACTED, also     *)
(* over worker restarts.                                                     *)
ExtractedIsHandedOff == (job.status = "extracted" /\ manifest) ~> job.status # "extracted"

(* A queued run whose dossier.uploaded was published is picked up.           *)
QueuedRunStarts ==
  \A r \in Runs :
    runs[r].status = "queued" /\ [kind |-> "uploaded", run |-> r] \in events
      ~> runs[r].status # "queued"
=============================================================================
