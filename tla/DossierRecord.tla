--------------------------- MODULE DossierRecord ---------------------------
(***************************************************************************)
(* The record of one dossier from its AI2 result to its approval or its    *)
(* deletion: review items and the actions on them (backend/.../review),    *)
(* approval and lock (approval_service.py), a rerun, the worker's result,  *)
(* and deletion: tombstone, purge, sweep (dossier_deletion_service.py).    *)
(*                                                                         *)
(* A request that holds row locks while others run is two steps: the first *)
(* has all its locks and has read, the second commits.  A transaction that *)
(* only waits for locks is not one yet; one the database aborts to break a *)
(* deadlock is Aborted.  The pipeline up to EXTRACTED is one step here     *)
(* (DossierPipeline has it in full).                                       *)
(***************************************************************************)
EXTENDS Naturals, FiniteSets

CONSTANTS
  Facts,       \* what an AI2 result may ask to review, per run
  Clauses,     \* clauses, whose item is created by the first review
  Reviewers,
  MaxRuns,     \* bound on the runs of the dossier
  MaxActions,  \* bound on the review actions
  MaxFaults    \* bound on failures and crashes of the purge

ASSUME TargetsAssumption == Facts \cup Clauses # {} /\ Facts \cap Clauses = {}
ASSUME BoundsAssumption ==
  MaxRuns \in Nat \ {0} /\ MaxActions \in Nat /\ MaxFaults \in Nat

VARIABLES
  dossier,  \* dossier.status, is_approved, is_locked, deleted_at
  job,      \* the dossier's job: status, current_run_id
  active,   \* is the job's run queued or running?
  asked,    \* has a POST /runs passed its checks?
  sent,     \* the last run whose PDFs AI1 was sent
  items,    \* review_item rows by target; version 0 without a row, run 0 without a run
  forms,    \* the clauses' runs and the dossier's runs that open forms may show
  nodes,    \* the run whose OCR wrote the clause nodes, 0 when there are none
  facts,    \* are there facts and findings?
  review,   \* per reviewer, the transaction of an action
  approval, \* the approval's transaction and the job status it read
  purge,    \* deletion_ledger: status, evidence (backend_content_purged; fewer
            \* blobs deleted than counted: missed); is a purge open?
  stored,   \* is a PDF, page image or OCR result of it in object storage?
  ai2,      \* AI2's copy: none, held, erased behind AI2's own tombstone
  late,     \* what came after the backend's content was erased, and from where
  actions,
  faults

pipeline == <<job, active, asked, sent>>
content == <<nodes, facts, stored, ai2, late>>
bounds == <<actions, faults>>
vars == <<dossier, pipeline, forms, items, review, approval, purge, content, bounds>>

Targets == Facts \cup Clauses
Items == (1..MaxRuns) \X Targets
Counted == {"open", "awaiting"}
NoItem == [status |-> "none", version |-> 0, run |-> 0]
Idle == [writing |-> FALSE, item |-> <<1, CHOOSE t \in Targets : TRUE>>, base |-> 0,
         run |-> 0, outcome |-> "resolved", last |-> FALSE, seen |-> "uploaded"]
NotApproving == [on |-> FALSE, seen |-> "uploaded"]

OpenItems == {i \in Items : items[i].status \in Counted}
Leave(p) == review' = [review EXCEPT ![p] = Idle]

(* A dossier whose upload was just confirmed, or one of an earlier version  *)
(* in review, with items that name no pipeline run.                         *)
Init ==
  /\ \E old \in BOOLEAN :
       LET status == IF old THEN "pending_review" ELSE "uploaded"
       IN  /\ dossier = [status |-> status, approved |-> FALSE, locked |-> FALSE,
                         deleted |-> FALSE]
           /\ job = [status |-> status, run |-> 1]
           /\ active = ~old /\ facts = old /\ nodes = IF old THEN 1 ELSE 0
           /\ ai2 = IF old THEN "held" ELSE "none"
           /\ forms = IF old THEN {<<1, 1>>} ELSE {}
           /\ items = [i \in Items |-> IF old /\ i[1] = 1 /\ i[2] \in Facts
                         THEN [status |-> "open", version |-> 1, run |-> 0] ELSE NoItem]
  /\ review = [p \in Reviewers |-> Idle] /\ approval = NotApproving
  /\ purge = [status |-> "none", backend |-> FALSE, missed |-> FALSE, on |-> FALSE]
  /\ asked = FALSE /\ sent = 1 /\ stored = TRUE /\ late = {} /\ actions = 0 /\ faults = 0
-----------------------------------------------------------------------------
(* Row locks *)

Writing(p) == review[p].writing
(* a purge that erases has written the job and its runs *)
Erasing == purge.on /\ ~purge.backend
JobFree == ~Erasing /\ \A p \in Reviewers : Writing(p) => review[p].run = 0
ItemFree(i) == \A p \in Reviewers : Writing(p) => review[p].item # i
(* the dossier row, locked FOR UPDATE                                       *)
DossierFree ==
  /\ \A p \in Reviewers : ~Writing(p)
  /\ ~approval.on /\ ~purge.on

\* Mutant: a review action locks the dossier FOR SHARE.
ReviewShared == ~approval.on /\ ~purge.on
(* A review action keeps other reviews out as well as approval and deletion. *)
ReviewFree == DossierFree

(* The run an action on an item names: the row's, or for a row it creates   *)
(* the dossier's run when its form was opened.                              *)
RunsOf(i) ==
  IF items[i].version > 0 THEN {items[i].run}
  ELSE {r \in 1..MaxRuns : i[2] \in Clauses /\ <<i[1], r>> \in forms}
\* Mutant: a deleted dossier still takes actions.
RefusedUnlessDeleted == dossier.locked \/ dossier.approved
Refused == dossier.locked \/ dossier.approved \/ dossier.deleted
Superseded(r) == r \notin {0, job.run}
\* Mutant: the version of the form is not compared.
OnAny(i, base) == TRUE
OnLatest(i, base) == items[i].version = base

(* submit_action refuses an item of an older run; the route answers 409 and *)
(* the session commits, a row the request created with it.                  *)
RefuseSuperseded(i, r) ==
  /\ JobFree /\ ItemFree(i) /\ r \in RunsOf(i) /\ Superseded(r)
  /\ items[i].version = 0
  /\ items' = [items EXCEPT ![i] = [status |-> "open", version |-> 1, run |-> r]]
  /\ UNCHANGED <<dossier, pipeline, forms, review, approval, purge, content, bounds>>

(* An action sent from a form that shows version base of the item; any      *)
(* other refusal changes nothing.                                           *)
Submit(p, i, base, r, outcome) ==
  /\ ~Writing(p) /\ actions < MaxActions
  /\ ReviewFree /\ ItemFree(i) /\ r \in RunsOf(i)
  /\ r # 0 => JobFree
  /\ ~Superseded(r) /\ ~Refused /\ OnLatest(i, base)
  /\ review' = [review EXCEPT ![p] =
       [writing |-> TRUE, item |-> i, base |-> base, run |-> r, outcome |-> outcome,
        last |-> outcome \notin Counted /\ OpenItems \subseteq {i}, seen |-> job.status]]
  /\ UNCHANGED <<dossier, pipeline, forms, items, approval, purge, content, bounds>>

(* a row the request creates has version 1 before its first action *)
NextVersion(base) == IF base = 0 THEN 2 ELSE base + 1
(* advance_dossier_status: the job follows when it was read in that status *)
Reviewed(p) == review[p].last /\ dossier.status = "pending_review"
CommitReview(p) ==
  /\ Writing(p)
  /\ items' = [items EXCEPT ![review[p].item] =
       [status |-> review[p].outcome, version |-> NextVersion(review[p].base),
        run |-> review[p].run]]
  /\ dossier' = IF Reviewed(p) THEN [dossier EXCEPT !.status = "reviewed"] ELSE dossier
  /\ job' = IF Reviewed(p) /\ review[p].seen = "pending_review"
            THEN [job EXCEPT !.status = "reviewed"] ELSE job
  /\ actions' = actions + 1 /\ Leave(p)
  /\ UNCHANGED <<active, asked, sent, forms, approval, purge, content, faults>>

AbortReview(p) ==
  /\ Writing(p) /\ Leave(p)
  /\ UNCHANGED <<dossier, pipeline, forms, items, approval, purge, content, bounds>>
-----------------------------------------------------------------------------
(* Approval: the dossier row is locked, the job is read without a lock *)
InReview == dossier.status \in {"pending_review", "reviewed"}
\* Mutant: the flags are read without FOR UPDATE.
ApprovableUnlocked == ~dossier.deleted /\ ~dossier.approved /\ InReview /\ OpenItems = {}
Approvable == DossierFree /\ ~dossier.deleted /\ ~dossier.approved /\ InReview /\ OpenItems = {}

Approve ==
  /\ Approvable
  /\ approval' = [on |-> TRUE, seen |-> job.status]
  /\ UNCHANGED <<dossier, pipeline, forms, items, review, purge, content, bounds>>

CommitApproval ==
  /\ approval.on /\ JobFree
  /\ dossier' = [dossier EXCEPT !.status = "approved", !.approved = TRUE]
  /\ job' = IF approval.seen \in {dossier.status, "reviewed"}
            THEN [job EXCEPT !.status = "approved"] ELSE job
  /\ approval' = NotApproving
  /\ UNCHANGED <<active, asked, sent, forms, items, review, purge, content, bounds>>

AbortApproval ==
  /\ approval.on /\ approval' = NotApproving
  /\ UNCHANGED <<dossier, pipeline, forms, items, review, purge, content, bounds>>

LockDossier ==
  /\ DossierFree /\ ~dossier.deleted /\ ~dossier.locked
  /\ dossier' = [dossier EXCEPT !.locked = TRUE]
  /\ UNCHANGED <<pipeline, forms, items, review, approval, purge, content, bounds>>
-----------------------------------------------------------------------------
(* POST /runs checks, then puts the job on a new run without the dossier's lock *)
AskRun ==
  /\ ~asked /\ ~active /\ ~dossier.deleted /\ job.run < MaxRuns
  /\ asked' = TRUE
  /\ UNCHANGED <<dossier, job, active, sent, forms, items, review, approval, purge, content, bounds>>

(* From now on a form may show clauses of run n of a dossier at run r. *)
Opens(n, r) == forms' = IF n = 0 \/ dossier.deleted THEN forms ELSE forms \cup {<<n, r>>}

(* The worker sends AI1 the PDFs unless a purge has cleared their rows.      *)
OpenRun ==
  /\ asked /\ JobFree
  /\ sent' = IF purge.backend THEN sent ELSE job.run + 1
  /\ job' = [status |-> "uploaded", run |-> job.run + 1]
  /\ active' = TRUE /\ asked' = FALSE
  /\ Opens(nodes, job.run + 1)
  /\ UNCHANGED <<dossier, items, review, approval, purge, content, bounds>>

(* The worker: _mark_status moves the job and the dossier, deleted or not *)
Mark(status) ==
  /\ JobFree /\ DossierFree
  /\ job' = [job EXCEPT !.status = status]
  /\ dossier' = [dossier EXCEPT !.status = status]
Writes(what) == late' = IF purge.backend THEN late \cup {what} ELSE late

(* An OCR result, its clauses with it: one of several, ...                   *)
RecordOcr ==
  /\ job.status = "uploaded" /\ sent = job.run
  /\ Mark("uploaded")
  /\ nodes' = job.run /\ Writes("ocr") /\ Opens(job.run, job.run)
  /\ UNCHANGED <<active, asked, sent, items, review, approval, purge, facts, stored, ai2, bounds>>

(* ... the last one, with the hand-off to AI2 ...                            *)
Extract ==
  /\ job.status = "uploaded" /\ sent = job.run
  /\ Mark("extracted")
  /\ nodes' = job.run /\ Writes("ocr") /\ Opens(job.run, job.run)
  /\ ai2' = IF ai2 = "erased" THEN ai2 ELSE "held"
  /\ UNCHANGED <<active, asked, sent, items, review, approval, purge, facts, stored, bounds>>

(* ... or one for a run that has failed meanwhile: kept, the job stays.      *)
KeepLateOcr ==
  /\ job.status = "failed" /\ sent = job.run /\ JobFree
  /\ nodes' = job.run /\ Writes("ocr") /\ Opens(job.run, job.run)
  /\ UNCHANGED <<dossier, pipeline, items, review, approval, purge, facts, stored, ai2, bounds>>

(* AI1 uploads what it still works on; a purge deletes before it or after.   *)
Ai1Uploads ==
  /\ sent # 0 /\ ~stored /\ ~purge.on
  /\ stored' = TRUE /\ Writes("upload")
  /\ UNCHANGED <<dossier, pipeline, forms, items, review, approval, purge, nodes, facts, ai2, bounds>>

FailRun ==
  /\ job.status \in {"uploaded", "extracted"}
  /\ Mark("failed")
  /\ active' = FALSE
  /\ UNCHANGED <<asked, sent, forms, items, review, approval, purge, content, bounds>>

(* The result may have been fetched from AI2 before a purge reached it.       *)
Finalize ==
  /\ job.status = "extracted"
  /\ Mark("pending_review")
  /\ \E open \in SUBSET Facts :
       items' = [i \in Items |-> IF i[1] = job.run /\ i[2] \in open
                   THEN [status |-> "open", version |-> 1, run |-> job.run] ELSE items[i]]
  /\ active' = FALSE /\ facts' = TRUE /\ Writes("result")
  /\ UNCHANGED <<forms, asked, sent, review, approval, purge, nodes, stored, ai2, bounds>>
-----------------------------------------------------------------------------
(* Deletion *)
Tombstone ==
  /\ DossierFree /\ JobFree /\ ~dossier.deleted
  /\ dossier' = [dossier EXCEPT !.deleted = TRUE]
  /\ job' = IF job.status = "uploaded" THEN [job EXCEPT !.status = "cancelled"] ELSE job
  /\ active' = FALSE
  /\ purge' = [purge EXCEPT !.status = "pending"]
  /\ UNCHANGED <<asked, sent, forms, items, review, approval, content, bounds>>

\* Mutant: a failed purge is not taken up again.
OwedPending == purge.status = "pending"
(* what the background task and the sweep take up *)
Owed == purge.status \in {"pending", "failed"}

(* _delete_blob: a deletion that fails is logged, counted as missed and not *)
(* tried again, since the rows that name the objects are cleared.            *)
DeleteObjects(missed) == stored' \in IF missed THEN {FALSE, stored} ELSE {FALSE}

(* Once the backend's content is erased only AI2 is asked again.             *)
StartPurge ==
  /\ DossierFree /\ Owed /\ dossier.deleted
  /\ \/ /\ purge.backend
        /\ purge' = [purge EXCEPT !.on = TRUE] /\ stored' = stored
     \/ /\ ~purge.backend
        /\ \E missed \in BOOLEAN :
             /\ DeleteObjects(missed)
             /\ purge' = [purge EXCEPT !.on = TRUE, !.missed = missed]
  /\ UNCHANGED <<dossier, pipeline, forms, items, review, approval, nodes, facts, ai2, late, bounds>>

(* what a purge that commits has erased, once: not again when AI2 is retried *)
EraseContent ==
  IF purge.backend THEN UNCHANGED <<nodes, facts>> ELSE nodes' = 0 /\ facts' = FALSE

Ends(status) == [purge EXCEPT !.status = status, !.backend = TRUE, !.on = FALSE]

\* Mutant: a purge retried for AI2 alone writes its own count of blobs, 0 of 0.
CompletePurgeRecounts ==
  /\ purge.on
  /\ EraseContent /\ ai2' = "erased"
  /\ purge' = [Ends("completed") EXCEPT !.missed = ~purge.backend /\ purge.missed]
  /\ UNCHANGED <<dossier, pipeline, forms, items, review, approval, stored, late, bounds>>

CompletePurge ==
  /\ purge.on
  /\ EraseContent /\ ai2' = "erased"
  /\ purge' = Ends("completed")
  /\ UNCHANGED <<dossier, pipeline, forms, items, review, approval, stored, late, bounds>>

(* AI2 refuses, or erases and its answer is lost *)
FailPurge ==
  /\ purge.on /\ faults < MaxFaults
  /\ EraseContent /\ ai2' \in {ai2, "erased"}
  /\ purge' = Ends("failed")
  /\ faults' = faults + 1
  /\ UNCHANGED <<dossier, pipeline, forms, items, review, approval, stored, late, actions>>

(* The process dies or the database aborts: nothing of it is committed, but  *)
(* the objects are gone                                                      *)
CrashPurge ==
  /\ purge.on /\ faults < MaxFaults
  /\ purge' = [purge EXCEPT !.on = FALSE, !.missed = purge.backend /\ purge.missed]
  /\ ai2' \in {ai2, "erased"}
  /\ faults' = faults + 1
  /\ UNCHANGED <<dossier, pipeline, forms, items, review, approval, nodes, facts, stored, late, actions>>

Reviews(p) ==
  \/ \E i \in Items, outcome \in {"resolved", "awaiting"} :
       \E base \in 0..items[i].version, r \in RunsOf(i) : Submit(p, i, base, r, outcome)
  \/ CommitReview(p) \/ AbortReview(p)

Next ==
  \/ \E p \in Reviewers : Reviews(p)
  \/ \E i \in Items : \E r \in RunsOf(i) : RefuseSuperseded(i, r)
  \/ Approve \/ CommitApproval \/ AbortApproval \/ LockDossier
  \/ AskRun \/ OpenRun \/ FailRun \/ Finalize
  \/ RecordOcr \/ Extract \/ KeepLateOcr \/ Ai1Uploads
  \/ Tombstone \/ StartPurge \/ CompletePurge \/ FailPurge \/ CrashPurge

Spec == Init /\ [][Next]_vars

(* Transactions end, and the maintenance loop keeps taking up what is owed. *)
FairSpec ==
  /\ Spec
  /\ \A p \in Reviewers : WF_vars(CommitReview(p))
  /\ WF_vars(CommitApproval)
  /\ WF_vars(StartPurge) /\ WF_vars(CompletePurge)
-----------------------------------------------------------------------------
Statuses == {"uploaded", "extracted", "failed", "cancelled", "pending_review", "reviewed",
             "approved"}
TypeOK ==
  /\ dossier \in [status : Statuses, approved : BOOLEAN, locked : BOOLEAN, deleted : BOOLEAN]
  /\ job \in [status : Statuses, run : 1..MaxRuns]
  /\ active \in BOOLEAN /\ asked \in BOOLEAN /\ facts \in BOOLEAN /\ nodes \in 0..MaxRuns
  /\ forms \subseteq (1..MaxRuns) \X (1..MaxRuns)
  /\ items \in [Items -> [status : {"none", "resolved"} \cup Counted, version : Nat,
                          run : 0..MaxRuns]]
  /\ review \in [Reviewers -> [writing : BOOLEAN, item : Items, base : Nat,
                   run : 0..MaxRuns, outcome : {"resolved", "awaiting"}, last : BOOLEAN,
                   seen : Statuses]]
  /\ approval \in [on : BOOLEAN, seen : Statuses]
  /\ purge \in [status : {"none", "pending", "failed", "completed"}, backend : BOOLEAN,
                missed : BOOLEAN, on : BOOLEAN]
  /\ sent \in 0..MaxRuns /\ stored \in BOOLEAN /\ ai2 \in {"none", "held", "erased"}
  /\ late \subseteq {"upload", "ocr", "result"}
  /\ actions \in Nat /\ faults \in Nat

Sealed == dossier.approved \/ dossier.locked \/ dossier.deleted

(* The action that closes the last open item of a dossier in review moves   *)
(* the dossier to reviewed, whoever else closes an item at that moment      *)
(* ("two reviewers closing the last two items must see each other's work"). *)
LastCloseMoves ==
  [][dossier.status = "pending_review" /\ OpenItems # {} /\ OpenItems' = {}
       => dossier'.status = "reviewed"]_vars

(* Once a dossier is approved, locked or deleted no review action lands on  *)
(* an item it had: none in flight at that moment, none sent from a form     *)
(* opened before.                                                           *)
SealedStays ==
  [][Sealed => \A i \in Items : items[i].version > 0 => items'[i] = items[i]]_vars

(* No action is lost: it lands on the version its form showed, so that of   *)
(* two reviewers who decide on the same version one is refused ("optimistic *)
(* lock"), and a run's result never replaces an item that was decided on.   *)
NoActionLost ==
  [][\A i \in Items : items[i].version > 0 /\ items'[i] # items[i]
       => items'[i].version = items[i].version + 1]_vars

(* An approved dossier has no open item of its current run, or of none:     *)
(* nothing was opened or reopened while or after the items were counted.    *)
ApprovedIsClosed ==
  dossier.status = "approved" => \A i \in OpenItems : items[i].run \notin {0, job.run}

(* What the record of a completed deletion says is so: AI2 has erased the   *)
(* dossier, and holds nothing of what a late hand-off brings; an object is   *)
(* still stored only if the evidence counts fewer blobs deleted than there   *)
(* were, however often AI2 had to be asked again, or AI1 uploaded it since;  *)
(* clauses and facts are there only if a late OCR, or a late AI2 result,     *)
(* brought that very kind after they were erased.                            *)
PurgeRecordIsTrue ==
  purge.status = "completed" =>
    /\ ai2 = "erased"
    /\ stored => purge.missed \/ "upload" \in late
    /\ nodes # 0 => "ocr" \in late
    /\ facts => "result" \in late

(* The purge covers "PDF, render, OCR, extraction", and after a deletion "a  *)
(* late output is not published" (AI2-01): a purged dossier stays without    *)
(* facts and findings.                                                       *)
PurgedStaysWithoutFacts == purge.status = "completed" => ~facts

(* Every deletion completes, over failures of AI2, crashes and the failed   *)
(* attempts the sweep finds.                                                *)
DeletionCompletes == dossier.deleted ~> purge.status = "completed"

(* In a dossier in review every open item is one reviewers can act on: of   *)
(* the run under review, or of no run.                                      *)
OpenItemsAreCurrent ==
  dossier.status = "pending_review" /\ job.status = "pending_review" /\ ~Sealed
    => \A i \in OpenItems : items[i].run \in {0, job.run}
=============================================================================
