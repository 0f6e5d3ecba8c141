------------------------ MODULE DossierRecordProofs ------------------------
(***************************************************************************)
(* Review, approval and deletion of a dossier keep to their order, for any *)
(* number of reviewers, items, runs, actions and faults.                   *)
(*                                                                         *)
(* The row locks are the argument: a review action, an approval and a      *)
(* purge never overlap (Exclusive), so what each has read of the items     *)
(* still holds when it commits.  POST /runs takes none of these locks, but *)
(* a new run has no items yet (NothingAhead).                              *)
(***************************************************************************)
EXTENDS DossierRecord, TLAPS

Exclusive ==
  /\ \A p, q \in Reviewers : Writing(p) /\ Writing(q) => p = q
  /\ \A p \in Reviewers : Writing(p) => ~approval.on /\ ~purge.on /\ ~Sealed
  /\ ~(approval.on /\ purge.on)

(* No row or form is of a run the job has not reached.                       *)
NothingAhead ==
  /\ asked => job.run < MaxRuns
  /\ nodes <= job.run
  /\ \A n, r \in 1..MaxRuns : <<n, r>> \in forms => r <= job.run
  /\ \A i \in Items : items[i].run <= job.run
  /\ \A p \in Reviewers : Writing(p) => review[p].run <= job.run

Closed(i) == items[i].status \in Counted => items[i].run \notin {0, job.run}
ClosedForApproval ==
  /\ dossier.status = "approved" => dossier.approved
  /\ approval.on \/ dossier.status = "approved" => \A i \in Items : Closed(i)

(* What is left of the backend's content and why: from the commit that       *)
(* erased it, and for the objects from their deletion on.                    *)
PurgeIsTrue ==
  /\ purge.status # "none" \/ purge.backend => dossier.deleted
  /\ purge.on => purge.status \in {"pending", "failed"}
  /\ Erasing /\ stored => purge.missed
  /\ purge.backend /\ stored => purge.missed \/ "upload" \in late
  /\ purge.backend /\ nodes # 0 => "ocr" \in late
  /\ purge.backend /\ facts => "result" \in late
  /\ purge.status = "completed" => purge.backend /\ ai2 = "erased"

(* A writer that leaves no item open knows it.                               *)
LastIsKnown ==
  \A p \in Reviewers :
    Writing(p) /\ review[p].outcome = "resolved" /\ OpenItems \subseteq {review[p].item}
      => review[p].last

(* A fact has its item since its run was finalised, and an action on it      *)
(* needs the item.                                                           *)
FactsAreFinal ==
  /\ \A i \in Items : i[2] \in Facts /\ items[i].version > 0 =>
       i[1] <= job.run /\ (i[1] = job.run => job.status \notin {"uploaded", "extracted"})
  /\ \A p \in Reviewers :
       Writing(p) /\ review[p].item[2] \in Facts => items[review[p].item].version > 0

(* What an action has read of its item stands until it commits.              *)
ReadStands ==
  \A p \in Reviewers : Writing(p) => items[review[p].item].version = review[p].base

RecordIntegrity ==
  TypeOK /\ Exclusive /\ NothingAhead /\ ClosedForApproval /\ PurgeIsTrue /\ LastIsKnown
-----------------------------------------------------------------------------
Transactions ==
  [writing : BOOLEAN, item : Items, base : Nat, run : 0..MaxRuns,
   outcome : {"resolved", "awaiting"}, last : BOOLEAN, seen : Statuses]
Rows == [status : {"none", "resolved"} \cup Counted, version : Nat, run : 0..MaxRuns]
Purges == [status : {"none", "pending", "failed", "completed"}, backend : BOOLEAN,
           missed : BOOLEAN, on : BOOLEAN]

LEMMA IdleType == Idle \in Transactions /\ ~Idle.writing
  <1>1. (CHOOSE t \in Targets : TRUE) \in Targets
    BY TargetsAssumption DEF Targets
  <1>2. <<1, CHOOSE t \in Targets : TRUE>> \in Items
    BY <1>1, BoundsAssumption DEF Items
  <1> QED
    BY <1>2, BoundsAssumption DEF Idle, Transactions, Statuses

LEMMA InitIntegrity == Init => RecordIntegrity
  <1> SUFFICES ASSUME Init PROVE RecordIntegrity
    OBVIOUS
  <1>1. TypeOK
    <2>1. items \in [Items -> Rows] /\ review \in [Reviewers -> Transactions]
      BY IdleType, BoundsAssumption DEF Init, NoItem, Rows, Counted
    <2>2. /\ dossier \in [status : Statuses, approved : BOOLEAN, locked : BOOLEAN, deleted : BOOLEAN]
          /\ job \in [status : Statuses, run : 1..MaxRuns]
          /\ approval \in [on : BOOLEAN, seen : Statuses]
          /\ purge \in Purges
      BY BoundsAssumption DEF Init, NotApproving, Statuses, Purges
    <2>3. forms \subseteq (1..MaxRuns) \X (1..MaxRuns) /\ nodes \in 0..MaxRuns
      BY BoundsAssumption DEF Init
    <2>4. active \in BOOLEAN /\ facts \in BOOLEAN /\ sent \in 0..MaxRuns /\ stored \in BOOLEAN
          /\ ai2 \in {"none", "held", "erased"} /\ late = {}
      BY BoundsAssumption DEF Init
    <2> QED
      BY <2>1, <2>2, <2>3, <2>4 DEF Init, TypeOK, Rows, Transactions, Purges
  <1>2. \A p \in Reviewers : ~Writing(p)
    BY IdleType DEF Init, Writing
  <1>3. Exclusive /\ LastIsKnown
    BY <1>2 DEF Init, Exclusive, LastIsKnown, NotApproving
  <1>4. job.run = 1 /\ nodes <= 1 /\ asked = FALSE /\ \A i \in Items : items[i].run = 0
    BY DEF Init, NoItem
  <1>5. \A n, r \in 1..MaxRuns : <<n, r>> \in forms => r <= 1
    BY BoundsAssumption DEF Init
  <1>6. NothingAhead
    BY <1>2, <1>4, <1>5 DEF NothingAhead
  <1>7. ClosedForApproval /\ PurgeIsTrue
    BY DEF Init, ClosedForApproval, PurgeIsTrue, Erasing, NotApproving
  <1> QED
    BY <1>1, <1>3, <1>6, <1>7 DEF RecordIntegrity
-----------------------------------------------------------------------------
(* Types *)

LEMMA RunsType ==
  ASSUME TypeOK, NEW i \in Items, NEW r \in RunsOf(i)
  PROVE  r \in 0..MaxRuns
  BY DEF RunsOf, TypeOK, Rows

LEMMA ReviewType ==
  ASSUME TypeOK, NEW p \in Reviewers, Reviews(p)
  PROVE  TypeOK'
  <1>1. ASSUME NEW i \in Items, NEW outcome \in {"resolved", "awaiting"},
               NEW base \in 0..items[i].version, NEW r \in RunsOf(i),
               Submit(p, i, base, r, outcome)
        PROVE  TypeOK'
    <2> DEFINE tx == [writing |-> TRUE, item |-> i, base |-> base, run |-> r, outcome |-> outcome,
                      last |-> outcome \notin Counted /\ OpenItems \subseteq {i},
                      seen |-> job.status]
    <2>1. base \in Nat /\ r \in 0..MaxRuns /\ job.status \in Statuses
      BY RunsType DEF TypeOK
    <2>2. tx \in Transactions
      BY <2>1 DEF Transactions
    <2>3. review' = [review EXCEPT ![p] = tx]
      BY <1>1 DEF Submit
    <2> HIDE DEF tx
    <2>4. review' \in [Reviewers -> Transactions]
      BY <2>2, <2>3 DEF TypeOK, Transactions
    <2> QED
      BY <1>1, <2>4 DEF Submit, TypeOK, Transactions, pipeline, content, bounds
  <1>2. ASSUME CommitReview(p) PROVE TypeOK'
    <2> DEFINE row == [status |-> review[p].outcome, version |-> NextVersion(review[p].base),
                       run |-> review[p].run]
    <2>1. row \in Rows /\ review[p].item \in Items
      BY DEF TypeOK, Rows, Counted, NextVersion
    <2>2. items' = [items EXCEPT ![review[p].item] = row]
      BY <1>2 DEF CommitReview
    <2> HIDE DEF row
    <2>3. items' \in [Items -> Rows]
      BY <2>1, <2>2 DEF TypeOK, Rows
    <2>4. review' \in [Reviewers -> Transactions]
      BY <1>2, IdleType DEF CommitReview, Leave, TypeOK, Transactions
    <2>5. /\ dossier' \in [status : Statuses, approved : BOOLEAN, locked : BOOLEAN, deleted : BOOLEAN]
          /\ job' \in [status : Statuses, run : 1..MaxRuns]
      BY <1>2 DEF CommitReview, TypeOK, Statuses
    <2>6. actions' \in Nat
      BY <1>2 DEF CommitReview, TypeOK
    <2> QED
      BY <1>2, <2>3, <2>4, <2>5, <2>6 DEF CommitReview, TypeOK, Rows, Transactions, content
  <1>3. ASSUME AbortReview(p) PROVE TypeOK'
    BY <1>3, IdleType DEF AbortReview, Leave, TypeOK, Transactions, pipeline, content, bounds
  <1> QED
    BY <1>1, <1>2, <1>3 DEF Reviews

LEMMA RefuseType ==
  ASSUME TypeOK, NEW i \in Items, NEW r \in RunsOf(i), RefuseSuperseded(i, r)
  PROVE  TypeOK'
  <1>1. [status |-> "open", version |-> 1, run |-> r] \in Rows
    BY RunsType DEF Rows, Counted
  <1>2. items' \in [Items -> Rows]
    BY <1>1 DEF RefuseSuperseded, TypeOK, Rows
  <1> QED
    BY <1>2 DEF RefuseSuperseded, TypeOK, Rows, pipeline, content, bounds

LEMMA ApprovalType ==
  ASSUME TypeOK, Approve \/ CommitApproval \/ AbortApproval \/ LockDossier
  PROVE  TypeOK'
  <1>1. CASE Approve
    BY <1>1 DEF Approve, TypeOK, pipeline, content, bounds
  <1>2. CASE CommitApproval
    BY <1>2 DEF CommitApproval, NotApproving, TypeOK, Statuses, content, bounds
  <1>3. CASE AbortApproval
    BY <1>3 DEF AbortApproval, NotApproving, TypeOK, Statuses, pipeline, content, bounds
  <1>4. CASE LockDossier
    <2>1. dossier' \in [status : Statuses, approved : BOOLEAN, locked : BOOLEAN, deleted : BOOLEAN]
      BY <1>4 DEF LockDossier, TypeOK
    <2> QED
      BY <1>4, <2>1 DEF LockDossier, TypeOK, pipeline, content, bounds
  <1> QED
    BY <1>1, <1>2, <1>3, <1>4

Runs == AskRun \/ OpenRun \/ RecordOcr \/ Extract \/ FailRun \/ Finalize
AfterFailure == KeepLateOcr \/ Ai1Uploads

LEMMA OcrType ==
  ASSUME TypeOK, nodes' = job.run, Writes("ocr"), Opens(job.run, job.run)
  PROVE  /\ nodes' \in 0..MaxRuns /\ late' \subseteq {"upload", "ocr", "result"}
         /\ forms' \subseteq (1..MaxRuns) \X (1..MaxRuns)
  BY BoundsAssumption DEF TypeOK, Writes, Opens

LEMMA MarkType ==
  ASSUME TypeOK, NEW s \in Statuses, Mark(s)
  PROVE  /\ dossier' \in [status : Statuses, approved : BOOLEAN, locked : BOOLEAN, deleted : BOOLEAN]
         /\ job' \in [status : Statuses, run : 1..MaxRuns]
  BY DEF Mark, TypeOK

LEMMA RunType ==
  ASSUME TypeOK, NothingAhead, Runs \/ AfterFailure
  PROVE  TypeOK'
  <1>1. CASE AskRun
    BY <1>1 DEF AskRun, TypeOK, content, bounds
  <1>2. CASE OpenRun
    <2>1. job.run + 1 \in 1..MaxRuns
      BY <1>2, BoundsAssumption DEF OpenRun, NothingAhead, TypeOK
    <2>2. job' \in [status : Statuses, run : 1..MaxRuns]
      BY <1>2, <2>1 DEF OpenRun, Statuses
    <2>3. forms' \subseteq (1..MaxRuns) \X (1..MaxRuns)
      BY <1>2, <2>1 DEF OpenRun, Opens, TypeOK
    <2>4. sent' \in 0..MaxRuns
      BY <1>2, <2>1 DEF OpenRun, TypeOK
    <2>5. /\ active' \in BOOLEAN /\ asked' \in BOOLEAN
          /\ UNCHANGED <<dossier, items, review, approval, purge>>
          /\ UNCHANGED <<nodes, facts, stored, ai2, late, actions, faults>>
      BY <1>2 DEF OpenRun, content, bounds
    <2> QED
      BY <2>2, <2>3, <2>4, <2>5 DEF TypeOK
  <1>3. CASE RecordOcr
    <2>1. Mark("uploaded") /\ nodes' = job.run /\ Writes("ocr") /\ Opens(job.run, job.run)
      BY <1>3 DEF RecordOcr
    <2> QED
      BY <1>3, <2>1, OcrType, MarkType DEF RecordOcr, TypeOK, Statuses, bounds
  <1>4. CASE Extract
    <2>1. Mark("extracted") /\ nodes' = job.run /\ Writes("ocr") /\ Opens(job.run, job.run)
      BY <1>4 DEF Extract
    <2>2. ai2' \in {"none", "held", "erased"}
      BY <1>4 DEF Extract, TypeOK
    <2> QED
      BY <1>4, <2>1, <2>2, OcrType, MarkType DEF Extract, TypeOK, Statuses, bounds
  <1>5. CASE FailRun
    <2>1. /\ dossier' \in [status : Statuses, approved : BOOLEAN, locked : BOOLEAN, deleted : BOOLEAN]
          /\ job' \in [status : Statuses, run : 1..MaxRuns]
      BY <1>5, MarkType DEF FailRun, Statuses
    <2> QED
      BY <1>5, <2>1 DEF FailRun, TypeOK, content, bounds
  <1>6. CASE Finalize
    <2>1. [status |-> "open", version |-> 1, run |-> job.run] \in Rows
      BY BoundsAssumption DEF Rows, Counted, TypeOK
    <2>2. items' \in [Items -> Rows]
      BY <1>6, <2>1 DEF Finalize, TypeOK, Rows
    <2>3. /\ dossier' \in [status : Statuses, approved : BOOLEAN, locked : BOOLEAN, deleted : BOOLEAN]
          /\ job' \in [status : Statuses, run : 1..MaxRuns]
      BY <1>6, MarkType DEF Finalize, Statuses
    <2>4. late' \subseteq {"upload", "ocr", "result"}
      BY <1>6 DEF Finalize, Writes, TypeOK
    <2> QED
      BY <1>6, <2>2, <2>3, <2>4 DEF Finalize, TypeOK, Rows, bounds
  <1>7. CASE KeepLateOcr
    <2>1. nodes' = job.run /\ Writes("ocr") /\ Opens(job.run, job.run)
      BY <1>7 DEF KeepLateOcr
    <2> QED
      BY <1>7, <2>1, OcrType DEF KeepLateOcr, TypeOK, pipeline, bounds
  <1>8. CASE Ai1Uploads
    <2>1. late' \subseteq {"upload", "ocr", "result"}
      BY <1>8 DEF Ai1Uploads, Writes, TypeOK
    <2> QED
      BY <1>8, <2>1 DEF Ai1Uploads, TypeOK, pipeline, bounds
  <1> QED
    BY <1>1, <1>2, <1>3, <1>4, <1>5, <1>6, <1>7, <1>8 DEF Runs, AfterFailure

Deletes == Tombstone \/ StartPurge \/ CompletePurge \/ FailPurge \/ CrashPurge

LEMMA DeletionType ==
  ASSUME TypeOK, Deletes
  PROVE  TypeOK'
  <1> DEFINE Erased == nodes' \in 0..MaxRuns /\ facts' \in BOOLEAN
  <1> DEFINE Ai2Type == ai2' \in {"none", "held", "erased"}
  <1>0. EraseContent => Erased
    <2>1. nodes \in 0..MaxRuns /\ facts \in BOOLEAN /\ 0 \in 0..MaxRuns
      BY BoundsAssumption DEF TypeOK
    <2> QED
      BY <2>1 DEF EraseContent
  <1>1. purge \in Purges
    BY DEF TypeOK, Purges
  <1>2. Ends("completed") \in Purges /\ Ends("failed") \in Purges
    BY <1>1 DEF Ends, Purges
  <1>3. CASE Tombstone
    <2>1. /\ dossier' \in [status : Statuses, approved : BOOLEAN, locked : BOOLEAN, deleted : BOOLEAN]
          /\ job' \in [status : Statuses, run : 1..MaxRuns]
      BY <1>3 DEF Tombstone, TypeOK, Statuses
    <2>2. purge' \in Purges
      BY <1>1, <1>3 DEF Tombstone, Purges
    <2> QED
      BY <1>3, <2>1, <2>2 DEF Tombstone, TypeOK, Purges, content, bounds
  <1>4. CASE StartPurge
    <2>1. purge' \in Purges /\ stored' \in BOOLEAN
      BY <1>1, <1>4 DEF StartPurge, DeleteObjects, Purges, TypeOK
    <2> QED
      BY <1>4, <2>1 DEF StartPurge, TypeOK, Purges, pipeline, bounds
  <1>5. CASE CompletePurge
    <2>1. purge' \in Purges /\ Ai2Type /\ Erased
      BY <1>0, <1>2, <1>5 DEF CompletePurge
    <2> QED
      BY <1>5, <2>1 DEF CompletePurge, TypeOK, Purges, pipeline, bounds
  <1>6. CASE FailPurge
    <2>1. purge' \in Purges /\ Ai2Type /\ Erased /\ faults' \in Nat
      BY <1>0, <1>2, <1>6 DEF FailPurge, TypeOK
    <2> QED
      BY <1>6, <2>1 DEF FailPurge, TypeOK, Purges, pipeline
  <1>7. CASE CrashPurge
    <2>1. purge' \in Purges
      <3>1. (purge.backend /\ purge.missed) \in BOOLEAN
        OBVIOUS
      <3> QED
        BY <1>1, <1>7, <3>1 DEF CrashPurge, Purges
    <2>2. Ai2Type /\ faults' \in Nat
      BY <1>7 DEF CrashPurge, TypeOK
    <2> QED
      BY <1>7, <2>1, <2>2 DEF CrashPurge, TypeOK, Purges, pipeline
  <1> QED
    BY <1>3, <1>4, <1>5, <1>6, <1>7 DEF Deletes

LEMMA StutterIntegrity == RecordIntegrity /\ UNCHANGED vars => RecordIntegrity'
  <1> SUFFICES ASSUME RecordIntegrity, UNCHANGED vars PROVE RecordIntegrity'
    OBVIOUS
  <1>1. TypeOK'
    BY DEF RecordIntegrity, TypeOK, vars, pipeline, content, bounds
  <1>2. Exclusive' /\ NothingAhead'
    BY DEF RecordIntegrity, Exclusive, NothingAhead, Writing, Sealed, vars, pipeline, content, bounds
  <1>3. ClosedForApproval' /\ PurgeIsTrue'
    BY DEF RecordIntegrity, ClosedForApproval, Closed, PurgeIsTrue, Erasing, vars, pipeline, content, bounds
  <1>4. LastIsKnown'
    BY DEF RecordIntegrity, LastIsKnown, Writing, OpenItems, vars
  <1> QED
    BY <1>1, <1>2, <1>3, <1>4 DEF RecordIntegrity
-----------------------------------------------------------------------------
(* Review actions *)

LEMMA SubmitIntegrity ==
  ASSUME RecordIntegrity, NEW p \in Reviewers, NEW i \in Items,
         NEW outcome \in {"resolved", "awaiting"}, NEW base \in 0..items[i].version,
         NEW r \in RunsOf(i), Submit(p, i, base, r, outcome)
  PROVE  RecordIntegrity'
  <1> USE DEF RecordIntegrity
  <1> DEFINE tx == [writing |-> TRUE, item |-> i, base |-> base, run |-> r, outcome |-> outcome,
                    last |-> outcome \notin Counted /\ OpenItems \subseteq {i},
                    seen |-> job.status]
  <1>1. review' = [review EXCEPT ![p] = tx] /\ tx.run = r /\ tx.item = i /\ tx.outcome = outcome
        /\ tx.last = (outcome \notin Counted /\ OpenItems \subseteq {i})
    BY DEF Submit
  <1> HIDE DEF tx
  <1>2. review'[p] = tx /\ \A q \in Reviewers \ {p} : review'[q] = review[q]
    BY <1>1 DEF TypeOK
  <1>3. TypeOK'
    BY ReviewType DEF Reviews
  <1>4. /\ \A q \in Reviewers : ~Writing(q)
        /\ ~approval.on /\ ~purge.on /\ ~Sealed
    BY DEF Submit, ReviewFree, DossierFree, Refused, Sealed
  <1>5. Exclusive'
    BY <1>2, <1>4 DEF Exclusive, Submit, Writing, Sealed
  <1>6. r <= job.run
    BY BoundsAssumption DEF Submit, Superseded, TypeOK
  <1>7. NothingAhead'
    BY <1>1, <1>2, <1>4, <1>6 DEF NothingAhead, Submit, Writing, pipeline, content
  <1>8. ClosedForApproval' /\ PurgeIsTrue'
    BY DEF ClosedForApproval, Closed, PurgeIsTrue, Erasing, Submit, pipeline, content
  <1>9. LastIsKnown'
    BY <1>1, <1>2, <1>4 DEF LastIsKnown, Submit, Writing, OpenItems, Counted
  <1> QED
    BY <1>3, <1>5, <1>7, <1>8, <1>9

LEMMA CommitReviewIntegrity ==
  ASSUME RecordIntegrity, NEW p \in Reviewers, CommitReview(p)
  PROVE  RecordIntegrity'
  <1> USE DEF RecordIntegrity
  <1> DEFINE row == [status |-> review[p].outcome, version |-> NextVersion(review[p].base),
                     run |-> review[p].run]
  <1>1. items' = [items EXCEPT ![review[p].item] = row] /\ row.run = review[p].run
    BY DEF CommitReview
  <1> HIDE DEF row
  <1>2. \A i \in Items : items'[i].run \in {items[i].run, review[p].run}
    BY <1>1 DEF TypeOK
  <1>3. TypeOK'
    BY ReviewType DEF Reviews
  <1>4. Writing(p) /\ ~approval.on /\ ~purge.on /\ ~Sealed
        /\ \A q \in Reviewers : q # p => ~Writing(q)
    BY DEF CommitReview, Exclusive
  <1>5. \A q \in Reviewers : ~Writing(q)'
    BY <1>4, IdleType DEF CommitReview, Leave, Writing, TypeOK
  <1>6. job'.run = job.run /\ dossier'.status \in {dossier.status, "reviewed"}
        /\ dossier'.approved = dossier.approved /\ dossier'.deleted = dossier.deleted
    BY DEF CommitReview, TypeOK
  <1>7. Exclusive' /\ LastIsKnown'
    BY <1>4, <1>5 DEF Exclusive, LastIsKnown, CommitReview
  <1>8. NothingAhead'
    BY <1>2, <1>4, <1>5, <1>6 DEF NothingAhead, CommitReview, content
  <1>9. ClosedForApproval'
    BY <1>4, <1>6 DEF ClosedForApproval, CommitReview, Sealed
  <1>10. PurgeIsTrue'
    BY <1>6 DEF PurgeIsTrue, Erasing, CommitReview, content
  <1> QED
    BY <1>3, <1>7, <1>8, <1>9, <1>10

LEMMA AbortReviewIntegrity ==
  ASSUME RecordIntegrity, NEW p \in Reviewers, AbortReview(p)
  PROVE  RecordIntegrity'
  <1> USE DEF RecordIntegrity
  <1>1. \A q \in Reviewers : Writing(q)' => Writing(q) /\ review'[q] = review[q]
    BY IdleType DEF AbortReview, Leave, Writing, TypeOK
  <1>2. TypeOK'
    BY ReviewType DEF Reviews
  <1>3. Exclusive' /\ LastIsKnown'
    BY <1>1 DEF Exclusive, LastIsKnown, AbortReview, Sealed, OpenItems
  <1>4. NothingAhead'
    BY <1>1 DEF NothingAhead, AbortReview, pipeline, content
  <1>5. ClosedForApproval' /\ PurgeIsTrue'
    BY DEF ClosedForApproval, Closed, PurgeIsTrue, Erasing, AbortReview, pipeline, content
  <1> QED
    BY <1>2, <1>3, <1>4, <1>5

(* The row a refused request leaves behind is of an older run.               *)
LEMMA RefuseIntegrity ==
  ASSUME RecordIntegrity, NEW i \in Items, NEW r \in RunsOf(i), RefuseSuperseded(i, r)
  PROVE  RecordIntegrity'
  <1> USE DEF RecordIntegrity
  <1> DEFINE row == [status |-> "open", version |-> 1, run |-> r]
  <1>1. items' = [items EXCEPT ![i] = row] /\ row.run = r /\ row.status = "open"
    BY DEF RefuseSuperseded
  <1> HIDE DEF row
  <1>2. items'[i] = row /\ \A j \in Items \ {i} : items'[j] = items[j]
    BY <1>1 DEF TypeOK
  <1>3. items[i].version = 0 /\ r \in 1..MaxRuns /\ <<i[1], r>> \in forms /\ r # job.run
    BY DEF RefuseSuperseded, RunsOf, Superseded, TypeOK
  <1>4. TypeOK'
    BY RefuseType
  <1>5. i[1] \in 1..MaxRuns /\ r <= job.run
    BY <1>3 DEF NothingAhead, Items
  <1>6. NothingAhead'
    BY <1>1, <1>2, <1>5 DEF NothingAhead, RefuseSuperseded, Writing, pipeline, content
  <1>7. ClosedForApproval'
    BY <1>1, <1>2, <1>3 DEF ClosedForApproval, Closed, RefuseSuperseded, pipeline
  <1>8. PurgeIsTrue' /\ Exclusive'
    BY DEF PurgeIsTrue, Erasing, Exclusive, RefuseSuperseded, Writing, Sealed, content
  <1>9. OpenItems \subseteq OpenItems'
    BY <1>1, <1>2 DEF OpenItems, Counted
  <1>10. LastIsKnown'
    BY <1>9 DEF LastIsKnown, RefuseSuperseded, Writing
  <1> QED
    BY <1>4, <1>6, <1>7, <1>8, <1>10
-----------------------------------------------------------------------------
(* Approval *)

LEMMA ApprovalIntegrity ==
  ASSUME RecordIntegrity, Approve \/ CommitApproval \/ AbortApproval \/ LockDossier
  PROVE  RecordIntegrity'
  <1> USE DEF RecordIntegrity
  <1>1. TypeOK'
    BY ApprovalType
  <1>2. UNCHANGED <<items, review, purge, content, asked, forms>> /\ job'.run = job.run
    BY DEF Approve, CommitApproval, AbortApproval, LockDossier, pipeline, TypeOK
  <1>3. LastIsKnown'
    BY <1>2 DEF LastIsKnown, Writing, OpenItems
  <1>4. NothingAhead'
    BY <1>2 DEF NothingAhead, Writing, content
  <1>5. dossier'.deleted = dossier.deleted
    BY DEF Approve, CommitApproval, AbortApproval, LockDossier, TypeOK
  <1>6. PurgeIsTrue'
    BY <1>2, <1>5 DEF PurgeIsTrue, Erasing, content
  <1>7. \A i \in Items : Closed(i)' = Closed(i)
    BY <1>2 DEF Closed
  <1>8. CASE Approve
    <2>1. DossierFree /\ OpenItems = {} /\ approval'.on /\ dossier' = dossier
      BY <1>8 DEF Approve, Approvable
    <2>2. Exclusive'
      BY <1>2, <2>1 DEF DossierFree, Exclusive, Writing
    <2>3. \A i \in Items : Closed(i)
      BY <2>1 DEF OpenItems, Closed
    <2>4. ClosedForApproval'
      BY <1>7, <2>1, <2>3 DEF ClosedForApproval
    <2> QED
      BY <1>1, <1>3, <1>4, <1>6, <2>2, <2>4
  <1>9. CASE CommitApproval
    <2>1. approval.on /\ ~approval'.on /\ dossier'.approved /\ \A i \in Items : Closed(i)
      BY <1>9 DEF CommitApproval, NotApproving, ClosedForApproval, TypeOK
    <2>2. Exclusive'
      BY <1>2, <2>1 DEF Exclusive, Writing
    <2>3. ClosedForApproval'
      BY <1>7, <2>1 DEF ClosedForApproval
    <2> QED
      BY <1>1, <1>3, <1>4, <1>6, <2>2, <2>3
  <1>10. CASE AbortApproval
    <2>1. ~approval'.on /\ dossier' = dossier
      BY <1>10 DEF AbortApproval, NotApproving
    <2>2. Exclusive' /\ ClosedForApproval'
      BY <1>2, <1>7, <2>1 DEF Exclusive, ClosedForApproval, Writing, Sealed
    <2> QED
      BY <1>1, <1>3, <1>4, <1>6, <2>2
  <1>11. CASE LockDossier
    <2>1. DossierFree /\ dossier'.status = dossier.status /\ dossier'.approved = dossier.approved
          /\ approval' = approval
      BY <1>11 DEF LockDossier, TypeOK
    <2>2. Exclusive' /\ ClosedForApproval'
      BY <1>2, <1>7, <2>1 DEF DossierFree, Exclusive, ClosedForApproval, Writing
    <2> QED
      BY <1>1, <1>3, <1>4, <1>6, <2>2
  <1> QED
    BY <1>8, <1>9, <1>10, <1>11
-----------------------------------------------------------------------------
(* Runs *)

(* What comes after the backend's content was erased is known to be late.    *)
LateKnown ==
  /\ late \subseteq late'
  /\ purge.backend /\ nodes' # nodes => "ocr" \in late'
  /\ purge.backend /\ facts' # facts => "result" \in late'
  /\ stored' # stored => ~purge.on /\ (purge.backend => "upload" \in late')
  /\ ai2 = "erased" => ai2' = "erased"

LEMMA PurgeStaysTrue ==
  ASSUME PurgeIsTrue, LateKnown, purge' = purge, dossier'.deleted = dossier.deleted
  PROVE  PurgeIsTrue'
  <1>1. purge.backend /\ nodes' # 0 => "ocr" \in late'
    BY DEF PurgeIsTrue, LateKnown
  <1>2. purge.backend /\ facts' => "result" \in late'
    BY DEF PurgeIsTrue, LateKnown
  <1>3. purge.backend /\ stored' => purge.missed \/ "upload" \in late'
    BY DEF PurgeIsTrue, LateKnown
  <1>4. Erasing /\ stored' => purge.missed
    BY DEF PurgeIsTrue, LateKnown, Erasing
  <1>5. purge.status = "completed" => ai2' = "erased"
    BY DEF PurgeIsTrue, LateKnown
  <1> QED
    BY <1>1, <1>2, <1>3, <1>4, <1>5 DEF PurgeIsTrue, Erasing

(* The worker's steps hold the dossier's row: nothing else is in flight.     *)
LEMMA WorkerIntegrity ==
  ASSUME RecordIntegrity, TypeOK', DossierFree, NEW s \in Statuses \ {"approved"}, Mark(s),
         \A i \in Items : items'[i] = items[i] \/ items'[i].run = job.run,
         nodes' \in {nodes, job.run}, LateKnown,
         \A n, r \in 1..MaxRuns : <<n, r>> \in forms' => <<n, r>> \in forms \/ r = job.run,
         UNCHANGED <<asked, review, approval, purge>>
  PROVE  RecordIntegrity'
  <1> USE DEF RecordIntegrity
  <1>1. job'.run = job.run /\ dossier'.status = s /\ dossier'.deleted = dossier.deleted
    BY DEF Mark, TypeOK
  <1>2. \A p \in Reviewers : ~Writing(p)'
    BY DEF DossierFree, Writing
  <1>3. ~approval'.on /\ ~purge'.on
    BY DEF DossierFree
  <1>4. Exclusive' /\ LastIsKnown'
    BY <1>2, <1>3 DEF Exclusive, LastIsKnown
  <1>5. NothingAhead'
    <2>1. job.run \in Nat
      BY DEF TypeOK
    <2>2. asked' = asked /\ nodes' <= job.run
      BY <2>1 DEF NothingAhead
    <2>3. \A i \in Items : items'[i].run <= job.run
      BY <2>1 DEF NothingAhead
    <2>4. \A n, r \in 1..MaxRuns : <<n, r>> \in forms' => r <= job.run
      BY <2>1 DEF NothingAhead
    <2> QED
      BY <1>1, <1>2, <2>2, <2>3, <2>4 DEF NothingAhead
  <1>6. ClosedForApproval'
    BY <1>1, <1>3 DEF ClosedForApproval
  <1>7. PurgeIsTrue'
    BY <1>1, PurgeStaysTrue
  <1> QED
    BY <1>4, <1>5, <1>6, <1>7

(* What arrives for a run that has failed leaves the dossier as it is.       *)
LEMMA AfterFailureIntegrity ==
  ASSUME RecordIntegrity, AfterFailure
  PROVE  RecordIntegrity'
  <1> USE DEF RecordIntegrity
  <1>1. TypeOK'
    BY RunType
  <1>2. UNCHANGED <<dossier, job, asked, items, review, approval, purge>>
    BY DEF AfterFailure, KeepLateOcr, Ai1Uploads, pipeline
  <1>3. Exclusive' /\ LastIsKnown' /\ ClosedForApproval'
    BY <1>2 DEF Exclusive, LastIsKnown, ClosedForApproval, Closed, Writing, Sealed, OpenItems
  <1>4. LateKnown
    BY DEF AfterFailure, KeepLateOcr, Ai1Uploads, LateKnown, Writes
  <1>5. PurgeIsTrue'
    BY <1>2, <1>4, PurgeStaysTrue
  <1>6. /\ nodes' \in {nodes, job.run}
        /\ \A n, r \in 1..MaxRuns : <<n, r>> \in forms' => <<n, r>> \in forms \/ r = job.run
    BY DEF AfterFailure, KeepLateOcr, Ai1Uploads, Opens
  <1>7. job.run \in Nat
    BY DEF TypeOK
  <1>8. NothingAhead'
    BY <1>2, <1>6, <1>7 DEF NothingAhead, Writing
  <1> QED
    BY <1>1, <1>3, <1>5, <1>8

LEMMA RunIntegrity ==
  ASSUME RecordIntegrity, Runs
  PROVE  RecordIntegrity'
  <1> USE DEF RecordIntegrity
  <1>1. TypeOK'
    BY RunType
  <1>2. CASE AskRun
    <2>1. UNCHANGED <<dossier, job, forms, items, review, approval, purge, content>>
          /\ job.run < MaxRuns
      BY <1>2 DEF AskRun
    <2>2. Exclusive' /\ NothingAhead' /\ LastIsKnown'
      BY <2>1 DEF Exclusive, NothingAhead, LastIsKnown, Writing, Sealed, OpenItems, content
    <2>3. ClosedForApproval' /\ PurgeIsTrue'
      BY <2>1 DEF ClosedForApproval, Closed, PurgeIsTrue, Erasing, content
    <2> QED
      BY <1>1, <2>2, <2>3
  <1>3. CASE OpenRun
    <2>1. /\ UNCHANGED <<dossier, items, review, approval, purge, content>>
          /\ job'.run = job.run + 1 /\ ~asked'
      BY <1>3 DEF OpenRun
    <2>2. \A n, r \in 1..MaxRuns : <<n, r>> \in forms' => <<n, r>> \in forms \/ r = job.run + 1
      BY <1>3 DEF OpenRun, Opens
    <2>3. job.run \in Nat /\ nodes \in Nat /\ (\A i \in Items : items[i].run \in Nat)
          /\ \A p \in Reviewers : review[p].run \in Nat
      BY DEF TypeOK
    <2>4. NothingAhead'
      BY <2>1, <2>2, <2>3 DEF NothingAhead, Writing, content
    <2>5. \A i \in Items : Closed(i) => Closed(i)'
      BY <2>1, <2>3 DEF Closed, NothingAhead
    <2>6. ClosedForApproval'
      BY <2>1, <2>5 DEF ClosedForApproval
    <2>7. Exclusive' /\ LastIsKnown' /\ PurgeIsTrue'
      BY <2>1 DEF Exclusive, LastIsKnown, PurgeIsTrue, Erasing, Writing, Sealed, OpenItems, content
    <2> QED
      BY <1>1, <2>4, <2>6, <2>7
  <1>4. CASE RecordOcr \/ Extract
    <2>1. /\ Mark("uploaded") \/ Mark("extracted")
          /\ DossierFree /\ nodes' = job.run
          /\ UNCHANGED <<asked, items, review, approval, purge>>
      BY <1>4 DEF RecordOcr, Extract, Mark
    <2>2. LateKnown
      BY <1>4 DEF RecordOcr, Extract, LateKnown, Writes
    <2>3. \A n, r \in 1..MaxRuns : <<n, r>> \in forms' => <<n, r>> \in forms \/ r = job.run
      BY <1>4 DEF RecordOcr, Extract, Opens
    <2> QED
      BY <1>1, <2>1, <2>2, <2>3, WorkerIntegrity DEF Statuses
  <1>5. CASE FailRun
    <2>1. /\ Mark("failed") /\ DossierFree /\ nodes' = nodes
          /\ UNCHANGED <<asked, forms, items, review, approval, purge>>
      BY <1>5 DEF FailRun, Mark, content
    <2>2. LateKnown
      BY <1>5 DEF FailRun, LateKnown, content
    <2> QED
      BY <1>1, <2>1, <2>2, WorkerIntegrity DEF Statuses
  <1>6. CASE Finalize
    <2>1. /\ Mark("pending_review") /\ DossierFree /\ nodes' = nodes
          /\ UNCHANGED <<asked, forms, review, approval, purge>>
      BY <1>6 DEF Finalize, Mark
    <2>2. LateKnown
      BY <1>6 DEF Finalize, LateKnown, Writes
    <2>3. \A i \in Items : items'[i] = items[i] \/ items'[i].run = job.run
      BY <1>6 DEF Finalize
    <2> QED
      BY <1>1, <2>1, <2>2, <2>3, WorkerIntegrity DEF Statuses
  <1> QED
    BY <1>2, <1>3, <1>4, <1>5, <1>6 DEF Runs
-----------------------------------------------------------------------------
(* Deletion *)

LEMMA DeletionKeepsRecordTrue ==
  ASSUME RecordIntegrity, Deletes
  PROVE  PurgeIsTrue'
  <1> USE DEF RecordIntegrity
  <1>1. CASE Tombstone
    <2>1. /\ purge'.status = "pending" /\ purge'.on = purge.on /\ purge'.backend = purge.backend
          /\ ~dossier.deleted /\ dossier'.deleted
      BY <1>1 DEF Tombstone, TypeOK
    <2>2. ~purge.backend /\ ~purge.on
      BY <1>1, <2>1 DEF PurgeIsTrue, Tombstone, DossierFree
    <2> QED
      BY <2>1, <2>2 DEF PurgeIsTrue, Erasing
  <1>2. CASE StartPurge
    <2>1. /\ dossier' = dossier /\ dossier.deleted /\ UNCHANGED <<nodes, facts, ai2, late>>
          /\ purge'.status = purge.status /\ purge'.backend = purge.backend
          /\ purge.status \in {"pending", "failed"}
      BY <1>2 DEF StartPurge, Owed, TypeOK
    <2>2. purge.backend => purge'.missed = purge.missed /\ stored' = stored
      BY <1>2 DEF StartPurge, TypeOK
    <2>3. ~purge.backend /\ stored' => purge'.missed
      BY <1>2 DEF StartPurge, DeleteObjects, TypeOK
    <2> QED
      BY <2>1, <2>2, <2>3 DEF PurgeIsTrue, Erasing
  <1>3. CASE CompletePurge \/ FailPurge
    <2>1. purge.on /\ EraseContent /\ UNCHANGED <<dossier, stored, late>>
      BY <1>3 DEF CompletePurge, FailPurge
    <2>2. /\ purge'.backend /\ ~purge'.on /\ purge'.missed = purge.missed
          /\ purge'.status = "completed" => ai2' = "erased"
      <3>1. PICK ended \in {"completed", "failed"} :
              purge' = Ends(ended) /\ (ended = "completed" => ai2' = "erased")
        BY <1>3 DEF CompletePurge, FailPurge
      <3> QED
        BY <3>1 DEF Ends, TypeOK
    <2>3. dossier.deleted
      BY <2>1 DEF PurgeIsTrue
    <2>4. stored' => purge'.missed \/ "upload" \in late'
      BY <2>1, <2>2 DEF PurgeIsTrue, Erasing
    <2>5. (nodes' # 0 => "ocr" \in late') /\ (facts' => "result" \in late')
      BY <2>1 DEF PurgeIsTrue, EraseContent
    <2> QED
      BY <2>1, <2>2, <2>3, <2>4, <2>5 DEF PurgeIsTrue, Erasing
  <1>4. CASE CrashPurge
    <2>1. /\ UNCHANGED <<dossier, nodes, facts, stored, late>>
          /\ ~purge'.on /\ purge'.status = purge.status /\ purge'.backend = purge.backend
          /\ purge.backend => purge'.missed = purge.missed
          /\ ai2 = "erased" => ai2' = "erased"
      BY <1>4 DEF CrashPurge, TypeOK
    <2> QED
      BY <2>1 DEF PurgeIsTrue, Erasing
  <1> QED
    BY <1>1, <1>2, <1>3, <1>4 DEF Deletes

LEMMA DeletionIntegrity ==
  ASSUME RecordIntegrity, Deletes
  PROVE  RecordIntegrity'
  <1> USE DEF RecordIntegrity
  <1>1. TypeOK'
    BY DeletionType
  <1>2. UNCHANGED <<asked, forms, items, review, approval>> /\ job'.run = job.run
        /\ dossier'.status = dossier.status /\ dossier'.approved = dossier.approved
    BY DEF Deletes, Tombstone, StartPurge, CompletePurge, FailPurge, CrashPurge, pipeline, TypeOK
  <1>3. nodes' \in {nodes, 0}
    BY DEF Deletes, Tombstone, StartPurge, CompletePurge, FailPurge, CrashPurge, EraseContent, content
  <1>4. NothingAhead'
    BY <1>2, <1>3 DEF NothingAhead, Writing, TypeOK
  <1>5. ClosedForApproval' /\ LastIsKnown'
    BY <1>2 DEF ClosedForApproval, Closed, LastIsKnown, Writing, OpenItems
  <1>6. Exclusive'
    <2>1. CASE Tombstone \/ StartPurge
      <3>1. (\A p \in Reviewers : ~Writing(p)) /\ ~approval.on
        BY <2>1 DEF Tombstone, StartPurge, DossierFree
      <3> QED
        BY <1>2, <3>1 DEF Exclusive, Writing
    <2>2. CASE CompletePurge \/ FailPurge \/ CrashPurge
      <3>1. purge.on /\ dossier' = dossier
        BY <2>2 DEF CompletePurge, FailPurge, CrashPurge
      <3> QED
        BY <1>2, <3>1 DEF Exclusive, Writing
    <2> QED
      BY <2>1, <2>2 DEF Deletes
  <1> QED
    BY <1>1, <1>4, <1>5, <1>6, DeletionKeepsRecordTrue
-----------------------------------------------------------------------------
(* Facts of a run that is not final have no items *)

LEMMA SubmitFinal ==
  ASSUME RecordIntegrity, FactsAreFinal, NEW p \in Reviewers, NEW i \in Items,
         NEW outcome \in {"resolved", "awaiting"}, NEW base \in 0..items[i].version,
         NEW r \in RunsOf(i), Submit(p, i, base, r, outcome)
  PROVE  FactsAreFinal'
  <1> DEFINE tx == [writing |-> TRUE, item |-> i, base |-> base, run |-> r, outcome |-> outcome,
                    last |-> outcome \notin Counted /\ OpenItems \subseteq {i},
                    seen |-> job.status]
  <1>1. review' = [review EXCEPT ![p] = tx] /\ tx.item = i
    BY DEF Submit
  <1> HIDE DEF tx
  <1>2. review'[p] = tx /\ \A q \in Reviewers \ {p} : review'[q] = review[q]
    BY <1>1 DEF RecordIntegrity, TypeOK
  <1>3. i[2] \in Facts => items[i].version > 0
    BY TargetsAssumption DEF RunsOf
  <1>4. items' = items /\ job' = job
    BY DEF Submit, pipeline
  <1> QED
    BY <1>1, <1>2, <1>3, <1>4 DEF FactsAreFinal, Writing

LEMMA CommitReviewFinal ==
  ASSUME RecordIntegrity, FactsAreFinal, NEW p \in Reviewers, CommitReview(p)
  PROVE  FactsAreFinal'
  <1>1. TypeOK
    BY DEF RecordIntegrity
  <1>2. \A q \in Reviewers : q # p => ~Writing(q)
    BY DEF CommitReview, RecordIntegrity, Exclusive
  <1>3. \A q \in Reviewers : ~Writing(q)'
    BY <1>1, <1>2, IdleType DEF CommitReview, Leave, Writing, TypeOK
  <1>4. job'.run = job.run /\ job'.status \in {job.status, "reviewed"}
    BY <1>1 DEF CommitReview, TypeOK
  <1>5. \A i \in Items : i # review[p].item => items'[i] = items[i]
    BY <1>1 DEF CommitReview, TypeOK
  <1>6. Writing(p)
    BY DEF CommitReview
  <1>7. ASSUME NEW i \in Items, i[2] \in Facts, items'[i].version > 0
        PROVE  items[i].version > 0
    BY <1>5, <1>6, <1>7 DEF FactsAreFinal
  <1> QED
    BY <1>3, <1>4, <1>7 DEF FactsAreFinal

LEMMA RunFinal ==
  ASSUME RecordIntegrity, FactsAreFinal, Runs \/ AfterFailure
  PROVE  FactsAreFinal'
  <1>1. TypeOK /\ job.run \in Nat /\ \A i \in Items : i[1] \in Nat
    BY DEF RecordIntegrity, TypeOK, Items
  <1>2. CASE AskRun
    BY <1>2 DEF AskRun, FactsAreFinal, Writing
  <1>3. CASE OpenRun
    <2>1. UNCHANGED <<items, review>> /\ job'.run = job.run + 1
      BY <1>3 DEF OpenRun
    <2> QED
      BY <1>1, <2>1 DEF FactsAreFinal, Writing
  <1>4. CASE RecordOcr \/ Extract \/ FailRun
    <2>1. UNCHANGED <<items, review>> /\ job'.run = job.run
      BY <1>1, <1>4 DEF RecordOcr, Extract, FailRun, Mark, TypeOK
    <2>2. job.status \in {"uploaded", "extracted"}
      BY <1>4 DEF RecordOcr, Extract, FailRun
    <2>3. \A i \in Items : i[2] \in Facts /\ items[i].version > 0 => i[1] <= job.run /\ i[1] # job.run
      BY <2>2 DEF FactsAreFinal
    <2> QED
      BY <2>1, <2>3 DEF FactsAreFinal, Writing
  <1>5. CASE Finalize
    <2>1. job'.run = job.run /\ job'.status = "pending_review" /\ review' = review
      BY <1>1, <1>5 DEF Finalize, Mark, TypeOK
    <2>2. \A i \in Items : items'[i] = items[i] \/ i[1] = job.run
      BY <1>5 DEF Finalize
    <2>3. \A q \in Reviewers : ~Writing(q)'
      BY <1>5 DEF Finalize, Mark, DossierFree, Writing
    <2> QED
      BY <1>1, <2>1, <2>2, <2>3 DEF FactsAreFinal
  <1>6. CASE AfterFailure
    BY <1>6 DEF AfterFailure, KeepLateOcr, Ai1Uploads, FactsAreFinal, Writing, pipeline
  <1> QED
    BY <1>2, <1>3, <1>4, <1>5, <1>6 DEF Runs

LEMMA NextFinal == RecordIntegrity /\ FactsAreFinal /\ [Next]_vars => FactsAreFinal'
  <1> SUFFICES ASSUME RecordIntegrity, FactsAreFinal, [Next]_vars PROVE FactsAreFinal'
    OBVIOUS
  <1>1. TypeOK
    BY DEF RecordIntegrity
  <1>2. ASSUME NEW p \in Reviewers, Reviews(p) PROVE FactsAreFinal'
    <2>1. CASE AbortReview(p)
      <3>1. \A q \in Reviewers : Writing(q)' => Writing(q) /\ review'[q] = review[q]
        BY <1>1, <2>1, IdleType DEF AbortReview, Leave, Writing, TypeOK
      <3> QED
        BY <2>1, <3>1 DEF AbortReview, FactsAreFinal, pipeline
    <2> QED
      BY <1>2, <2>1, SubmitFinal, CommitReviewFinal DEF Reviews
  <1>3. ASSUME NEW i \in Items, NEW r \in RunsOf(i), RefuseSuperseded(i, r) PROVE FactsAreFinal'
    <2>1. i[2] \notin Facts
      BY <1>3, TargetsAssumption DEF RefuseSuperseded, RunsOf
    <2>2. \A j \in Items \ {i} : items'[j] = items[j]
      BY <1>1, <1>3 DEF RefuseSuperseded, TypeOK
    <2>3. review' = review /\ job' = job
      BY <1>3 DEF RefuseSuperseded, pipeline
    <2>4. \A q \in Reviewers : review[q].item \in Items
      BY <1>1 DEF TypeOK
    <2> QED
      BY <2>1, <2>2, <2>3, <2>4 DEF FactsAreFinal, Writing
  <1>4. CASE Approve \/ CommitApproval \/ AbortApproval \/ LockDossier
    <2>1. UNCHANGED <<items, review>> /\ job'.run = job.run /\ job'.status \in {job.status, "approved"}
      BY <1>1, <1>4 DEF Approve, CommitApproval, AbortApproval, LockDossier, pipeline, TypeOK
    <2> QED
      BY <2>1 DEF FactsAreFinal, Writing
  <1>5. CASE Deletes
    <2>1. UNCHANGED <<items, review>> /\ job'.run = job.run /\ job'.status \in {job.status, "cancelled"}
      BY <1>1, <1>5
         DEF Deletes, Tombstone, StartPurge, CompletePurge, FailPurge, CrashPurge, pipeline, TypeOK
    <2> QED
      BY <2>1 DEF FactsAreFinal, Writing
  <1>6. CASE UNCHANGED vars
    BY <1>6 DEF vars, pipeline, FactsAreFinal, Writing
  <1> QED
    BY <1>2, <1>3, <1>4, <1>5, <1>6, RunFinal DEF Next, Runs, AfterFailure, Deletes

LEMMA InitFinal == Init => FactsAreFinal
  <1> SUFFICES ASSUME Init PROVE FactsAreFinal
    OBVIOUS
  <1>1. \A p \in Reviewers : ~Writing(p)
    BY IdleType DEF Init, Writing
  <1>2. \A i \in Items : items[i].version > 0 => i[1] = 1 /\ job.status = "pending_review"
    BY DEF Init, NoItem
  <1>3. job.run = 1
    BY DEF Init
  <1> QED
    BY <1>1, <1>2, <1>3 DEF FactsAreFinal
-----------------------------------------------------------------------------
LEMMA NextIntegrity == RecordIntegrity /\ [Next]_vars => RecordIntegrity'
  <1> SUFFICES ASSUME RecordIntegrity, Next PROVE RecordIntegrity'
    BY StutterIntegrity
  <1>1. ASSUME NEW p \in Reviewers, Reviews(p) PROVE RecordIntegrity'
    BY <1>1, SubmitIntegrity, CommitReviewIntegrity, AbortReviewIntegrity DEF Reviews
  <1> QED
    BY <1>1, RefuseIntegrity, ApprovalIntegrity, RunIntegrity, AfterFailureIntegrity,
       DeletionIntegrity
       DEF Next, Runs, AfterFailure, Deletes

(* The locks keep reviews, approval and purge apart and what they have read  *)
(* true until they commit.                                                   *)
THEOREM RecordIntegrityHolds == Spec => [](RecordIntegrity /\ FactsAreFinal)
  <1>1. Init => RecordIntegrity /\ FactsAreFinal
    BY InitIntegrity, InitFinal
  <1>2. (RecordIntegrity /\ FactsAreFinal) /\ [Next]_vars => (RecordIntegrity /\ FactsAreFinal)'
    BY NextIntegrity, NextFinal
  <1> QED
    BY <1>1, <1>2, PTL DEF Spec

(* What approve_dossier approved has no open item of its run (approval_service.py). *)
THEOREM ApprovedIsClosedHolds == Spec => []ApprovedIsClosed
  <1>1. RecordIntegrity => ApprovedIsClosed
    BY DEF RecordIntegrity, ClosedForApproval, Closed, ApprovedIsClosed, OpenItems
  <1> QED
    BY <1>1, RecordIntegrityHolds, PTL

(* Whatever is left of a dossier whose deletion is recorded as completed is  *)
(* what the record counts as missed or what came after it                    *)
(* (dossier_deletion_service.py:142-229), however often it failed before.    *)
THEOREM PurgeRecordIsTrueHolds == Spec => []PurgeRecordIsTrue
  <1>1. RecordIntegrity => PurgeRecordIsTrue
    BY DEF RecordIntegrity, PurgeIsTrue, PurgeRecordIsTrue
  <1> QED
    BY <1>1, RecordIntegrityHolds, PTL

LEMMA FinalizeKeeps ==
  ASSUME RecordIntegrity, FactsAreFinal, Finalize
  PROVE  /\ \A i \in Items : items[i].version > 0 => items'[i] = items[i]
         /\ OpenItems \subseteq OpenItems'
  <1>1. PICK open \in SUBSET Facts :
          items' = [i \in Items |-> IF i[1] = job.run /\ i[2] \in open
                      THEN [status |-> "open", version |-> 1, run |-> job.run] ELSE items[i]]
    BY DEF Finalize
  <1>2. job.status = "extracted"
    BY DEF Finalize
  <1> QED
    BY <1>1, <1>2 DEF FactsAreFinal, OpenItems, Counted

(* A sealed dossier takes no review action (review repository_impl.py:196-214). *)
THEOREM SealedStaysHolds == Spec => SealedStays
  <1> DEFINE Kept == \A i \in Items : items[i].version > 0 => items'[i] = items[i]
  <1>1. ASSUME RecordIntegrity, FactsAreFinal, [Next]_vars, Sealed PROVE Kept
    <2>1. \A p \in Reviewers : ~Writing(p)
      BY <1>1 DEF RecordIntegrity, Exclusive
    <2>2. ASSUME NEW p \in Reviewers, Reviews(p) PROVE Kept
      BY <2>1, <2>2 DEF Reviews, Submit, CommitReview, AbortReview
    <2>3. ASSUME NEW i \in Items, NEW r \in RunsOf(i), RefuseSuperseded(i, r) PROVE Kept
      BY <1>1, <2>3 DEF RefuseSuperseded, RecordIntegrity, TypeOK
    <2>4. CASE Finalize
      BY <1>1, <2>4, FinalizeKeeps
    <2>5. CASE UNCHANGED vars \/ AfterFailure \/ (Runs /\ ~Finalize)
      BY <2>5 DEF vars, Runs, AfterFailure, AskRun, OpenRun, RecordOcr, Extract, FailRun,
          KeepLateOcr, Ai1Uploads
    <2>6. CASE Approve \/ CommitApproval \/ AbortApproval \/ LockDossier
      BY <2>6 DEF Approve, CommitApproval, AbortApproval, LockDossier
    <2>7. CASE Deletes
      BY <2>7 DEF Deletes, Tombstone, StartPurge, CompletePurge, FailPurge, CrashPurge
    <2> QED
      BY <1>1, <2>2, <2>3, <2>4, <2>5, <2>6, <2>7 DEF Next, Runs, AfterFailure, Deletes
  <1> QED
    BY <1>1, RecordIntegrityHolds, PTL DEF Spec, SealedStays

(* Who closes the last open item moves the dossier (review                   *)
(* repository_impl.py:285-300): nobody counts before another has committed.  *)
THEOREM LastCloseMovesHolds == Spec => LastCloseMoves
  <1> DEFINE LastClosed == dossier.status = "pending_review" /\ OpenItems # {} /\ OpenItems' = {}
  <1>1. ASSUME RecordIntegrity, FactsAreFinal, [Next]_vars, LastClosed
        PROVE  dossier'.status = "reviewed"
    <2>1. CASE items' = items
      BY <1>1, <2>1 DEF OpenItems
    <2>2. ASSUME NEW p \in Reviewers, CommitReview(p) PROVE dossier'.status = "reviewed"
      <3> DEFINE row == [status |-> review[p].outcome, version |-> NextVersion(review[p].base),
                         run |-> review[p].run]
      <3>1. items' = [items EXCEPT ![review[p].item] = row] /\ row.status = review[p].outcome
        BY <2>2 DEF CommitReview
      <3> HIDE DEF row
      <3>2. review[p].item \in Items /\ review[p].outcome \in {"resolved", "awaiting"}
        BY <1>1 DEF RecordIntegrity, TypeOK
      <3>3. items'[review[p].item] = row /\ \A i \in Items \ {review[p].item} : items'[i] = items[i]
        BY <1>1, <3>1 DEF RecordIntegrity, TypeOK
      <3>4. review[p].outcome = "resolved"
        BY <1>1, <3>1, <3>2, <3>3 DEF OpenItems, Counted
      <3>5. OpenItems \subseteq {review[p].item}
        BY <1>1, <3>3 DEF OpenItems
      <3>6. Reviewed(p)
        BY <1>1, <2>2, <3>4, <3>5 DEF CommitReview, RecordIntegrity, LastIsKnown, Reviewed
      <3> QED
        BY <1>1, <2>2, <3>6 DEF CommitReview, RecordIntegrity, TypeOK
    <2>3. ASSUME NEW i \in Items, NEW r \in RunsOf(i), RefuseSuperseded(i, r)
          PROVE  OpenItems' # {}
      <3>1. items'[i].status = "open"
        BY <1>1, <2>3 DEF RefuseSuperseded, RecordIntegrity, TypeOK
      <3> QED
        BY <3>1 DEF OpenItems, Counted
    <2>4. CASE Finalize
      BY <1>1, <2>4, FinalizeKeeps
    <2>5. CASE UNCHANGED vars \/ AfterFailure \/ (Runs /\ ~Finalize)
      BY <2>1, <2>5 DEF vars, Runs, AfterFailure, AskRun, OpenRun, RecordOcr, Extract, FailRun,
          KeepLateOcr, Ai1Uploads
    <2>6. CASE Approve \/ CommitApproval \/ AbortApproval \/ LockDossier
      BY <2>1, <2>6 DEF Approve, CommitApproval, AbortApproval, LockDossier
    <2>7. CASE Deletes
      BY <2>1, <2>7 DEF Deletes, Tombstone, StartPurge, CompletePurge, FailPurge, CrashPurge
    <2>8. ASSUME NEW p \in Reviewers, Reviews(p) PROVE dossier'.status = "reviewed"
      BY <2>1, <2>2, <2>8 DEF Reviews, Submit, AbortReview
    <2> QED
      BY <1>1, <2>3, <2>4, <2>5, <2>6, <2>7, <2>8 DEF Next, Runs, AfterFailure, Deletes
  <1> QED
    BY <1>1, RecordIntegrityHolds, PTL DEF Spec, LastCloseMoves
-----------------------------------------------------------------------------
(* The version an action was sent on is still the latest when it commits *)

LEMMA ReviewReads ==
  ASSUME RecordIntegrity, ReadStands, NEW p \in Reviewers, Reviews(p)
  PROVE  ReadStands'
  <1>1. TypeOK
    BY DEF RecordIntegrity
  <1>2. ASSUME NEW i \in Items, NEW outcome \in {"resolved", "awaiting"},
               NEW base \in 0..items[i].version, NEW r \in RunsOf(i),
               Submit(p, i, base, r, outcome)
        PROVE  ReadStands'
    <2> DEFINE tx == [writing |-> TRUE, item |-> i, base |-> base, run |-> r, outcome |-> outcome,
                      last |-> outcome \notin Counted /\ OpenItems \subseteq {i},
                      seen |-> job.status]
    <2>1. review' = [review EXCEPT ![p] = tx] /\ tx.item = i /\ tx.base = base
      BY <1>2 DEF Submit
    <2> HIDE DEF tx
    <2>2. review'[p] = tx /\ \A q \in Reviewers \ {p} : review'[q] = review[q]
      BY <1>1, <2>1 DEF TypeOK
    <2>3. items' = items /\ items[i].version = base
      BY <1>2 DEF Submit, OnLatest
    <2> QED
      BY <2>1, <2>2, <2>3 DEF ReadStands, Writing
  <1>3. CASE CommitReview(p)
    <2>1. \A q \in Reviewers : q # p => ~Writing(q)
      BY <1>3 DEF CommitReview, RecordIntegrity, Exclusive
    <2>2. \A q \in Reviewers : ~Writing(q)'
      BY <1>1, <1>3, <2>1, IdleType DEF CommitReview, Leave, Writing, TypeOK
    <2> QED
      BY <2>2 DEF ReadStands
  <1>4. CASE AbortReview(p)
    <2>1. \A q \in Reviewers : Writing(q)' => Writing(q) /\ review'[q] = review[q]
      BY <1>1, <1>4, IdleType DEF AbortReview, Leave, Writing, TypeOK
    <2> QED
      BY <1>4, <2>1 DEF AbortReview, ReadStands
  <1> QED
    BY <1>2, <1>3, <1>4 DEF Reviews

LEMMA NextReads == RecordIntegrity /\ ReadStands /\ [Next]_vars => ReadStands'
  <1> SUFFICES ASSUME RecordIntegrity, ReadStands, [Next]_vars PROVE ReadStands'
    OBVIOUS
  <1>1. CASE UNCHANGED <<items, review>>
    BY <1>1 DEF ReadStands, Writing
  <1>2. ASSUME NEW i \in Items, NEW r \in RunsOf(i), RefuseSuperseded(i, r) PROVE ReadStands'
    <2>1. \A j \in Items \ {i} : items'[j] = items[j]
      BY <1>2 DEF RefuseSuperseded, RecordIntegrity, TypeOK
    <2>2. \A q \in Reviewers : Writing(q) => review[q].item \in Items \ {i}
      BY <1>2 DEF RefuseSuperseded, ItemFree, RecordIntegrity, TypeOK
    <2> QED
      BY <1>2, <2>1, <2>2 DEF RefuseSuperseded, ReadStands, Writing
  <1>3. CASE Finalize
    <2>1. \A q \in Reviewers : ~Writing(q)'
      BY <1>3 DEF Finalize, Mark, DossierFree, Writing
    <2> QED
      BY <2>1 DEF ReadStands
  <1>4. CASE UNCHANGED vars \/ AfterFailure \/ (Runs /\ ~Finalize)
    BY <1>1, <1>4 DEF vars, Runs, AfterFailure, AskRun, OpenRun, RecordOcr, Extract, FailRun,
          KeepLateOcr, Ai1Uploads
  <1>5. CASE Approve \/ CommitApproval \/ AbortApproval \/ LockDossier
    BY <1>1, <1>5 DEF Approve, CommitApproval, AbortApproval, LockDossier
  <1>6. CASE Deletes
    BY <1>1, <1>6 DEF Deletes, Tombstone, StartPurge, CompletePurge, FailPurge, CrashPurge
  <1> QED
    BY <1>2, <1>3, <1>4, <1>5, <1>6, ReviewReads DEF Next, Runs, AfterFailure, Deletes

LEMMA ReadsHold == Spec => []ReadStands
  <1>1. Init => ReadStands
    BY IdleType DEF Init, ReadStands, Writing
  <1>2. RecordIntegrity /\ ReadStands /\ [Next]_vars => ReadStands'
    BY NextReads
  <1> QED
    BY <1>1, <1>2, RecordIntegrityHolds, PTL DEF Spec

(* submit_action loses no decision (review repository_impl.py:216-242), for  *)
(* any number of reviewers; what a run brings has no item yet.               *)
THEOREM NoActionLostHolds == Spec => NoActionLost
  <1> DEFINE NoneLost == \A i \in Items : items[i].version > 0 /\ items'[i] # items[i]
                           => items'[i].version = items[i].version + 1
  <1>1. ASSUME RecordIntegrity, FactsAreFinal, ReadStands, [Next]_vars PROVE NoneLost
    <2>1. CASE items' = items
      BY <2>1
    <2>2. ASSUME NEW p \in Reviewers, CommitReview(p) PROVE NoneLost
      <3> DEFINE row == [status |-> review[p].outcome, version |-> NextVersion(review[p].base),
                         run |-> review[p].run]
      <3>1. items' = [items EXCEPT ![review[p].item] = row]
            /\ row.version = NextVersion(review[p].base)
        BY <2>2 DEF CommitReview
      <3> HIDE DEF row
      <3>2. items[review[p].item].version = review[p].base
        BY <1>1, <2>2 DEF CommitReview, ReadStands
      <3>3. items'[review[p].item] = row /\ \A i \in Items \ {review[p].item} : items'[i] = items[i]
        BY <1>1, <3>1 DEF RecordIntegrity, TypeOK
      <3>4. review[p].base > 0 => row.version = review[p].base + 1
        BY <3>1 DEF NextVersion
      <3> QED
        BY <3>2, <3>3, <3>4
    <2>3. ASSUME NEW i \in Items, NEW r \in RunsOf(i), RefuseSuperseded(i, r) PROVE NoneLost
      <3>1. \A j \in Items \ {i} : items'[j] = items[j]
        BY <1>1, <2>3 DEF RefuseSuperseded, RecordIntegrity, TypeOK
      <3> QED
        BY <2>3, <3>1 DEF RefuseSuperseded
    <2>4. CASE Finalize
      BY <1>1, <2>4, FinalizeKeeps
    <2>5. CASE UNCHANGED vars \/ AfterFailure \/ (Runs /\ ~Finalize)
      BY <2>1, <2>5 DEF vars, Runs, AfterFailure, AskRun, OpenRun, RecordOcr, Extract, FailRun,
          KeepLateOcr, Ai1Uploads
    <2>6. CASE Approve \/ CommitApproval \/ AbortApproval \/ LockDossier
      BY <2>1, <2>6 DEF Approve, CommitApproval, AbortApproval, LockDossier
    <2>7. CASE Deletes
      BY <2>1, <2>7 DEF Deletes, Tombstone, StartPurge, CompletePurge, FailPurge, CrashPurge
    <2>8. ASSUME NEW p \in Reviewers, Reviews(p) PROVE NoneLost
      BY <2>1, <2>2, <2>8 DEF Reviews, Submit, AbortReview
    <2> QED
      BY <1>1, <2>3, <2>4, <2>5, <2>6, <2>7, <2>8 DEF Next, Runs, AfterFailure, Deletes
  <1> QED
    BY <1>1, RecordIntegrityHolds, ReadsHold, PTL DEF Spec, NoActionLost
=============================================================================
