----------------------- MODULE DossierPipelineProofs -----------------------
(***************************************************************************)
(* Safety of DossierPipeline for any number of documents, runs and workers *)
(* and any choice of requests, races and faults: no AI2 result on a run    *)
(* with missing OCR, none shown that is not there, none on a superseded    *)
(* run; the dossier row mirrors the job row.                               *)
(*                                                                         *)
(* ResultNeedsWholeOcr and ReviewedRunHasResult are not inductive: a       *)
(* hand-off persists what it read long before.  RunIntegrity adds what the *)
(* database and the hand-offs in memory owe each other meanwhile.  Most    *)
(* actions leave all of it alone (Quiet); six do not.                      *)
(***************************************************************************)
EXTENDS DossierPipelineTypes

Engaged(t) == t.pc \in {"freezing", "polling"}
InReview == {"pending_review", "reviewed", "approved"}

(* A hand-off past its checks works on a whole OCR, as a numbered attempt.   *)
EngagedIsWhole ==
  \A w \in Workers, r \in Runs :
    Engaged(task[w][r]) => runs[r].extracted = Docs /\ task[w][r].attempt # 0

(* A row that will be (re)written when its run starts has nothing to lose.   *)
FreshIsBlank ==
  \A r \in Runs : runs[r].status \in {"absent", "queued"} =>
    runs[r].result = 0 /\ \A w \in Workers : ~Engaged(task[w][r])

CurrentRunExists == job.run # NoRun => runs[job.run].status # "absent"

RunIntegrity ==
  /\ TypeOK
  /\ EngagedIsWhole
  /\ FreshIsBlank
  /\ CurrentRunExists
  /\ ResultNeedsWholeOcr
  /\ ReviewedRunHasResult
-----------------------------------------------------------------------------
(* What a quiet step leaves alone.                                           *)
RowsKept ==
  \A r \in Runs :
    /\ runs'[r].extracted = runs[r].extracted
    /\ runs'[r].result = runs[r].result
    /\ runs'[r].status = runs[r].status \/ runs'[r].status \notin {"absent", "queued"}

TasksKept ==
  \A w \in Workers, r \in Runs : Engaged(task'[w][r]) =>
    Engaged(task[w][r]) /\ task'[w][r].attempt = task[w][r].attempt

JobKept == job'.run = job.run /\ (job'.status \in InReview => job.status \in InReview)

MirrorKept ==
  \/ UNCHANGED <<job, dossier>>
  \/ dossier'.status = job'.status
  \/ job' = job /\ job.status # dossier.status

Quiet == RowsKept /\ TasksKept /\ JobKept /\ MirrorKept

(* The steps that are not.                                                   *)
Telling ==
  \/ \E w \in Workers, ev \in events : ResumeRun(w, ev)
  \/ \E w \in Workers, ev \in events, r \in Runs : OpenRun(w, ev, r)
  \/ \E w \in Workers, m \in results : RecordAi1Result(w, m)
  \/ \E w \in Workers, r \in Runs : TaskStart(w, r) \/ TaskSucceeds(w, r)
  \/ \E r \in Runs, b \in Runs \cup {NoRun} : CreateRun(r, b) /\ UNCHANGED <<dossier, task>>

LEMMA NoTaskKept ==
  ASSUME task \in [Workers -> [Runs -> Tasks]], NEW w, NEW r,
         NEW t, t.pc \notin {"freezing", "polling"}, task' = [task EXCEPT ![w][r] = t]
  PROVE  TasksKept
  BY DEF TasksKept, Engaged

LEMMA ForgetKept ==
  ASSUME task \in [Workers -> [Runs -> Tasks]], NEW w, NEW r, task' = [task EXCEPT ![w][r] = NoTask]
  PROVE  TasksKept
  <1>1. NoTask.pc = "none"
    BY DEF NoTask
  <1> QED
    BY <1>1, NoTaskKept

LEMMA ScheduleKept ==
  ASSUME task \in [Workers -> [Runs -> Tasks]], NEW w, NEW r, task' = Schedule(w, r)
  PROVE  TasksKept
  <1>1. ASSUME NEW v \in Workers, NEW q \in Runs, Engaged(task'[v][q])
        PROVE  task'[v][q] = task[v][q]
    <2>1. task[v][q] \in Tasks
      OBVIOUS
    <2> QED
      BY <1>1, <2>1 DEF Schedule, Engaged, Tasks
  <1> QED
    BY <1>1 DEF TasksKept

LEMMA ClosingKept ==
  ASSUME task \in [Workers -> [Runs -> Tasks]], NEW w, NEW r, Closing(w, r)
  PROVE  TasksKept
  <1>1. [NoTask EXCEPT !.pc = "closing"].pc = "closing"
    BY DEF NoTask
  <1> QED
    BY <1>1, NoTaskKept DEF Closing

LEMMA MoveKept ==
  ASSUME TypeOK, NEW row \in Jobs, Move(row), row.run = job.run,
         row.status \in InReview => job.status \in InReview
  PROVE  JobKept /\ MirrorKept
  BY DEF TypeOK, Move, JobKept, MirrorKept

LEMMA FailJobKept ==
  ASSUME TypeOK, NEW e \in Errors, FailJob(e)
  PROVE  JobKept /\ MirrorKept
  <1>1. /\ [job EXCEPT !.status = "failed", !.error = e] \in Jobs
        /\ [job EXCEPT !.status = "failed", !.error = e].run = job.run
        /\ [job EXCEPT !.status = "failed", !.error = e].status = "failed"
    BY DEF TypeOK, Jobs, JobStatuses
  <1> QED
    BY <1>1, MoveKept DEF FailJob, InReview

LEMMA EndByFailureKept ==
  ASSUME TypeOK, NEW r \in Runs, NEW status, NEW e \in Errors, EndByFailure(r, status, e)
  PROVE  RowsKept /\ JobKept /\ MirrorKept
  <1>1. CASE job.run = r /\ TransitionAllowed(status, "failed")
    <2>1. RowsKept
      BY <1>1 DEF EndByFailure, RowsKept, TypeOK, RunRows
    <2> QED
      BY <1>1, <2>1, FailJobKept DEF EndByFailure
  <1>2. CASE ~(job.run = r /\ TransitionAllowed(status, "failed"))
    BY <1>2 DEF EndByFailure, RowsKept, JobKept, MirrorKept
  <1> QED
    BY <1>1, <1>2

(* Every other step is quiet.                                                *)
LEMMA QuietOrTelling == TypeOK /\ [Next]_vars => Quiet \/ Telling
  <1> SUFFICES ASSUME TypeOK, [Next]_vars PROVE Quiet \/ Telling
    OBVIOUS
  <1> USE DEF Quiet
  <1>1. ASSUME NEW w \in Workers, NEW ev \in events, IgnoreStart(w, ev) PROVE Quiet
    BY <1>1 DEF IgnoreStart, RowsKept, TasksKept, JobKept, MirrorKept
  <1>2. ASSUME NEW w \in Workers, PublishCommands(w) PROVE Quiet
    BY <1>2 DEF PublishCommands, RowsKept, TasksKept, JobKept, MirrorKept
  <1>3. ASSUME NEW w \in Workers, HandlerFails(w) PROVE Quiet
    BY <1>3 DEF HandlerFails, RowsKept, TasksKept, JobKept, MirrorKept
  <1>4. ASSUME NEW w \in Workers, DeadLetter(w) PROVE Quiet
    BY <1>4 DEF DeadLetter, RowsKept, TasksKept, JobKept, MirrorKept
  <1>5. ASSUME NEW w \in Workers, CompleteCarriedRun(w) PROVE Quiet
    <2>1. TasksKept
      BY <1>5, ScheduleKept DEF CompleteCarriedRun, TypeOK, TasksKept
    <2>2. RowsKept /\ JobKept /\ MirrorKept
      BY <1>5 DEF CompleteCarriedRun, RowsKept, JobKept, MirrorKept
    <2> QED
      BY <2>1, <2>2
  <1>6. ASSUME NEW w \in Workers, NEW ev \in events, HandleAi2Retry(w, ev) PROVE Quiet
    BY <1>6 DEF HandleAi2Retry, RowsKept, TasksKept, JobKept, MirrorKept
  <1>7. ASSUME NEW w \in Workers, NEW ev \in events, HandleManifestConfirmed(w, ev) PROVE Quiet
    <2>1. TasksKept
      BY <1>7, ScheduleKept DEF HandleManifestConfirmed, TypeOK, TasksKept
    <2>2. RowsKept /\ JobKept /\ MirrorKept
      BY <1>7 DEF HandleManifestConfirmed, RowsKept, JobKept, MirrorKept
    <2> QED
      BY <2>1, <2>2
  <1>8. ASSUME NEW w \in Workers, AckEvent(w) PROVE Quiet
    BY <1>8 DEF AckEvent, RowsKept, TasksKept, JobKept, MirrorKept
  <1>9. ASSUME NEW w \in Workers, NEW m \in results, DropAi1Result(w, m) PROVE Quiet
    BY <1>9 DEF DropAi1Result, RowsKept, TasksKept, JobKept, MirrorKept
  <1>10. ASSUME NEW w \in Workers, NEW m \in results, FailAi1Run(w, m) PROVE Quiet
    <2>1. TasksKept
      BY <1>10 DEF FailAi1Run, TasksKept
    <2>2. RowsKept
      BY <1>10 DEF FailAi1Run, RowsKept, TypeOK, RunRows
    <2>3. JobKept /\ MirrorKept
      BY <1>10, FailJobKept DEF FailAi1Run, Errors
    <2> QED
      BY <2>1, <2>2, <2>3
  <1>11. ASSUME NEW w \in Workers, NEW m \in results, DuplicateAi1Result(w, m) PROVE Quiet
    <2>1. TasksKept
      BY <1>11, ScheduleKept DEF DuplicateAi1Result, TypeOK, TasksKept
    <2>2. RowsKept /\ JobKept /\ MirrorKept
      BY <1>11 DEF DuplicateAi1Result, RowsKept, JobKept, MirrorKept
    <2> QED
      BY <2>1, <2>2
  <1>12. ASSUME NEW w \in Workers, AckResult(w) PROVE Quiet
    BY <1>12 DEF AckResult, RowsKept, TasksKept, JobKept, MirrorKept
  <1>13. ASSUME NEW w \in Workers, Ai1Overdue(w) PROVE Quiet
    BY <1>13 DEF Ai1Overdue, RowsKept, TasksKept, JobKept, MirrorKept
  <1>14. ASSUME NEW w \in Workers, Start(w) PROVE Quiet
    <2>1. TasksKept
      BY <1>14, ScheduleKept DEF Start, Resumed, TypeOK, TasksKept
    <2>2. RowsKept /\ JobKept /\ MirrorKept
      BY <1>14 DEF Start, RowsKept, JobKept, MirrorKept
    <2> QED
      BY <2>1, <2>2
  <1>15. ASSUME NEW w \in Workers, Crash(w) PROVE Quiet
    <2>1. TasksKept
      BY <1>15 DEF Crash, NoTask, Engaged, TypeOK, TasksKept
    <2>2. RowsKept /\ JobKept /\ MirrorKept
      BY <1>15 DEF Crash, RowsKept, JobKept, MirrorKept
    <2> QED
      BY <2>1, <2>2
  <1>16. ASSUME NEW w \in Workers, NEW r \in Runs, TaskNotReady(w, r) PROVE Quiet
    <2>1. TasksKept
      BY <1>16, ClosingKept DEF TaskNotReady, TypeOK
    <2>2. RowsKept /\ JobKept /\ MirrorKept
      BY <1>16 DEF TaskNotReady, RowsKept, JobKept, MirrorKept
    <2> QED
      BY <2>1, <2>2
  <1>17. ASSUME NEW w \in Workers, NEW r \in Runs, TaskFreeze(w, r) PROVE Quiet
    <2>1. TasksKept
      BY <1>17 DEF TaskFreeze, TasksKept, Engaged, TypeOK, Tasks
    <2>2. RowsKept
      BY <1>17 DEF TaskFreeze, RowsKept, TypeOK, RunRows
    <2>3. JobKept /\ MirrorKept
      BY <1>17 DEF TaskFreeze, JobKept, MirrorKept
    <2> QED
      BY <2>1, <2>2, <2>3
  <1>18. ASSUME NEW w \in Workers, NEW r \in Runs, TaskForgets(w, r) PROVE Quiet
    <2>1. TasksKept
      BY <1>18 DEF TaskForgets, TasksKept, Engaged, TypeOK, Tasks
    <2>2. RowsKept /\ JobKept /\ MirrorKept
      BY <1>18 DEF TaskForgets, RowsKept, JobKept, MirrorKept
    <2> QED
      BY <2>1, <2>2
  <1>19. ASSUME NEW w \in Workers, NEW r \in Runs, TaskRefused(w, r) PROVE Quiet
    <2>1. TasksKept
      BY <1>19, ClosingKept DEF TaskRefused, TypeOK
    <2>2. RowsKept /\ JobKept /\ MirrorKept
      BY <1>19 DEF TaskRefused, RowsKept, JobKept, MirrorKept
    <2> QED
      BY <2>1, <2>2
  <1>20. ASSUME NEW w \in Workers, NEW r \in Runs, TaskBlocked(w, r) PROVE Quiet
    <2>1. TasksKept
      BY <1>20, ClosingKept DEF TaskBlocked, TypeOK
    <2>2. RowsKept /\ JobKept /\ MirrorKept
      BY <1>20, EndByFailureKept DEF TaskBlocked, Errors
    <2> QED
      BY <2>1, <2>2
  <1>21. ASSUME NEW w \in Workers, NEW r \in Runs, TaskFails(w, r) PROVE Quiet
    <2>1. TasksKept
      BY <1>21, ClosingKept DEF TaskFails, TypeOK
    <2>2. RowsKept /\ JobKept /\ MirrorKept
      BY <1>21, EndByFailureKept DEF TaskFails, Errors
    <2> QED
      BY <2>1, <2>2
  <1>22. ASSUME NEW w \in Workers, NEW r \in Runs, TaskDone(w, r) PROVE Quiet
    <2>1. TasksKept
      BY <1>22, ForgetKept DEF TaskDone, TypeOK
    <2>2. RowsKept /\ JobKept /\ MirrorKept
      BY <1>22 DEF TaskDone, RowsKept, JobKept, MirrorKept
    <2> QED
      BY <2>1, <2>2
  <1>23. ASSUME NEW w \in Workers, NEW r \in Runs, TaskDies(w, r) PROVE Quiet
    <2>1. TasksKept
      BY <1>23, ForgetKept DEF TaskDies, TypeOK
    <2>2. RowsKept /\ JobKept /\ MirrorKept
      BY <1>23 DEF TaskDies, RowsKept, JobKept, MirrorKept
    <2> QED
      BY <2>1, <2>2
  <1>24. ASSUME NEW r \in Runs, NEW d \in Docs, Ai1Answers(r, d) PROVE Quiet
    BY <1>24 DEF Ai1Answers, RowsKept, TasksKept, JobKept, MirrorKept, Ai1Sends
  <1>25. ASSUME NEW r \in Runs, NEW d \in Docs, Ai1Garbles(r, d) PROVE Quiet
    BY <1>25 DEF Ai1Garbles, RowsKept, TasksKept, JobKept, MirrorKept, Ai1Sends
  <1>26. ASSUME Trigger PROVE Quiet
    BY <1>26 DEF Trigger, RowsKept, TasksKept, JobKept, MirrorKept
  <1>27. ASSUME NEW r \in Runs, DispatchRun(r) PROVE Quiet
    BY <1>27 DEF DispatchRun, RowsKept, TasksKept, JobKept, MirrorKept
  <1>28. ASSUME NEW r \in Runs, DispatchFails(r) PROVE Quiet
    <2>1. RowsKept
      BY <1>28 DEF DispatchFails, RowsKept, TypeOK, RunRows
    <2>2. TasksKept /\ JobKept /\ MirrorKept
      BY <1>28 DEF DispatchFails, TasksKept, JobKept, MirrorKept
    <2> QED
      BY <2>1, <2>2
  <1>29. ASSUME NEW r \in Runs, ApiDies(r) PROVE Quiet
    BY <1>29 DEF ApiDies, RowsKept, TasksKept, JobKept, MirrorKept
  <1>30. ASSUME Restart PROVE Quiet
    BY <1>30 DEF Restart, RowsKept, TasksKept, JobKept, MirrorKept
  <1>31. ASSUME RetryFailed PROVE Quiet
    BY <1>31 DEF RetryFailed, RowsKept, TasksKept, JobKept, MirrorKept
  <1>32. ASSUME Ai2Retry PROVE Quiet
    BY <1>32 DEF Ai2Retry, RowsKept, TasksKept, JobKept, MirrorKept
  <1>33. ASSUME NEW r \in Runs, Cancel(r) PROVE Quiet
    BY <1>33 DEF Cancel, RowsKept, TasksKept, JobKept, MirrorKept
  <1>34. ASSUME ConfirmManifest PROVE Quiet
    BY <1>34 DEF ConfirmManifest, RowsKept, TasksKept, JobKept, MirrorKept
  <1>35. ASSUME CloseLastReviewItem PROVE Quiet
    <2>1. RowsKept /\ TasksKept
      BY <1>35 DEF CloseLastReviewItem, RowsKept, TasksKept
    <2>2. JobKept /\ MirrorKept
      BY <1>35 DEF CloseLastReviewItem, Advance, JobKept, MirrorKept, InReview, TypeOK, Jobs
    <2> QED
      BY <2>1, <2>2
  <1>36. ASSUME Approve PROVE Quiet
    <2>1. RowsKept /\ TasksKept
      BY <1>36 DEF Approve, RowsKept, TasksKept
    <2>2. JobKept /\ MirrorKept
      BY <1>36 DEF Approve, Advance, JobKept, MirrorKept, InReview, TypeOK, Jobs
    <2> QED
      BY <2>1, <2>2
  <1>37. ASSUME NEW r \in Runs, Reprocess(r) PROVE Telling
    <2>1. job.run \in Runs \cup {NoRun}
      BY DEF TypeOK, Jobs
    <2> QED
      BY <1>37, <2>1 DEF Reprocess, Telling
  <1>38. ASSUME NEW p \in pending, Commit(p) PROVE Quiet \/ Telling
    <2>1. CASE CommitTimeout(p)
      <3>1. RowsKept
        BY <2>1 DEF CommitTimeout, RowsKept, TypeOK, RunRows
      <3>2. JobKept /\ MirrorKept
        BY <2>1, FailJobKept DEF CommitTimeout, Errors
      <3> QED
        BY <2>1, <3>1, <3>2 DEF CommitTimeout, TasksKept
    <2>2. CASE CommitReopen(p)
      <3>1. RowsKept
        BY <2>2 DEF CommitReopen, RowsKept, TypeOK, RunRows
      <3>2. TasksKept
        BY <2>2, ScheduleKept DEF CommitReopen, TypeOK
      <3>3. JobKept /\ MirrorKept
        <4>1. /\ [job EXCEPT !.status = "extracted", !.error = "none"] \in Jobs
              /\ [job EXCEPT !.status = "extracted", !.error = "none"].run = job.run
              /\ [job EXCEPT !.status = "extracted", !.error = "none"].status = "extracted"
          BY DEF TypeOK, Jobs, JobStatuses, Errors
        <4> QED
          BY <2>2, <4>1, MoveKept DEF CommitReopen, InReview
      <3> QED
        BY <3>1, <3>2, <3>3
    <2>3. CASE CommitCarried(p)
      <3>1. TasksKept
        BY <2>3, ScheduleKept DEF CommitCarried, TypeOK
      <3>2. JobKept /\ MirrorKept
        <4>1. /\ [job EXCEPT !.status = "extracted"] \in Jobs
              /\ [job EXCEPT !.status = "extracted"].run = job.run
              /\ [job EXCEPT !.status = "extracted"].status = "extracted"
          BY DEF TypeOK, Jobs, JobStatuses
        <4> QED
          BY <2>3, <4>1, MoveKept DEF CommitCarried, InReview
      <3> QED
        BY <2>3, <3>1, <3>2 DEF CommitCarried, RowsKept
    <2>4. CASE CommitCancel(p)
      <3>1. RowsKept
        BY <2>4 DEF CommitCancel, RowsKept, TypeOK, RunRows
      <3>2. JobKept /\ MirrorKept
        BY <2>4, FailJobKept DEF CommitCancel, Errors, JobKept, MirrorKept
      <3> QED
        BY <2>4, <3>1, <3>2 DEF CommitCancel, TasksKept
    <2>5. CASE CommitTrigger(p)
      BY <2>5 DEF CommitTrigger, Telling
    <2> QED
      BY <1>38, <2>1, <2>2, <2>3, <2>4, <2>5 DEF Commit
  <1>39. ASSUME UNCHANGED vars PROVE Quiet
    BY <1>39 DEF vars, RowsKept, TasksKept, JobKept, MirrorKept
  <1> QED
    BY <1>1, <1>2, <1>3, <1>4, <1>5, <1>6, <1>7, <1>8, <1>9, <1>10, <1>11, <1>12, <1>13,
       <1>14, <1>15, <1>16, <1>17, <1>18, <1>19, <1>20, <1>21, <1>22, <1>23, <1>24, <1>25,
       <1>26, <1>27, <1>28, <1>29, <1>30, <1>31, <1>32, <1>33, <1>34, <1>35, <1>36, <1>37,
       <1>38, <1>39
    DEF Next, Other, ConsumeEvent, ConsumeResult, RunTask, Fault, Request, Telling
-----------------------------------------------------------------------------
LEMMA QuietKeepsIntegrity ==
  RunIntegrity /\ Quiet /\ TypeOK' => RunIntegrity'
  <1> SUFFICES ASSUME RunIntegrity, Quiet, TypeOK' PROVE RunIntegrity'
    OBVIOUS
  <1> USE DEF RunIntegrity, Quiet
  <1>1. EngagedIsWhole'
    BY DEF EngagedIsWhole, RowsKept, TasksKept
  <1>2. FreshIsBlank'
    BY DEF FreshIsBlank, RowsKept, TasksKept
  <1>3. CurrentRunExists'
    BY DEF CurrentRunExists, RowsKept, JobKept, TypeOK, Jobs
  <1>4. ResultNeedsWholeOcr'
    BY DEF ResultNeedsWholeOcr, RowsKept
  <1>5. ReviewedRunHasResult'
    BY DEF ReviewedRunHasResult, RowsKept, JobKept, InReview, TypeOK, Jobs
  <1> QED
    BY <1>1, <1>2, <1>3, <1>4, <1>5

(* A run starts: a queued row takes its base run's OCR over, and no hand-off *)
(* is on it.                                                                 *)
LEMMA ResumeKeepsIntegrity ==
  ASSUME RunIntegrity, TypeOK', NEW w \in Workers, NEW ev \in events, ResumeRun(w, ev)
  PROVE  RunIntegrity'
  <1> DEFINE q == job.run
  <1>1. q \in Runs /\ runs[q].status \in {"queued", "running"} /\ task' = task
    BY DEF ResumeRun, Resumes, Active, RunIntegrity, TypeOK, Jobs
  <1>2. \A r \in Runs :
          /\ runs'[r].result = runs[r].result
          /\ runs'[r].status = IF r = q THEN "running" ELSE runs[r].status
          /\ runs'[r].extracted = IF r = q THEN Carried(q) ELSE runs[r].extracted
    BY <1>1 DEF ResumeRun, RunIntegrity, TypeOK, RunRows
  <1>3. runs[q].status = "running" => Carried(q) = runs[q].extracted
    BY DEF Carried
  <1>4. job'.run = q /\ job'.status = "processing"
    BY DEF ResumeRun, Move, RunIntegrity, TypeOK, Jobs
  <1> HIDE DEF q
  <1>5. EngagedIsWhole'
    BY <1>1, <1>2, <1>3 DEF RunIntegrity, EngagedIsWhole, FreshIsBlank
  <1>6. FreshIsBlank'
    BY <1>1, <1>2 DEF RunIntegrity, FreshIsBlank
  <1>7. CurrentRunExists'
    BY <1>1, <1>2, <1>4 DEF CurrentRunExists
  <1>8. ResultNeedsWholeOcr'
    BY <1>1, <1>2, <1>3 DEF RunIntegrity, FreshIsBlank, ResultNeedsWholeOcr
  <1>9. ReviewedRunHasResult'
    BY <1>4 DEF ReviewedRunHasResult
  <1> QED
    BY <1>5, <1>6, <1>7, <1>8, <1>9 DEF RunIntegrity

(* A new row, whoever writes it: the row was absent, the job leaves review.  *)
LEMMA NewRunKeepsIntegrity ==
  ASSUME RunIntegrity, TypeOK', NEW r \in Runs, runs[r].status = "absent",
         runs'[r].result = 0, runs'[r].status # "absent",
         \A q \in Runs \ {r} :
           /\ runs'[q].extracted = runs[q].extracted
           /\ runs'[q].result = runs[q].result
           /\ runs'[q].status = runs[q].status \/ runs'[q].status \notin {"absent", "queued"},
         TasksKept, job'.run = r, job'.status \notin InReview
  PROVE  RunIntegrity'
  <1>1. \A w \in Workers : ~Engaged(task'[w][r])
    BY DEF TasksKept, RunIntegrity, FreshIsBlank
  <1>2. EngagedIsWhole'
    BY <1>1 DEF EngagedIsWhole, TasksKept, RunIntegrity
  <1>3. FreshIsBlank'
    BY <1>1 DEF FreshIsBlank, TasksKept, RunIntegrity
  <1>4. CurrentRunExists'
    BY DEF CurrentRunExists
  <1>5. ResultNeedsWholeOcr'
    BY DEF ResultNeedsWholeOcr, RunIntegrity
  <1>6. ReviewedRunHasResult'
    BY DEF ReviewedRunHasResult, InReview
  <1> QED
    BY <1>2, <1>3, <1>4, <1>5, <1>6 DEF RunIntegrity

LEMMA OpenRunIsNew ==
  ASSUME TypeOK, NEW w \in Workers, NEW ev \in events, NEW r \in Runs, OpenRun(w, ev, r)
  PROVE  /\ runs[r].status = "absent"
         /\ runs' = [Superseded(job.run) EXCEPT ![r] = NewRun("running", Kept(ev), NoRun)]
         /\ runs'[r].result = 0 /\ runs'[r].status = "running"
         /\ \A q \in Runs \ {r} :
              /\ runs'[q].extracted = runs[q].extracted
              /\ runs'[q].result = runs[q].result
              /\ runs'[q].status = runs[q].status \/ runs'[q].status = "cancelled"
         /\ TasksKept /\ job'.run = r /\ job'.status = "processing"
  <1>1. runs[r].status = "absent"
    BY DEF OpenRun, Absent
  <1>2. runs' = [Superseded(job.run) EXCEPT ![r] = NewRun("running", Kept(ev), NoRun)]
    BY DEF OpenRun
  <1>3. Superseded(job.run) \in [Runs -> RunRows]
    BY RunStatusType DEF Superseded, TypeOK, RunStatuses
  <1>4. \A q \in Runs :
          /\ Superseded(job.run)[q].extracted = runs[q].extracted
          /\ Superseded(job.run)[q].result = runs[q].result
          /\ \/ Superseded(job.run)[q].status = runs[q].status
             \/ Superseded(job.run)[q].status = "cancelled"
    BY DEF Superseded, TypeOK, RunRows
  <1>5. runs'[r].result = 0 /\ runs'[r].status = "running"
    BY <1>2, <1>3 DEF NewRun
  <1>6. \A q \in Runs \ {r} : runs'[q] = Superseded(job.run)[q]
    BY <1>2, <1>3
  <1>7. TasksKept
    BY ForgetKept DEF OpenRun, TypeOK, TasksKept
  <1>8. job'.run = r /\ job'.status = "processing"
    BY DEF OpenRun, Move
  <1> QED
    BY <1>1, <1>2, <1>4, <1>5, <1>6, <1>7, <1>8

LEMMA CreateRunIsNew ==
  ASSUME TypeOK, NEW r \in Runs, NEW b, CreateRun(r, b)
  PROVE  /\ runs[r].status = "absent"
         /\ runs'[r].result = 0 /\ runs'[r].status = "queued"
         /\ \A q \in Runs \ {r} : runs'[q] = runs[q]
         /\ job'.run = r /\ job'.status = "uploaded"
  BY DEF CreateRun, Absent, NewRun, TypeOK

LEMMA RecordKeepsIntegrity ==
  ASSUME RunIntegrity, TypeOK', NEW w \in Workers, NEW m \in results, RecordAi1Result(w, m)
  PROVE  RunIntegrity'
  <1>1. m.run \in Runs /\ m.doc \in Docs
    BY DEF RunIntegrity, TypeOK, Results
  <1>2. \A r \in Runs :
          /\ runs'[r].result = runs[r].result /\ runs'[r].status = runs[r].status
          /\ runs[r].extracted = Docs => runs'[r].extracted = Docs
    BY <1>1 DEF RecordAi1Result, RunIntegrity, TypeOK, RunRows
  <1>3. TasksKept
    BY ScheduleKept DEF RecordAi1Result, RunIntegrity, TypeOK, TasksKept
  <1>4. job'.run = job.run /\ (job'.status \in InReview => job.status \in InReview)
    BY DEF RecordAi1Result, Move, AfterResult, InReview, RunIntegrity, TypeOK, Jobs
  <1>5. EngagedIsWhole'
    BY <1>2, <1>3 DEF EngagedIsWhole, TasksKept, RunIntegrity
  <1>6. FreshIsBlank'
    BY <1>2, <1>3 DEF FreshIsBlank, TasksKept, RunIntegrity
  <1>7. CurrentRunExists'
    BY <1>2, <1>4 DEF CurrentRunExists, RunIntegrity, TypeOK, Jobs
  <1>8. ResultNeedsWholeOcr'
    BY <1>2 DEF ResultNeedsWholeOcr, RunIntegrity
  <1>9. ReviewedRunHasResult'
    BY <1>2, <1>4 DEF ReviewedRunHasResult, InReview, RunIntegrity, TypeOK, Jobs
  <1> QED
    BY <1>5, <1>6, <1>7, <1>8, <1>9 DEF RunIntegrity

(* The hand-off looks at every document before it starts ...                 *)
LEMMA TaskStartKeepsIntegrity ==
  ASSUME RunIntegrity, TypeOK', NEW w \in Workers, NEW r \in Runs, TaskStart(w, r)
  PROVE  RunIntegrity'
  <1>1. runs[r].extracted = Docs /\ runs[r].attempt # 0
    <2>1. runs[r] \in RunRows
      BY DEF RunIntegrity, TypeOK
    <2>2. Docs \ runs[r].extracted = {}
      BY DEF TaskStart, ReadyForAi2, Missing
    <2> QED
      BY <2>1, <2>2 DEF RunRows
  <1>2. \A q \in Runs :
          /\ runs'[q].extracted = runs[q].extracted /\ runs'[q].result = runs[q].result
          /\ runs'[q].status = IF q = r THEN "running" ELSE runs[q].status
    BY DEF TaskStart, RunIntegrity, TypeOK, RunRows
  <1>3. /\ task'[w][r].attempt = runs[r].attempt
        /\ \A v \in Workers, q \in Runs : <<v, q>> # <<w, r>> => task'[v][q] = task[v][q]
    BY DEF TaskStart, RunIntegrity, TypeOK
  <1>4. job' = job
    BY DEF TaskStart
  <1>5. EngagedIsWhole'
    BY <1>1, <1>2, <1>3 DEF EngagedIsWhole, RunIntegrity
  <1>6. FreshIsBlank'
    BY <1>2, <1>3 DEF FreshIsBlank, RunIntegrity
  <1>7. CurrentRunExists'
    BY <1>2, <1>4 DEF CurrentRunExists, RunIntegrity, TypeOK, Jobs
  <1>8. ResultNeedsWholeOcr'
    BY <1>2 DEF ResultNeedsWholeOcr, RunIntegrity
  <1>9. ReviewedRunHasResult'
    BY <1>2, <1>4 DEF ReviewedRunHasResult, RunIntegrity, TypeOK, Jobs
  <1> QED
    BY <1>5, <1>6, <1>7, <1>8, <1>9 DEF RunIntegrity

(* ... and what it looked at is still there when it persists the result.     *)
LEMMA TaskSucceedsKeepsIntegrity ==
  ASSUME RunIntegrity, TypeOK', NEW w \in Workers, NEW r \in Runs, TaskSucceeds(w, r)
  PROVE  RunIntegrity'
  <1>1. runs[r].extracted = Docs /\ task[w][r].attempt # 0
    BY DEF TaskSucceeds, Engaged, EngagedIsWhole, RunIntegrity
  <1>2. \A q \in Runs :
          /\ runs'[q].extracted = runs[q].extracted
          /\ runs'[q].result = IF q = r THEN task[w][r].attempt ELSE runs[q].result
          /\ runs'[q].status = IF q = r THEN "succeeded" ELSE runs[q].status
    BY DEF TaskSucceeds, RunIntegrity, TypeOK, RunRows
  <1>3. TasksKept
    BY ClosingKept DEF TaskSucceeds, RunIntegrity, TypeOK
  <1>4. job'.run = r
    BY DEF TaskSucceeds, TakesAi2Result, Move, RunIntegrity, TypeOK, Jobs
  <1>5. EngagedIsWhole'
    BY <1>2, <1>3 DEF EngagedIsWhole, TasksKept, RunIntegrity
  <1>6. FreshIsBlank'
    BY <1>2, <1>3 DEF FreshIsBlank, TasksKept, RunIntegrity
  <1>7. CurrentRunExists'
    BY <1>2, <1>4 DEF CurrentRunExists
  <1>8. ResultNeedsWholeOcr'
    BY <1>1, <1>2 DEF ResultNeedsWholeOcr, RunIntegrity
  <1>9. ReviewedRunHasResult'
    BY <1>1, <1>2, <1>4, RunsAssumption DEF ReviewedRunHasResult
  <1> QED
    BY <1>5, <1>6, <1>7, <1>8, <1>9 DEF RunIntegrity

LEMMA IntegrityStep == RunIntegrity /\ [Next]_vars => RunIntegrity'
  <1> SUFFICES ASSUME RunIntegrity, [Next]_vars PROVE RunIntegrity'
    OBVIOUS
  <1>1. TypeOK /\ TypeOK'
    BY TypeStep DEF RunIntegrity
  <1>2. CASE Quiet
    BY <1>1, <1>2, QuietKeepsIntegrity
  <1>3. ASSUME NEW w \in Workers, NEW ev \in events, ResumeRun(w, ev) PROVE RunIntegrity'
    BY <1>1, <1>3, ResumeKeepsIntegrity
  <1>4. ASSUME NEW w \in Workers, NEW ev \in events, NEW r \in Runs, OpenRun(w, ev, r)
        PROVE  RunIntegrity'
    <2>1. "processing" \notin InReview
      BY DEF InReview
    <2> QED
      BY <1>1, <1>4, <2>1, OpenRunIsNew, NewRunKeepsIntegrity
  <1>5. ASSUME NEW w \in Workers, NEW m \in results, RecordAi1Result(w, m) PROVE RunIntegrity'
    BY <1>1, <1>5, RecordKeepsIntegrity
  <1>6. ASSUME NEW w \in Workers, NEW r \in Runs, TaskStart(w, r) PROVE RunIntegrity'
    BY <1>1, <1>6, TaskStartKeepsIntegrity
  <1>7. ASSUME NEW w \in Workers, NEW r \in Runs, TaskSucceeds(w, r) PROVE RunIntegrity'
    BY <1>1, <1>7, TaskSucceedsKeepsIntegrity
  <1>8. ASSUME NEW r \in Runs, NEW b \in Runs \cup {NoRun}, CreateRun(r, b),
               UNCHANGED <<dossier, task>>
        PROVE  RunIntegrity'
    <2>1. TasksKept
      BY <1>8 DEF TasksKept
    <2>2. "uploaded" \notin InReview
      BY DEF InReview
    <2> QED
      BY <1>1, <1>8, <2>1, <2>2, CreateRunIsNew, NewRunKeepsIntegrity
  <1> QED
    BY <1>1, <1>2, <1>3, <1>4, <1>5, <1>6, <1>7, <1>8, QuietOrTelling DEF Telling

LEMMA IntegrityInit == Init => RunIntegrity
  <1> SUFFICES ASSUME Init PROVE RunIntegrity
    OBVIOUS
  <1>1. \A r \in Runs : runs[r].status = "absent" /\ runs[r].result = 0
    BY DEF Init, AbsentRun, NewRun
  <1>2. \A w \in Workers, r \in Runs : ~Engaged(task[w][r])
    BY DEF Init, NoTask, Engaged
  <1>3. job.run = NoRun /\ job.status = "uploaded"
    BY DEF Init
  <1> QED
    BY <1>1, <1>2, <1>3, TypeInit DEF RunIntegrity, EngagedIsWhole, FreshIsBlank,
       CurrentRunExists, ResultNeedsWholeOcr, ReviewedRunHasResult

THEOREM IntegrityHolds == Spec => []RunIntegrity
  BY IntegrityInit, IntegrityStep, PTL DEF Spec
-----------------------------------------------------------------------------
(* An AI2 result is only ever persisted on a run whose OCR is whole, with    *)
(* any number of workers, faults and overtaken transactions.                 *)
THEOREM ResultsNeedWholeOcr == Spec => []ResultNeedsWholeOcr
  BY IntegrityHolds, PTL DEF RunIntegrity

(* A job in human review points at a run whose AI2 result is persisted.      *)
THEOREM ReviewsHaveResults == Spec => []ReviewedRunHasResult
  BY IntegrityHolds, PTL DEF RunIntegrity

(* The dossier row and the job row differ only while an API run waits.       *)
THEOREM MirrorHolds == Spec => []DossierMirrorsJob
  <1>1. Init => DossierMirrorsJob
    BY DEF Init, DossierMirrorsJob
  <1>2. TypeOK /\ DossierMirrorsJob /\ [Next]_vars => DossierMirrorsJob'
    <2> SUFFICES ASSUME TypeOK, DossierMirrorsJob, [Next]_vars PROVE DossierMirrorsJob'
      OBVIOUS
    <2>1. CASE MirrorKept
      BY <2>1 DEF MirrorKept, DossierMirrorsJob
    <2>2. ASSUME NEW row, Move(row) PROVE DossierMirrorsJob'
      BY <2>2 DEF Move, DossierMirrorsJob, TypeOK
    <2>3. ASSUME NEW r, NEW b, CreateRun(r, b) PROVE DossierMirrorsJob'
      BY <2>3 DEF CreateRun, DossierMirrorsJob
    <2>4. ASSUME NEW w, NEW r, TaskStart(w, r) PROVE DossierMirrorsJob'
      BY <2>4 DEF TaskStart, DossierMirrorsJob
    <2> QED
      BY <2>1, <2>2, <2>3, <2>4, QuietOrTelling
      DEF Quiet, Telling, ResumeRun, OpenRun, RecordAi1Result, TaskSucceeds
  <1> QED
    BY <1>1, <1>2, TypeCorrect, PTL DEF Spec

(* Only the current run gains OCR or a result: what arrives for a superseded *)
(* run is dropped, whichever worker it arrives at.                           *)
THEOREM OnlyTheCurrentRunGains == Spec => OnlyCurrentRunGains
  <1> DEFINE Gains(r) == runs'[r].extracted # runs[r].extracted \/ runs'[r].result # runs[r].result
  <1>1. RunIntegrity /\ [Next]_vars => [\A r \in Runs : Gains(r) => job'.run = r]_vars
    <2> SUFFICES ASSUME RunIntegrity, [Next]_vars, NEW q \in Runs, Gains(q)
                 PROVE  job'.run = q
      OBVIOUS
    <2>1. TypeOK
      BY DEF RunIntegrity
    <2>2. CASE Quiet
      BY <2>2 DEF Quiet, RowsKept
    <2>3. ASSUME NEW w \in Workers, NEW ev \in events, ResumeRun(w, ev) PROVE job'.run = q
      BY <2>1, <2>3 DEF ResumeRun, Resumes, Active, Move, TypeOK, Jobs, RunRows
    <2>4. ASSUME NEW w \in Workers, NEW ev \in events, NEW r \in Runs, OpenRun(w, ev, r)
          PROVE  job'.run = q
      BY <2>1, <2>4, OpenRunIsNew
    <2>5. ASSUME NEW w \in Workers, NEW m \in results, RecordAi1Result(w, m) PROVE job'.run = q
      <3>1. job'.run = job.run
        BY <2>1, <2>5 DEF RecordAi1Result, Move, AfterResult, TypeOK, Jobs
      <3> QED
        BY <2>1, <2>5, <3>1 DEF RecordAi1Result, KeepsResult, TypeOK, RunRows
    <2>6. ASSUME NEW w \in Workers, NEW r \in Runs, TaskStart(w, r) PROVE job'.run = q
      BY <2>1, <2>6 DEF TaskStart, TypeOK, RunRows
    <2>7. ASSUME NEW w \in Workers, NEW r \in Runs, TaskSucceeds(w, r) PROVE job'.run = q
      <3>1. job'.run = r
        BY <2>1, <2>7 DEF TaskSucceeds, TakesAi2Result, Move, TypeOK, Jobs
      <3> QED
        BY <2>1, <2>7, <3>1 DEF TaskSucceeds, TypeOK, RunRows
    <2>8. ASSUME NEW r \in Runs, NEW b, CreateRun(r, b) PROVE job'.run = q
      BY <2>1, <2>8, CreateRunIsNew
    <2> QED
      BY <2>1, <2>2, <2>3, <2>4, <2>5, <2>6, <2>7, <2>8, QuietOrTelling DEF Telling
  <1> QED
    BY <1>1, IntegrityHolds, PTL DEF Spec, OnlyCurrentRunGains
=============================================================================
