----------------------- MODULE DossierPipelineTypes -----------------------
(***************************************************************************)
(* Type correctness of DossierPipeline, for every value of its constants:  *)
(* lemmas about the operators that write one variable, then one step per   *)
(* action.                                                                 *)
(***************************************************************************)
EXTENDS DossierPipeline, TLAPS

LEMMA RunStatusType ==
  ASSUME NEW f \in [Runs -> RunRows], NEW r, NEW s \in RunStatuses
  PROVE  [f EXCEPT ![r].status = s] \in [Runs -> RunRows]
  BY DEF RunRows

LEMMA RunOcrType ==
  ASSUME NEW f \in [Runs -> RunRows], NEW r, NEW docs \in SUBSET Docs
  PROVE  [f EXCEPT ![r].extracted = docs] \in [Runs -> RunRows]
  BY DEF RunRows

LEMMA RunRowType ==
  ASSUME NEW f \in [Runs -> RunRows], NEW r, NEW row \in RunRows
  PROVE  [f EXCEPT ![r] = row] \in [Runs -> RunRows]
  OBVIOUS

LEMMA NewRunType ==
  ASSUME NEW s \in RunStatuses, NEW docs \in SUBSET Docs, NEW b \in Runs \cup {NoRun}
  PROVE  NewRun(s, docs, b) \in RunRows
  BY DEF NewRun, RunRows

LEMMA JobStatusType ==
  ASSUME job \in Jobs, NEW s \in JobStatuses
  PROVE  [job EXCEPT !.status = s] \in Jobs
  BY DEF Jobs

LEMMA JobErrorType ==
  ASSUME job \in Jobs, NEW s \in JobStatuses, NEW e \in Errors
  PROVE  [job EXCEPT !.status = s, !.error = e] \in Jobs
  BY DEF Jobs

LEMMA MoveType ==
  ASSUME dossier \in [status : JobStatuses, approved : BOOLEAN], NEW row \in Jobs, Move(row)
  PROVE  job' \in Jobs /\ dossier' \in [status : JobStatuses, approved : BOOLEAN]
  BY DEF Move, Jobs

LEMMA FailJobType ==
  ASSUME job \in Jobs, dossier \in [status : JobStatuses, approved : BOOLEAN],
         NEW e \in Errors, FailJob(e)
  PROVE  job' \in Jobs /\ dossier' \in [status : JobStatuses, approved : BOOLEAN]
  BY JobErrorType, MoveType DEF FailJob, JobStatuses

LEMMA HandType ==
  ASSUME hand \in [Workers -> Hands], NEW w,
         NEW pc \in {"down", "idle", "retry", "dispatch", "write", "ack"},
         NEW r \in Runs \cup {NoRun}
  PROVE  /\ [hand EXCEPT ![w].pc = pc] \in [Workers -> Hands]
         /\ [hand EXCEPT ![w].pc = pc, ![w].run = r] \in [Workers -> Hands]
  BY DEF Hands

LEMMA HoldType ==
  ASSUME hand \in [Workers -> Hands], NEW w, NEW ev \in Events,
         NEW pc \in {"down", "idle", "retry", "dispatch", "write", "ack"},
         NEW r \in Runs \cup {NoRun}, Hold(w, ev, pc, r)
  PROVE  hand' \in [Workers -> Hands]
  BY DEF Hands, Hold

LEMMA TaskType ==
  ASSUME NEW f \in [Workers -> [Runs -> Tasks]], NEW w, NEW r, NEW t \in Tasks
  PROVE  [f EXCEPT ![w][r] = t] \in [Workers -> [Runs -> Tasks]]
  OBVIOUS

LEMMA TaskPcType ==
  ASSUME NEW f \in [Workers -> [Runs -> Tasks]], NEW w, NEW r,
         NEW pc \in {"none", "waiting", "freezing", "polling", "closing"}
  PROVE  [f EXCEPT ![w][r].pc = pc] \in [Workers -> [Runs -> Tasks]]
  <1>1. CASE w \in Workers /\ r \in Runs
    <2>1. [f[w][r] EXCEPT !.pc = pc] \in Tasks
      BY <1>1 DEF Tasks
    <2>2. [f[w] EXCEPT ![r] = [f[w][r] EXCEPT !.pc = pc]] \in [Runs -> Tasks]
      BY <1>1, <2>1
    <2> QED
      BY <1>1, <2>2
  <1>2. CASE w \in Workers /\ r \notin Runs
    <2>1. [f[w] EXCEPT ![r] = [f[w][r] EXCEPT !.pc = pc]] \in [Runs -> Tasks]
      BY <1>2
    <2> QED
      BY <1>2, <2>1
  <1>3. CASE w \notin Workers
    BY <1>3
  <1> QED
    BY <1>1, <1>2, <1>3

LEMMA ScheduleType ==
  ASSUME task \in [Workers -> [Runs -> Tasks]], NEW w, NEW r
  PROVE  Schedule(w, r) \in [Workers -> [Runs -> Tasks]]
  BY TaskPcType DEF Schedule

LEMMA ClosingType ==
  ASSUME task \in [Workers -> [Runs -> Tasks]], NEW w, NEW r, Closing(w, r)
  PROVE  task' \in [Workers -> [Runs -> Tasks]]
  BY TaskType DEF Closing, NoTask, Tasks

LEMMA BeginType ==
  ASSUME pending \subseteq Pendings, NEW kind \in PendingKinds, NEW by \in Workers \cup {Api},
         NEW r \in Runs \cup {NoRun}, Begin(kind, by, r)
  PROVE  pending' \subseteq Pendings
  BY DEF Begin, Pendings

LEMMA CommandsType ==
  ASSUME ocr \in [Runs -> [Docs -> {"none", "sent", "answered"}]], NEW r, NEW docs,
         CommandsSent(r, docs)
  PROVE  ocr' \in [Runs -> [Docs -> {"none", "sent", "answered"}]]
  BY DEF CommandsSent

LEMMA CreateRunType ==
  ASSUME runs \in [Runs -> RunRows], dispatch \subseteq Runs, NEW r \in Runs,
         NEW b \in Runs \cup {NoRun}, CreateRun(r, b)
  PROVE  job' \in Jobs /\ runs' \in [Runs -> RunRows] /\ dispatch' \subseteq Runs
  <1>1. NewRun("queued", {}, b) \in RunRows
    BY NewRunType DEF RunStatuses
  <1> QED
    BY <1>1, RunRowType DEF CreateRun, Jobs, JobStatuses, Errors

LEMMA NoTaskType == NoTask \in Tasks
  BY DEF NoTask, Tasks

LEMMA IdleHandType ==
  IdleHand \in Hands /\ [IdleHand EXCEPT !.pc = "down"] \in Hands
  BY DEF IdleHand, Hands, UploadEvent, Events, EventKinds

LEMMA EndByFailureType ==
  ASSUME job \in Jobs, dossier \in [status : JobStatuses, approved : BOOLEAN],
         runs \in [Runs -> RunRows], NEW r \in Runs, NEW status, NEW e \in Errors,
         EndByFailure(r, status, e)
  PROVE  /\ job' \in Jobs /\ dossier' \in [status : JobStatuses, approved : BOOLEAN]
         /\ runs' \in [Runs -> RunRows]
  <1>1. [runs EXCEPT ![r].status = "failed"] \in [Runs -> RunRows]
    BY RunStatusType DEF RunStatuses
  <1>2. CASE job.run = r /\ TransitionAllowed(status, "failed")
    BY <1>1, <1>2, FailJobType DEF EndByFailure
  <1>3. CASE ~(job.run = r /\ TransitionAllowed(status, "failed"))
    BY <1>3 DEF EndByFailure
  <1> QED
    BY <1>2, <1>3

LEMMA Ai1SendsType ==
  ASSUME ocr \in [Runs -> [Docs -> {"none", "sent", "answered"}]], results \subseteq Results,
         NEW r \in Runs, NEW d \in Docs, NEW kinds \in SUBSET ResultKinds,
         Ai1Sends(r, d, kinds)
  PROVE  /\ ocr' \in [Runs -> [Docs -> {"none", "sent", "answered"}]]
         /\ results' \subseteq Results
  BY DEF Ai1Sends, Results

(* Every step of the system keeps the types: one step per action, one per    *)
(* component whose new value is not immediate.                               *)
LEMMA TypeStep == TypeOK /\ [Next]_vars => TypeOK'
  <1> SUFFICES ASSUME TypeOK, [Next]_vars PROVE TypeOK'
    OBVIOUS
  <1> USE DEF TypeOK
  <1>1. ASSUME NEW w \in Workers, NEW ev \in events, IgnoreStart(w, ev) PROVE TypeOK'
    BY <1>1, HoldType DEF IgnoreStart
  <1>2. ASSUME NEW w \in Workers, NEW ev \in events, ResumeRun(w, ev) PROVE TypeOK'
    <2>1. job.run \in Runs /\ Carried(job.run) \in SUBSET Docs
      BY <1>2 DEF ResumeRun, Resumes, Active, Carried, Jobs, RunRows
    <2>2. job' \in Jobs /\ dossier' \in [status : JobStatuses, approved : BOOLEAN]
      BY <1>2, JobErrorType, MoveType DEF ResumeRun, JobStatuses, Errors
    <2>3. runs' \in [Runs -> RunRows]
      <3>1. [runs EXCEPT ![job.run].status = "running"] \in [Runs -> RunRows]
        BY RunStatusType DEF RunStatuses
      <3> QED
        BY <1>2, <2>1, <3>1, RunOcrType DEF ResumeRun
    <2>4. hand' \in [Workers -> Hands]
      BY <1>2, <2>1, HoldType DEF ResumeRun
    <2> QED
      BY <1>2, <2>2, <2>3, <2>4 DEF ResumeRun
  <1>3. ASSUME NEW w \in Workers, NEW ev \in events, NEW r \in Runs, OpenRun(w, ev, r)
        PROVE  TypeOK'
    <2>1. Superseded(job.run) \in [Runs -> RunRows] /\ Kept(ev) \in SUBSET Docs
      BY RunStatusType DEF Superseded, Kept, Jobs, RunRows, RunStatuses
    <2>2. runs' \in [Runs -> RunRows]
      BY <1>3, <2>1, NewRunType, RunRowType DEF OpenRun, RunStatuses
    <2>3. task' \in [Workers -> [Runs -> Tasks]]
      BY <1>3, TaskType, NoTaskType DEF OpenRun
    <2>4. job' \in Jobs /\ dossier' \in [status : JobStatuses, approved : BOOLEAN]
      <3>1. [status |-> "processing", run |-> r, error |-> "none"] \in Jobs
        BY DEF Jobs, JobStatuses, Errors
      <3> QED
        BY <1>3, <3>1, MoveType DEF OpenRun
    <2>5. hand' \in [Workers -> Hands]
      BY <1>3, HoldType DEF OpenRun
    <2> QED
      BY <1>3, <2>2, <2>3, <2>4, <2>5 DEF OpenRun
  <1>4. ASSUME NEW w \in Workers, PublishCommands(w) PROVE TypeOK'
    BY <1>4, CommandsType, HandType DEF PublishCommands
  <1>5. ASSUME NEW w \in Workers, HandlerFails(w) PROVE TypeOK'
    <2>1. ocr' \in [Runs -> [Docs -> {"none", "sent", "answered"}]]
      BY <1>5, CommandsType DEF HandlerFails
    <2>2. hand' \in [Workers -> Hands]
      BY <1>5, HandType DEF HandlerFails
    <2> QED
      BY <1>5, <2>1, <2>2 DEF HandlerFails
  <1>6. ASSUME NEW w \in Workers, DeadLetter(w) PROVE TypeOK'
    BY <1>6, IdleHandType DEF DeadLetter
  <1>7. ASSUME NEW w \in Workers, CompleteCarriedRun(w) PROVE TypeOK'
    <2>1. hand[w].run \in Runs \cup {NoRun}
      BY DEF Hands
    <2>2. task' \in [Workers -> [Runs -> Tasks]]
      BY <1>7, ScheduleType DEF CompleteCarriedRun
    <2>3. hand' \in [Workers -> Hands]
      <3>1. /\ [hand EXCEPT ![w].pc = "write"] \in [Workers -> Hands]
            /\ [hand EXCEPT ![w].pc = "ack", ![w].run = NoRun] \in [Workers -> Hands]
        BY HandType
      <3> QED
        BY <1>7, <3>1 DEF CompleteCarriedRun
    <2>4. pending' \subseteq Pendings
      BY <1>7, <2>1, BeginType DEF CompleteCarriedRun, PendingKinds
    <2> QED
      BY <1>7, <2>2, <2>3, <2>4 DEF CompleteCarriedRun
  <1>8. ASSUME NEW w \in Workers, NEW ev \in events, HandleAi2Retry(w, ev) PROVE TypeOK'
    <2>1. ev \in Events /\ ev.run \in Runs \cup {NoRun}
      BY DEF Events
    <2>2. hand' \in [Workers -> Hands]
      BY <1>8, <2>1, HoldType DEF HandleAi2Retry
    <2>3. pending' \subseteq Pendings
      BY <1>8, <2>1, BeginType DEF HandleAi2Retry, PendingKinds
    <2> QED
      BY <1>8, <2>2, <2>3 DEF HandleAi2Retry
  <1>9. ASSUME NEW w \in Workers, NEW ev \in events, HandleManifestConfirmed(w, ev) PROVE TypeOK'
    BY <1>9, HoldType, ScheduleType DEF HandleManifestConfirmed
  <1>10. ASSUME NEW w \in Workers, AckEvent(w) PROVE TypeOK'
    BY <1>10, IdleHandType DEF AckEvent
  <1>11. ASSUME NEW w \in Workers, NEW m \in results, DropAi1Result(w, m) PROVE TypeOK'
    BY <1>11 DEF DropAi1Result
  <1>12. ASSUME NEW w \in Workers, NEW m \in results, FailAi1Run(w, m) PROVE TypeOK'
    <2>1. runs' \in [Runs -> RunRows]
      BY <1>12, RunStatusType DEF FailAi1Run, RunStatuses
    <2>2. job' \in Jobs /\ dossier' \in [status : JobStatuses, approved : BOOLEAN]
      BY <1>12, FailJobType DEF FailAi1Run, Errors
    <2> QED
      BY <1>12, <2>1, <2>2 DEF FailAi1Run
  <1>13. ASSUME NEW w \in Workers, NEW m \in results, DuplicateAi1Result(w, m) PROVE TypeOK'
    BY <1>13, ScheduleType DEF DuplicateAi1Result
  <1>14. ASSUME NEW w \in Workers, NEW m \in results, RecordAi1Result(w, m) PROVE TypeOK'
    <2>1. runs' \in [Runs -> RunRows]
      <3>1. m.run \in Runs /\ m.doc \in Docs /\ runs[m.run].extracted \in SUBSET Docs
        BY DEF Results, RunRows
      <3>2. runs' = [runs EXCEPT ![m.run].extracted = runs[m.run].extracted \cup {m.doc}]
        BY <1>14, <3>1 DEF RecordAi1Result
      <3>3. runs[m.run].extracted \cup {m.doc} \in SUBSET Docs
        BY <3>1
      <3> QED
        BY <3>2, <3>3, RunOcrType
    <2>2. job' \in Jobs /\ dossier' \in [status : JobStatuses, approved : BOOLEAN]
      <3>1. AfterResult(m) \in Jobs
        BY JobStatusType DEF AfterResult, JobStatuses
      <3> QED
        BY <1>14, <3>1, MoveType DEF RecordAi1Result
    <2>3. task' \in [Workers -> [Runs -> Tasks]]
      BY <1>14, ScheduleType DEF RecordAi1Result
    <2> QED
      BY <1>14, <2>1, <2>2, <2>3 DEF RecordAi1Result
  <1>15. ASSUME NEW w \in Workers, AckResult(w) PROVE TypeOK'
    BY <1>15 DEF AckResult
  <1>16. ASSUME NEW w \in Workers, Ai1Overdue(w) PROVE TypeOK'
    BY <1>16, BeginType DEF Ai1Overdue, PendingKinds, Jobs
  <1>17. ASSUME NEW w \in Workers, Start(w) PROVE TypeOK'
    BY <1>17, ScheduleType, IdleHandType DEF Start, Resumed
  <1>18. ASSUME NEW w \in Workers, Crash(w) PROVE TypeOK'
    BY <1>18, IdleHandType, NoTaskType DEF Crash
  <1>19. ASSUME NEW w \in Workers, NEW r \in Runs, TaskStart(w, r) PROVE TypeOK'
    <2>1. [pc |-> "freezing", attempt |-> runs[r].attempt, cached |-> TRUE, seen |-> 0] \in Tasks
      BY DEF Tasks, RunRows
    <2> QED
      BY <1>19, <2>1, TaskType, RunStatusType DEF TaskStart, RunStatuses
  <1>20. ASSUME NEW w \in Workers, NEW r \in Runs, TaskNotReady(w, r) PROVE TypeOK'
    BY <1>20, ClosingType DEF TaskNotReady
  <1>21. ASSUME NEW w \in Workers, NEW r \in Runs, TaskFreeze(w, r) PROVE TypeOK'
    <2>1. task' \in [Workers -> [Runs -> Tasks]]
      <3>1. [task[w][r] EXCEPT !.pc = "polling", !.seen = runs[r].result] \in Tasks
        <4>1. task[w][r] \in Tasks /\ runs[r].result \in Nat
          BY DEF RunRows
        <4> QED
          BY <4>1 DEF Tasks
      <3>2. task' = [task EXCEPT ![w][r] =
                      [task[w][r] EXCEPT !.pc = "polling", !.seen = runs[r].result]]
        BY <1>21 DEF TaskFreeze
      <3> QED
        BY <3>1, <3>2, TaskType
    <2> QED
      BY <1>21, <2>1, RunStatusType DEF TaskFreeze, RunStatuses
  <1>22. ASSUME NEW w \in Workers, NEW r \in Runs, TaskForgets(w, r) PROVE TypeOK'
    <2>1. task' \in [Workers -> [Runs -> Tasks]]
      <3>1. [task[w][r] EXCEPT !.cached = FALSE] \in Tasks
        <4>1. task[w][r] \in Tasks
          OBVIOUS
        <4> QED
          BY <4>1 DEF Tasks
      <3>2. task' = [task EXCEPT ![w][r] = [task[w][r] EXCEPT !.cached = FALSE]]
        BY <1>22 DEF TaskForgets
      <3> QED
        BY <3>1, <3>2, TaskType
    <2> QED
      BY <1>22, <2>1 DEF TaskForgets
  <1>23. ASSUME NEW w \in Workers, NEW r \in Runs, TaskSucceeds(w, r) PROVE TypeOK'
    <2>1. runs' \in [Runs -> RunRows]
      <3>1. [runs[r] EXCEPT !.status = "succeeded", !.result = task[w][r].attempt] \in RunRows
        <4>1. runs[r] \in RunRows /\ task[w][r].attempt \in Nat
          BY DEF Tasks
        <4> QED
          BY <4>1 DEF RunRows, RunStatuses
      <3>2. runs' = [runs EXCEPT ![r] = [runs[r] EXCEPT !.status = "succeeded",
                                                        !.result = task[w][r].attempt]]
        BY <1>23 DEF TaskSucceeds
      <3> QED
        BY <3>1, <3>2, RunRowType
    <2>2. job' \in Jobs /\ dossier' \in [status : JobStatuses, approved : BOOLEAN]
      <3>1. [job EXCEPT !.status = "pending_review"] \in Jobs
        BY JobStatusType DEF JobStatuses
      <3> QED
        BY <1>23, <3>1, MoveType DEF TaskSucceeds
    <2> QED
      BY <1>23, <2>1, <2>2, ClosingType DEF TaskSucceeds
  <1>24. ASSUME NEW w \in Workers, NEW r \in Runs, TaskRefused(w, r) PROVE TypeOK'
    BY <1>24, ClosingType DEF TaskRefused
  <1>25. ASSUME NEW w \in Workers, NEW r \in Runs, TaskBlocked(w, r) PROVE TypeOK'
    BY <1>25, ClosingType, EndByFailureType DEF TaskBlocked, Errors
  <1>26. ASSUME NEW w \in Workers, NEW r \in Runs, TaskFails(w, r) PROVE TypeOK'
    BY <1>26, ClosingType, EndByFailureType DEF TaskFails, Errors
  <1>27. ASSUME NEW w \in Workers, NEW r \in Runs, TaskDone(w, r) PROVE TypeOK'
    BY <1>27, TaskType, NoTaskType DEF TaskDone
  <1>28. ASSUME NEW w \in Workers, NEW r \in Runs, TaskDies(w, r) PROVE TypeOK'
    BY <1>28, TaskType, NoTaskType DEF TaskDies
  <1>29. ASSUME NEW r \in Runs, NEW d \in Docs, Ai1Answers(r, d) PROVE TypeOK'
    <2>1. PICK kinds \in SUBSET ResultKinds : Ai1Sends(r, d, kinds)
      BY <1>29 DEF Ai1Answers, ResultKinds
    <2>2. /\ ocr' \in [Runs -> [Docs -> {"none", "sent", "answered"}]]
          /\ results' \subseteq Results
      BY <2>1, Ai1SendsType
    <2> QED
      BY <1>29, <2>1, <2>2 DEF Ai1Answers, Ai1Sends
  <1>30. ASSUME NEW r \in Runs, NEW d \in Docs, Ai1Garbles(r, d) PROVE TypeOK'
    <2>1. /\ ocr' \in [Runs -> [Docs -> {"none", "sent", "answered"}]]
          /\ results' \subseteq Results
      BY <1>30, Ai1SendsType DEF Ai1Garbles, ResultKinds
    <2> QED
      BY <1>30, <2>1 DEF Ai1Garbles, Ai1Sends
  <1>31. CASE Trigger
    BY <1>31, BeginType DEF Trigger, PendingKinds
  <1>32. ASSUME NEW r \in Runs, Reprocess(r) PROVE TypeOK'
    BY <1>32, CreateRunType DEF Reprocess, Reprocessable, Jobs
  <1>33. ASSUME NEW r \in Runs, DispatchRun(r) PROVE TypeOK'
    BY <1>33 DEF DispatchRun, Events, EventKinds
  <1>34. ASSUME NEW r \in Runs, DispatchFails(r) PROVE TypeOK'
    <2>1. runs' \in [Runs -> RunRows]
      BY <1>34, RunStatusType DEF DispatchFails, RunStatuses
    <2> QED
      BY <1>34, <2>1 DEF DispatchFails
  <1>35. ASSUME NEW r \in Runs, ApiDies(r) PROVE TypeOK'
    BY <1>35 DEF ApiDies
  <1>36. CASE Restart
    BY <1>36 DEF Restart, Publish, Events, EventKinds, Jobs
  <1>37. CASE RetryFailed
    BY <1>37 DEF RetryFailed, Publish, Events, EventKinds, Jobs
  <1>38. CASE Ai2Retry
    BY <1>38 DEF Ai2Retry, Publish, Events, EventKinds, Jobs
  <1>39. ASSUME NEW r \in Runs, Cancel(r) PROVE TypeOK'
    BY <1>39, BeginType DEF Cancel, PendingKinds
  <1>40. CASE ConfirmManifest
    BY <1>40 DEF ConfirmManifest, Publish, Events, EventKinds
  <1>41. CASE CloseLastReviewItem
    <2>1. job' \in Jobs /\ dossier' \in [status : JobStatuses, approved : BOOLEAN]
      BY <1>41, JobStatusType DEF CloseLastReviewItem, Advance, JobStatuses
    <2> QED
      BY <1>41, <2>1 DEF CloseLastReviewItem
  <1>42. CASE Approve
    <2>1. job' \in Jobs /\ dossier' \in [status : JobStatuses, approved : BOOLEAN]
      BY <1>42, JobStatusType DEF Approve, Advance, JobStatuses
    <2> QED
      BY <1>42, <2>1 DEF Approve
  <1>43. ASSUME NEW p \in pending, Commit(p) PROVE TypeOK'
    <2>1. p.run \in Runs \cup {NoRun} /\ pending' \subseteq Pendings
      BY <1>43 DEF Commit, Pendings
    <2>2. CASE CommitTimeout(p)
      BY <2>1, <2>2, FailJobType, RunStatusType DEF CommitTimeout, Errors, RunStatuses
    <2>3. CASE CommitReopen(p)
      <3>1. job' \in Jobs /\ dossier' \in [status : JobStatuses, approved : BOOLEAN]
        BY <2>3, JobErrorType, MoveType DEF CommitReopen, JobStatuses, Errors
      <3>2. runs' \in [Runs -> RunRows]
        <4>1. CASE p.run \in Runs
          <5>1. [runs[p.run] EXCEPT !.status = "running",
                                    !.attempt = runs[p.run].attempt + 1] \in RunRows
            <6>1. runs[p.run] \in RunRows
              BY <4>1
            <6>2. runs[p.run].attempt + 1 \in Nat \ {0}
              BY <6>1 DEF RunRows
            <6> QED
              BY <6>1, <6>2 DEF RunRows, RunStatuses
          <5>2. runs' = [runs EXCEPT ![p.run] =
                          [runs[p.run] EXCEPT !.status = "running",
                                             !.attempt = runs[p.run].attempt + 1]]
            BY <2>3, <4>1 DEF CommitReopen
          <5> QED
            BY <5>1, <5>2, RunRowType
        <4>2. CASE p.run \notin Runs
          BY <2>3, <4>2 DEF CommitReopen
        <4> QED
          BY <4>1, <4>2
      <3> QED
        BY <2>1, <2>3, <3>1, <3>2, ScheduleType, HandType DEF CommitReopen
    <2>4. CASE CommitCarried(p)
      <3>1. job' \in Jobs /\ dossier' \in [status : JobStatuses, approved : BOOLEAN]
        <4>1. [job EXCEPT !.status = "extracted"] \in Jobs
          BY JobStatusType DEF JobStatuses
        <4> QED
          BY <2>4, <4>1, MoveType DEF CommitCarried
      <3> QED
        BY <2>1, <2>4, <3>1, ScheduleType, HandType DEF CommitCarried
    <2>5. CASE CommitCancel(p)
      BY <2>1, <2>5, FailJobType, RunStatusType DEF CommitCancel, Errors, RunStatuses
    <2>6. CASE CommitTrigger(p)
      BY <2>1, <2>6, CreateRunType DEF CommitTrigger
    <2> QED
      BY <1>43, <2>2, <2>3, <2>4, <2>5, <2>6 DEF Commit
  <1>44. CASE UNCHANGED vars
    BY <1>44 DEF vars
  <1> QED
    BY <1>1, <1>2, <1>3, <1>4, <1>5, <1>6, <1>7, <1>8, <1>9, <1>10, <1>11, <1>12, <1>13,
       <1>14, <1>15, <1>16, <1>17, <1>18, <1>19, <1>20, <1>21, <1>22, <1>23, <1>24, <1>25,
       <1>26, <1>27, <1>28, <1>29, <1>30, <1>31, <1>32, <1>33, <1>34, <1>35, <1>36, <1>37,
       <1>38, <1>39, <1>40, <1>41, <1>42, <1>43, <1>44
    DEF Next, Other, ConsumeEvent, ConsumeResult, RunTask, Fault, Request

LEMMA TypeInit == Init => TypeOK
  <1> SUFFICES ASSUME Init PROVE TypeOK
    OBVIOUS
  <1>1. job \in Jobs /\ dossier \in [status : JobStatuses, approved : BOOLEAN]
    BY DEF Init, Jobs, JobStatuses, Errors
  <1>2. runs \in [Runs -> RunRows]
    BY NewRunType DEF Init, AbsentRun, RunStatuses
  <1>3. hand \in [Workers -> Hands] /\ events \subseteq Events
    BY IdleHandType DEF Init, Events, EventKinds, UploadEvent
  <1>4. task \in [Workers -> [Runs -> Tasks]]
    BY NoTaskType DEF Init
  <1> QED
    BY <1>1, <1>2, <1>3, <1>4 DEF Init, TypeOK

(* The state has its types in every state of every instance of the system.   *)
THEOREM TypeCorrect == Spec => []TypeOK
  BY TypeInit, TypeStep, PTL DEF Spec
=============================================================================
