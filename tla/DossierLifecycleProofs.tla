----------------------- MODULE DossierLifecycleProofs -----------------------
(***************************************************************************)
(* What DossierPipeline keeps only as far as its unlocked transactions are *)
(* not overtaken.  Every theorem names, as hypotheses on the constants,    *)
(* the workers, races, requests and faults it needs absent.                *)
(*                                                                         *)
(* A step of the pipeline is the end of an unlocked transaction (Commit),  *)
(* one of the dozen that write the job or a run row (Acting), or one that  *)
(* only moves records, commands and tasks about (Bystander).               *)
(***************************************************************************)
EXTENDS DossierPipelineProofs

Bystander == UNCHANGED <<job, runs>> /\ TasksKept

Acting ==
  \/ \E w \in Workers, ev \in events : ResumeRun(w, ev)
  \/ \E w \in Workers, ev \in events, r \in Runs : OpenRun(w, ev, r)
  \/ \E w \in Workers, m \in results : FailAi1Run(w, m)
  \/ \E w \in Workers, m \in results : RecordAi1Result(w, m)
  \/ \E w \in Workers, r \in Runs : TaskStart(w, r)
  \/ \E w \in Workers, r \in Runs : TaskFreeze(w, r)
  \/ \E w \in Workers, r \in Runs : TaskSucceeds(w, r)
  \/ \E w \in Workers, r \in Runs : TaskBlocked(w, r)
  \/ \E w \in Workers, r \in Runs : TaskFails(w, r)
  \/ \E r \in Runs : DispatchFails(r)
  \/ \E r \in Runs : Reprocess(r)
  \/ CloseLastReviewItem
  \/ Approve

LEMMA BystanderOrActing == TypeOK /\ Other => Bystander \/ Acting
  <1> SUFFICES ASSUME TypeOK, Other PROVE Bystander \/ Acting
    OBVIOUS
  <1>1. ASSUME NEW w \in Workers, ConsumeEvent(w) PROVE Bystander \/ Acting
    <2>1. ASSUME NEW ev \in events, IgnoreStart(w, ev) PROVE Bystander
      BY <2>1 DEF IgnoreStart, Bystander, TasksKept
    <2>2. ASSUME NEW ev \in events, HandleAi2Retry(w, ev) PROVE Bystander
      BY <2>2 DEF HandleAi2Retry, Bystander, TasksKept
    <2>3. ASSUME NEW ev \in events, HandleManifestConfirmed(w, ev) PROVE Bystander
      BY <2>3, ScheduleKept DEF HandleManifestConfirmed, Bystander, TypeOK, TasksKept
    <2>4. ASSUME PublishCommands(w) \/ AckEvent(w) PROVE Bystander
      BY <2>4 DEF PublishCommands, AckEvent, Bystander, TasksKept
    <2>5. ASSUME CompleteCarriedRun(w) PROVE Bystander
      BY <2>5, ScheduleKept DEF CompleteCarriedRun, Bystander, TypeOK, TasksKept
    <2> QED
      BY <1>1, <2>1, <2>2, <2>3, <2>4, <2>5 DEF ConsumeEvent, Acting
  <1>2. ASSUME NEW w \in Workers, ConsumeResult(w) PROVE Bystander \/ Acting
    <2>1. ASSUME NEW m \in results, DropAi1Result(w, m) PROVE Bystander
      BY <2>1 DEF DropAi1Result, Bystander, TasksKept
    <2>2. ASSUME NEW m \in results, DuplicateAi1Result(w, m) PROVE Bystander
      BY <2>2, ScheduleKept DEF DuplicateAi1Result, Bystander, TypeOK, TasksKept
    <2>3. ASSUME AckResult(w) PROVE Bystander
      BY <2>3 DEF AckResult, Bystander, TasksKept
    <2> QED
      BY <1>2, <2>1, <2>2, <2>3 DEF ConsumeResult, Acting
  <1>3. ASSUME NEW w \in Workers, Ai1Overdue(w) PROVE Bystander
    BY <1>3 DEF Ai1Overdue, Bystander, TasksKept
  <1>4. ASSUME NEW w \in Workers, Start(w) PROVE Bystander
    BY <1>4, ScheduleKept DEF Start, Resumed, Bystander, TypeOK, TasksKept
  <1>5. ASSUME NEW w \in Workers, NEW r \in Runs, RunTask(w, r) PROVE Bystander \/ Acting
    <2>1. ASSUME TaskNotReady(w, r) \/ TaskRefused(w, r) PROVE Bystander
      BY <2>1, ClosingKept DEF TaskNotReady, TaskRefused, Bystander, TypeOK
    <2>2. ASSUME TaskDone(w, r) PROVE Bystander
      BY <2>2, ForgetKept DEF TaskDone, Bystander, TypeOK
    <2> QED
      BY <1>5, <2>1, <2>2 DEF RunTask, Acting
  <1>6. ASSUME NEW w \in Workers, NEW r \in Runs, TaskForgets(w, r) PROVE Bystander
    BY <1>6 DEF TaskForgets, Bystander, TasksKept, Engaged, TypeOK, Tasks
  <1>7. ASSUME NEW r \in Runs, DispatchRun(r) PROVE Bystander
    BY <1>7 DEF DispatchRun, Bystander, TasksKept
  <1>8. ASSUME NEW r \in Runs, NEW d \in Docs, Ai1Answers(r, d) PROVE Bystander
    BY <1>8 DEF Ai1Answers, Ai1Sends, Bystander, TasksKept
  <1>9. ASSUME Request PROVE Bystander \/ Acting
    <2>1. ASSUME Trigger \/ Restart \/ RetryFailed \/ Ai2Retry \/ ConfirmManifest
                 \/ (\E r \in Runs : Cancel(r))
          PROVE  Bystander
      BY <2>1 DEF Trigger, Restart, RetryFailed, Ai2Retry, ConfirmManifest, Cancel,
         Bystander, TasksKept
    <2> QED
      BY <1>9, <2>1 DEF Request, Acting
  <1>10. ASSUME Fault PROVE Bystander \/ Acting
    <2>1. ASSUME NEW w \in Workers, HandlerFails(w) \/ DeadLetter(w) PROVE Bystander
      BY <2>1 DEF HandlerFails, DeadLetter, Bystander, TasksKept
    <2>2. ASSUME NEW w \in Workers, Crash(w) PROVE Bystander
      BY <2>2 DEF Crash, NoTask, Engaged, TypeOK, Bystander, TasksKept
    <2>3. ASSUME NEW w \in Workers, NEW r \in Runs, TaskDies(w, r) PROVE Bystander
      BY <2>3, ForgetKept DEF TaskDies, Bystander, TypeOK
    <2>4. ASSUME NEW r \in Runs, ApiDies(r) PROVE Bystander
      BY <2>4 DEF ApiDies, Bystander, TasksKept
    <2>5. ASSUME NEW r \in Runs, NEW d \in Docs, Ai1Garbles(r, d) PROVE Bystander
      BY <2>5 DEF Ai1Garbles, Ai1Sends, Bystander, TasksKept
    <2> QED
      BY <1>10, <2>1, <2>2, <2>3, <2>4, <2>5 DEF Fault, Acting
  <1> QED
    BY <1>1, <1>2, <1>3, <1>4, <1>5, <1>6, <1>7, <1>8, <1>9, <1>10 DEF Other
-----------------------------------------------------------------------------
(* What an unlocked transaction has read.                                    *)
Decided(p) ==
  /\ p.kind = "timeout" => job.status = "processing" /\ job.run = p.run
  /\ p.kind = "carried" =>
       job.run = p.run /\ TransitionAllowed(job.status, "extracted") /\ Missing(p.run) = {}
  /\ p.kind = "reopen" => MayReopen(p.run)
  /\ p.kind = "trigger" => ~AnyActive
  /\ p.kind = "cancel" => "cancel" \in Requests /\ p.run \in Runs

(* The transactions of an event handler: its record waits in hand.           *)
Handling(p) == p.kind \in {"carried", "reopen"}

Starts(p) ==
  /\ p \in Pendings /\ pending' = pending \cup {p}
  /\ Decided(p)
  /\ p.kind = "timeout" => job.run # NoRun
  /\ p.kind = "carried" => hand[p.by].pc = "dispatch" /\ hand[p.by].run = p.run
  /\ Handling(p) =>
       p.by \in Workers /\ hand[p.by].pc # "write" /\ hand'[p.by].pc = "write"
  /\ UNCHANGED <<job, runs, task>>

LEMMA PendingStep ==
  TypeOK /\ Other => UNCHANGED pending \/ (\E w \in Workers : Crash(w)) \/ (\E p : Starts(p))
  <1> DEFINE Goal == UNCHANGED pending \/ (\E w \in Workers : Crash(w)) \/ (\E p : Starts(p))
  <1> SUFFICES ASSUME TypeOK, Other PROVE Goal
    OBVIOUS
  <1>1. ASSUME NEW w \in Workers, ConsumeEvent(w) PROVE Goal
    <2>1. ASSUME NEW ev \in events, HandleAi2Retry(w, ev) PROVE Goal
      <3>1. CASE MayReopen(ev.run)
        <4> DEFINE p == [kind |-> "reopen", by |-> w, run |-> ev.run]
        <4>1. p \in Pendings
          BY DEF Pendings, PendingKinds, TypeOK, Events
        <4>2. pending' = pending \cup {p} /\ hand' = [hand EXCEPT ![w] = [pc |-> "write", ev |-> ev, run |-> ev.run]]
          BY <2>1, <3>1 DEF HandleAi2Retry, Begin, Hold
        <4>3. hand[w].pc # "write" /\ hand'[w].pc = "write"
          BY <2>1, <4>2 DEF HandleAi2Retry, Receives, TypeOK
        <4>4. Starts(p)
          BY <2>1, <3>1, <4>1, <4>2, <4>3 DEF HandleAi2Retry, Starts, Decided, Handling
        <4> QED
          BY <4>4
      <3>2. CASE ~MayReopen(ev.run)
        BY <2>1, <3>2 DEF HandleAi2Retry
      <3> QED
        BY <3>1, <3>2
    <2>2. ASSUME CompleteCarriedRun(w), pending' # pending PROVE Goal
      <3> DEFINE p == [kind |-> "carried", by |-> w, run |-> hand[w].run]
      <3>1. p \in Pendings
        BY DEF Pendings, PendingKinds, TypeOK, Hands
      <3>2. /\ pending' = pending \cup {p} /\ hand' = [hand EXCEPT ![w].pc = "write"]
            /\ UNCHANGED <<job, runs, task>>
            /\ hand[w].pc = "dispatch" /\ Missing(p.run) = {}
            /\ job.run = p.run /\ TransitionAllowed(job.status, "extracted")
        BY <2>2 DEF CompleteCarriedRun, Begin
      <3>3. hand'[w].pc = "write"
        BY <3>2 DEF TypeOK, Hands
      <3>4. Starts(p)
        BY <3>1, <3>2, <3>3 DEF Starts, Decided, Handling
      <3> QED
        BY <3>4
    <2>3. ASSUME NEW ev \in events, IgnoreStart(w, ev) \/ ResumeRun(w, ev)
                 \/ (\E r \in Runs : OpenRun(w, ev, r)) \/ HandleManifestConfirmed(w, ev)
          PROVE  UNCHANGED pending
      BY <2>3 DEF IgnoreStart, ResumeRun, OpenRun, HandleManifestConfirmed
    <2>4. ASSUME PublishCommands(w) \/ AckEvent(w) PROVE UNCHANGED pending
      BY <2>4 DEF PublishCommands, AckEvent
    <2> QED
      BY <1>1, <2>1, <2>2, <2>3, <2>4 DEF ConsumeEvent
  <1>2. ASSUME NEW w \in Workers, ConsumeResult(w) PROVE UNCHANGED pending
    BY <1>2 DEF ConsumeResult, DropAi1Result, FailAi1Run, DuplicateAi1Result,
       RecordAi1Result, AckResult
  <1>3. ASSUME NEW w \in Workers, Ai1Overdue(w) PROVE Goal
    <2> DEFINE p == [kind |-> "timeout", by |-> w, run |-> job.run]
    <2>1. p \in Pendings
      BY DEF Pendings, PendingKinds, TypeOK, Jobs
    <2>2. Starts(p)
      BY <1>3, <2>1 DEF Ai1Overdue, Begin, Starts, Decided, Handling
    <2> QED
      BY <2>2
  <1>4. ASSUME NEW w \in Workers, NEW r \in Runs, RunTask(w, r) \/ TaskForgets(w, r)
        PROVE  UNCHANGED pending
    BY <1>4 DEF RunTask, TaskStart, TaskNotReady, TaskFreeze, TaskSucceeds, TaskRefused,
       TaskBlocked, TaskFails, TaskDone, TaskForgets
  <1>5. ASSUME \/ \E w \in Workers : Start(w)
               \/ \E r \in Runs : DispatchRun(r)
               \/ \E r \in Runs, d \in Docs : Ai1Answers(r, d)
        PROVE  UNCHANGED pending
    BY <1>5 DEF Start, DispatchRun, Ai1Answers, Ai1Sends
  <1>6. ASSUME Request PROVE Goal
    <2>1. ASSUME Trigger PROVE Goal
      <3> DEFINE p == [kind |-> "trigger", by |-> Api, run |-> NoRun]
      <3>1. p \in Pendings
        BY DEF Pendings, PendingKinds
      <3>2. Starts(p)
        BY <2>1, <3>1 DEF Trigger, Begin, Starts, Decided, Handling
      <3> QED
        BY <3>2
    <2>2. ASSUME NEW r \in Runs, Cancel(r) PROVE Goal
      <3> DEFINE p == [kind |-> "cancel", by |-> Api, run |-> r]
      <3>1. p \in Pendings
        BY DEF Pendings, PendingKinds
      <3>2. Starts(p)
        BY <2>2, <3>1 DEF Cancel, Begin, Starts, Decided, Handling
      <3> QED
        BY <3>2
    <2>3. ASSUME \/ \E r \in Runs : Reprocess(r)
                 \/ Restart \/ RetryFailed \/ Ai2Retry \/ ConfirmManifest
                 \/ CloseLastReviewItem \/ Approve
          PROVE  UNCHANGED pending
      BY <2>3 DEF Reprocess, Restart, RetryFailed, Ai2Retry, ConfirmManifest,
         CloseLastReviewItem, Approve
    <2> QED
      BY <1>6, <2>1, <2>2, <2>3 DEF Request
  <1>7. ASSUME Fault PROVE Goal
    <2>1. ASSUME \/ \E w \in Workers : HandlerFails(w) \/ DeadLetter(w)
                 \/ \E w \in Workers, r \in Runs : TaskDies(w, r)
                 \/ \E r \in Runs : DispatchFails(r) \/ ApiDies(r)
                 \/ \E r \in Runs, d \in Docs : Ai1Garbles(r, d)
          PROVE  UNCHANGED pending
      BY <2>1 DEF HandlerFails, DeadLetter, TaskDies, DispatchFails, ApiDies, Ai1Garbles, Ai1Sends
    <2> QED
      BY <1>7, <2>1 DEF Fault
  <1> QED
    BY <1>1, <1>2, <1>3, <1>4, <1>5, <1>6, <1>7 DEF Other
-----------------------------------------------------------------------------
(* How a worker's record in hand changes, unless by the end of a transaction. *)
HandMoves(v) ==
  \/ hand'[v] = hand[v]
  \/ Crash(v) /\ hand'[v].run = NoRun /\ hand'[v].pc = "down"
  \/ /\ hand[v].pc # "write"
     /\ \/ hand'[v].run = NoRun /\ hand'[v].pc # "dispatch"
        \/ hand'[v].run = hand[v].run /\ hand[v].pc = "dispatch" /\ hand'[v].pc = "write"
        \/ /\ hand'[v].run = job'.run /\ job'.run # NoRun
           /\ job'.status = "processing" /\ hand'[v].pc = "dispatch"
        \/ hand'[v].run = job'.run /\ job'.status = "failed" /\ hand'[v].pc = "write"

LEMMA HandStep == TypeOK /\ Other => \A v \in Workers : HandMoves(v)
  <1> SUFFICES ASSUME TypeOK, Other, NEW v \in Workers PROVE HandMoves(v)
    OBVIOUS
  <1>1. ASSUME NEW w \in Workers, ConsumeEvent(w) PROVE HandMoves(v)
    <2>1. ASSUME NEW ev \in events, IgnoreStart(w, ev) PROVE HandMoves(v)
      BY <2>1 DEF IgnoreStart, Receives, Hold, HandMoves, TypeOK
    <2>2. ASSUME NEW ev \in events, ResumeRun(w, ev) PROVE HandMoves(v)
      <3>1. job'.run = job.run /\ job.run # NoRun /\ job'.status = "processing"
        BY <2>2 DEF ResumeRun, Resumes, Active, Move, TypeOK, Jobs
      <3> QED
        BY <2>2, <3>1 DEF ResumeRun, Receives, Hold, HandMoves, TypeOK
    <2>3. ASSUME NEW ev \in events, NEW r \in Runs, OpenRun(w, ev, r) PROVE HandMoves(v)
      <3>1. job'.run = r /\ r # NoRun /\ job'.status = "processing"
        BY <2>3, RunsAssumption DEF OpenRun, Move
      <3> QED
        BY <2>3, <3>1 DEF OpenRun, Receives, Hold, HandMoves, TypeOK
    <2>4. ASSUME NEW ev \in events, HandleAi2Retry(w, ev) PROVE HandMoves(v)
      BY <2>4 DEF HandleAi2Retry, MayReopen, Receives, Hold, HandMoves, TypeOK
    <2>5. ASSUME NEW ev \in events, HandleManifestConfirmed(w, ev) PROVE HandMoves(v)
      BY <2>5 DEF HandleManifestConfirmed, Receives, Hold, HandMoves, TypeOK
    <2>6. ASSUME PublishCommands(w) PROVE HandMoves(v)
      BY <2>6 DEF PublishCommands, HandMoves, TypeOK, Hands
    <2>7. ASSUME CompleteCarriedRun(w) PROVE HandMoves(v)
      BY <2>7 DEF CompleteCarriedRun, HandMoves, TypeOK, Hands
    <2>8. ASSUME AckEvent(w) PROVE HandMoves(v)
      BY <2>8 DEF AckEvent, IdleHand, HandMoves, TypeOK, Hands
    <2> QED
      BY <1>1, <2>1, <2>2, <2>3, <2>4, <2>5, <2>6, <2>7, <2>8 DEF ConsumeEvent
  <1>2. ASSUME NEW w \in Workers, ConsumeResult(w) \/ Ai1Overdue(w) PROVE hand' = hand
    BY <1>2 DEF ConsumeResult, DropAi1Result, FailAi1Run, DuplicateAi1Result,
       RecordAi1Result, AckResult, Ai1Overdue
  <1>3. ASSUME NEW w \in Workers, Start(w) PROVE HandMoves(v)
    BY <1>3 DEF Start, WorkerUp, IdleHand, HandMoves, TypeOK, Hands
  <1>4. ASSUME NEW w \in Workers, NEW r \in Runs, RunTask(w, r) \/ TaskForgets(w, r)
        PROVE  hand' = hand
    BY <1>4 DEF RunTask, TaskStart, TaskNotReady, TaskFreeze, TaskSucceeds, TaskRefused,
       TaskBlocked, TaskFails, TaskDone, TaskForgets
  <1>5. ASSUME \/ \E r \in Runs : DispatchRun(r)
               \/ \E r \in Runs, d \in Docs : Ai1Answers(r, d)
               \/ Request
        PROVE  hand' = hand
    BY <1>5 DEF DispatchRun, Ai1Answers, Ai1Sends, Request, Trigger, Reprocess, Cancel, Restart,
       RetryFailed, Ai2Retry, ConfirmManifest, CloseLastReviewItem, Approve
  <1>6. ASSUME NEW w \in Workers, HandlerFails(w) PROVE HandMoves(v)
    BY <1>6 DEF HandlerFails, HandMoves, TypeOK, Hands
  <1>7. ASSUME NEW w \in Workers, DeadLetter(w) PROVE HandMoves(v)
    BY <1>7 DEF DeadLetter, IdleHand, HandMoves, TypeOK, Hands
  <1>8. ASSUME NEW w \in Workers, Crash(w) PROVE HandMoves(v)
    <2>1. hand' = [hand EXCEPT ![w] = [IdleHand EXCEPT !.pc = "down"]]
      BY <1>8 DEF Crash
    <2>2. [IdleHand EXCEPT !.pc = "down"].run = NoRun /\ [IdleHand EXCEPT !.pc = "down"].pc = "down"
      BY DEF IdleHand
    <2> QED
      BY <1>8, <2>1, <2>2 DEF HandMoves, TypeOK
  <1>9. ASSUME \/ \E w \in Workers, r \in Runs : TaskDies(w, r)
               \/ \E r \in Runs : DispatchFails(r) \/ ApiDies(r)
               \/ \E r \in Runs, d \in Docs : Ai1Garbles(r, d)
        PROVE  hand' = hand
    BY <1>9 DEF TaskDies, DispatchFails, ApiDies, Ai1Garbles, Ai1Sends
  <1>10. hand' = hand => HandMoves(v)
    BY DEF HandMoves
  <1> QED
    BY <1>1, <1>2, <1>3, <1>4, <1>5, <1>6, <1>7, <1>8, <1>9, <1>10 DEF Other, Fault

(* Only a queued run or the first event takes the job out of its first state, *)
(* and every transaction that will write the job has seen its run.           *)
Grounded ==
  /\ \A w \in Workers : hand[w].pc = "dispatch" => hand[w].run # NoRun
  /\ job.status # "uploaded" => job.run # NoRun
  /\ \A p \in pending : p.kind \in {"timeout", "carried", "reopen"} => job.run # NoRun
  /\ \A p \in pending : p.kind # "trigger" => p.run # NoRun

LEMMA GroundedStep == TypeOK /\ Grounded /\ [Next]_vars => Grounded'
  <1> SUFFICES ASSUME TypeOK, Grounded, [Next]_vars PROVE Grounded'
    OBVIOUS
  <1>1. CASE UNCHANGED vars
    BY <1>1 DEF vars, Grounded
  <1>2. ASSUME NEW p \in pending, Commit(p) PROVE Grounded'
    <2>1. pending' = pending \ {p}
      BY <1>2 DEF Commit
    <2>2. \A w \in Workers : hand'[w] = hand[w] \/ hand'[w].pc # "dispatch"
      BY <1>2 DEF Commit, CommitTimeout, CommitReopen, CommitCarried, CommitCancel, CommitTrigger,
         TypeOK, Hands
    <2>3. ASSUME CommitTrigger(p) PROVE job'.run # NoRun
      BY <2>3, RunsAssumption DEF CommitTrigger, CreateRun
    <2>4. ASSUME CommitTimeout(p) \/ CommitReopen(p) \/ CommitCarried(p)
          PROVE  job'.run = job.run /\ job.run # NoRun
      BY <2>4 DEF CommitTimeout, CommitReopen, CommitCarried, FailJob, Move, Grounded, TypeOK, Jobs
    <2>5. ASSUME CommitCancel(p) PROVE job' = job \/ (job'.run = job.run /\ job.run # NoRun)
      <3>1. p.kind = "cancel" /\ (job' # job => job.run = p.run /\ job'.run = job.run)
        BY <2>5 DEF CommitCancel, FailJob, Move, TypeOK, Jobs
      <3> QED
        BY <3>1 DEF Grounded
    <2> QED
      BY <1>2, <2>1, <2>2, <2>3, <2>4, <2>5 DEF Commit, Grounded, CommitTimeout, CommitReopen,
         CommitCarried
  <1>3. ASSUME Other PROVE Grounded'
    <2>1. job' = job \/ job'.run # NoRun
      <3>1. ASSUME NEW w \in Workers, NEW ev \in events, ResumeRun(w, ev) PROVE job'.run # NoRun
        BY <3>1 DEF ResumeRun, Resumes, Active, Move, TypeOK, Jobs
      <3>2. ASSUME NEW w \in Workers, NEW ev \in events, NEW r \in Runs, OpenRun(w, ev, r)
            PROVE  job'.run # NoRun
        BY <3>2, RunsAssumption DEF OpenRun, Move
      <3>3. ASSUME NEW w \in Workers, NEW m \in results, FailAi1Run(w, m) PROVE job'.run # NoRun
        BY <3>3, RunsAssumption DEF FailAi1Run, FailsRun, FailJob, Move, TypeOK, Jobs, Results
      <3>4. ASSUME NEW w \in Workers, NEW m \in results, RecordAi1Result(w, m)
            PROVE  job'.run # NoRun
        BY <3>4, RunsAssumption
        DEF RecordAi1Result, KeepsResult, AfterResult, Move, TypeOK, Jobs, Results
      <3>5. ASSUME NEW w \in Workers, NEW r \in Runs, TaskStart(w, r) \/ TaskFreeze(w, r)
            PROVE  job' = job
        BY <3>5 DEF TaskStart, TaskFreeze
      <3>6. ASSUME NEW w \in Workers, NEW r \in Runs, TaskSucceeds(w, r) PROVE job'.run # NoRun
        BY <3>6, RunsAssumption DEF TaskSucceeds, TakesAi2Result, Move, TypeOK, Jobs
      <3>7. ASSUME NEW w \in Workers, NEW r \in Runs, TaskBlocked(w, r) \/ TaskFails(w, r)
            PROVE  job' = job \/ job'.run # NoRun
        BY <3>7, RunsAssumption
        DEF TaskBlocked, TaskFails, EndByFailure, FailJob, Move, TypeOK, Jobs
      <3>8. ASSUME NEW r \in Runs, DispatchFails(r) PROVE job' = job
        BY <3>8 DEF DispatchFails
      <3>9. ASSUME NEW r \in Runs, Reprocess(r) PROVE job'.run # NoRun
        BY <3>9, RunsAssumption DEF Reprocess, CreateRun
      <3>10. ASSUME CloseLastReviewItem \/ Approve PROVE job' = job \/ job'.run # NoRun
        BY <3>10 DEF CloseLastReviewItem, Approve, Advance, Grounded, TypeOK, Jobs
      <3> QED
        BY <1>3, <3>1, <3>2, <3>3, <3>4, <3>5, <3>6, <3>7, <3>8, <3>9, <3>10, BystanderOrActing
        DEF Bystander, Acting
    <2>2. \A w \in Workers : hand'[w].pc = "dispatch" => hand'[w].run # NoRun
      BY <1>3, HandStep DEF HandMoves, Grounded
    <2>3. \A p \in pending' :
            /\ p.kind \in {"timeout", "carried", "reopen"} => job'.run # NoRun
            /\ p.kind # "trigger" => p.run # NoRun
      <3>1. CASE pending' \subseteq pending
        BY <2>1, <3>1 DEF Grounded
      <3>2. ASSUME NEW p, Starts(p)
            PROVE  /\ p.kind \in {"timeout", "carried", "reopen"} => job.run # NoRun
                   /\ p.kind # "trigger" => p.run # NoRun
        BY <3>2, RunsAssumption
        DEF Starts, Decided, MayReopen, Handling, Grounded, Pendings, PendingKinds
      <3>3. ASSUME NEW w \in Workers, Crash(w) PROVE pending' \subseteq pending
        BY <3>3 DEF Crash
      <3>4. ASSUME NEW p, Starts(p) PROVE pending' = pending \cup {p} /\ job' = job
        BY <3>4 DEF Starts
      <3> QED
        BY <1>3, <3>1, <3>2, <3>3, <3>4, PendingStep DEF Grounded
    <2>4. job'.status # "uploaded" => job'.run # NoRun
      BY <2>1 DEF Grounded
    <2> QED
      BY <2>2, <2>3, <2>4 DEF Grounded
  <1> QED
    BY <1>1, <1>2, <1>3 DEF Next
-----------------------------------------------------------------------------
(* Transactions that may not be overtaken come one at a time.                *)
Alone == \A p, q \in pending : p.kind \notin Racing /\ q.kind \notin Racing => p = q

LEMMA CrashDrops == \A w : Crash(w) => pending' \subseteq pending
  BY DEF Crash

LEMMA AloneStep == TypeOK /\ Alone /\ [Next]_vars => Alone'
  <1> SUFFICES ASSUME TypeOK, Alone, [Next]_vars PROVE Alone'
    OBVIOUS
  <1>1. CASE pending' \subseteq pending
    BY <1>1 DEF Alone
  <1>2. ASSUME Undisturbed, NEW p, Starts(p) PROVE Alone'
    BY <1>2 DEF Starts, Undisturbed, Alone
  <1> QED
    BY <1>1, <1>2, PendingStep, CrashDrops DEF Next, Commit, vars

(* What a handler found complete is still complete, and still the job's run. *)
HeldIsWhole ==
  \A p \in pending : Handling(p) =>
    job.run = p.run /\ p.run \in Runs /\ runs[p.run].extracted = Docs

OcrIntegrity == RunIntegrity /\ Grounded /\ Alone /\ HeldIsWhole /\ ExtractedMeansComplete

LEMMA FailJobDoes ==
  ASSUME TypeOK, NEW e, FailJob(e)
  PROVE  job'.run = job.run /\ job'.status = "failed" /\ job'.error = e
  BY DEF FailJob, Move, TypeOK, Jobs

LEMMA HeldStep ==
  ASSUME OcrIntegrity, TypeOK', Racing \subseteq {"timeout", "cancel"}, [Next]_vars
  PROVE  HeldIsWhole'
  <1> USE DEF OcrIntegrity, RunIntegrity
  <1>1. CASE UNCHANGED vars
    BY <1>1 DEF vars, HeldIsWhole
  <1>2. ASSUME NEW p \in pending, Commit(p) PROVE HeldIsWhole'
    <2>1. pending' = pending \ {p}
      BY <1>2 DEF Commit
    <2>2. CASE CommitTimeout(p) \/ CommitCancel(p)
      <3>1. job'.run = job.run
        BY <2>2, FailJobDoes DEF CommitTimeout, CommitCancel
      <3>2. \A r \in Runs : runs'[r].extracted = runs[r].extracted
        BY <2>2 DEF CommitTimeout, CommitCancel, TypeOK, RunRows
      <3> QED
        BY <2>1, <3>1, <3>2 DEF HeldIsWhole
    <2>3. CASE p.kind \notin Racing
      BY <2>1, <2>3 DEF Alone, HeldIsWhole, Handling
    <2> QED
      BY <1>2, <2>2, <2>3 DEF Commit, CommitReopen, CommitCarried, CommitTrigger
  <1>3. ASSUME Undisturbed, Other PROVE HeldIsWhole'
    <2>1. CASE pending' \subseteq pending
      BY <1>3, <2>1 DEF Undisturbed, HeldIsWhole, Handling
    <2>2. ASSUME NEW p, Starts(p) PROVE HeldIsWhole'
      <3>1. ASSUME Handling(p)
            PROVE  job.run = p.run /\ p.run \in Runs /\ runs[p.run].extracted = Docs
        <4>1. job.run = p.run /\ Docs \subseteq runs[p.run].extracted
          BY <2>2, <3>1 DEF Starts, Decided, Handling, MayReopen, Missing
        <4>2. job.run # NoRun
          BY <2>2, <3>1 DEF Starts, Decided, Handling, MayReopen, Grounded
        <4>3. p.run \in Runs
          BY <4>1, <4>2 DEF TypeOK, Jobs
        <4> QED
          BY <4>1, <4>3 DEF TypeOK, RunRows
      <3>2. job' = job /\ runs' = runs /\ pending' = pending \cup {p}
        BY <2>2 DEF Starts
      <3> QED
        BY <1>3, <3>1, <3>2 DEF Undisturbed, HeldIsWhole, Handling
    <2> QED
      BY <1>3, <2>1, <2>2, PendingStep, CrashDrops
  <1> QED
    BY <1>1, <1>2, <1>3 DEF Next

LEMMA ExtractedStep ==
  ASSUME OcrIntegrity, TypeOK', Racing \subseteq {"timeout", "cancel"}, [Next]_vars
  PROVE  ExtractedMeansComplete'
  <1> USE DEF OcrIntegrity, RunIntegrity
  <1>1. ASSUME UNCHANGED <<job, runs>> PROVE ExtractedMeansComplete'
    BY <1>1 DEF ExtractedMeansComplete
  <1>2. ASSUME job'.status # "extracted" PROVE ExtractedMeansComplete'
    BY <1>2 DEF ExtractedMeansComplete
  <1>3. ASSUME job' = job, \A r \in Runs : runs'[r].extracted = runs[r].extracted
        PROVE  ExtractedMeansComplete'
    BY <1>3 DEF ExtractedMeansComplete, TypeOK, Jobs
  <1>4. ASSUME NEW p \in pending, Commit(p) PROVE ExtractedMeansComplete'
    <2>1. CASE CommitReopen(p) \/ CommitCarried(p)
      <3>1. job'.run = job.run /\ job.run = p.run /\ p.run \in Runs /\ runs[p.run].extracted = Docs
        BY <2>1 DEF CommitReopen, CommitCarried, Move, HeldIsWhole, Handling, TypeOK, Jobs
      <3>2. runs'[p.run].extracted = runs[p.run].extracted
        BY <2>1, <3>1 DEF CommitReopen, CommitCarried, TypeOK, RunRows
      <3> QED
        BY <3>1, <3>2, RunsAssumption DEF ExtractedMeansComplete
    <2>2. CASE CommitTimeout(p)
      BY <1>2, <2>2, FailJobDoes DEF CommitTimeout
    <2>3. CASE CommitCancel(p)
      <3>1. \A r \in Runs : runs'[r].extracted = runs[r].extracted
        BY <2>3 DEF CommitCancel, TypeOK, RunRows
      <3> QED
        BY <1>2, <1>3, <2>3, <3>1, FailJobDoes DEF CommitCancel
    <2>4. CASE CommitTrigger(p)
      BY <1>2, <2>4, CreateRunIsNew DEF CommitTrigger
    <2> QED
      BY <1>4, <2>1, <2>2, <2>3, <2>4 DEF Commit
  <1>5. ASSUME NEW w \in Workers, NEW ev \in events, ResumeRun(w, ev) PROVE ExtractedMeansComplete'
    BY <1>2, <1>5 DEF ResumeRun, Move, TypeOK, Jobs
  <1>6. ASSUME NEW w \in Workers, NEW ev \in events, NEW r \in Runs, OpenRun(w, ev, r)
        PROVE  ExtractedMeansComplete'
    BY <1>2, <1>6, OpenRunIsNew
  <1>7. ASSUME NEW w \in Workers, NEW m \in results, FailAi1Run(w, m) PROVE ExtractedMeansComplete'
    BY <1>2, <1>7, FailJobDoes DEF FailAi1Run
  <1>8. ASSUME NEW w \in Workers, NEW m \in results, RecordAi1Result(w, m)
        PROVE  ExtractedMeansComplete'
    <2>1. job.run = m.run /\ m.run \in Runs /\ m.doc \in Docs /\ job'.run = job.run
      BY <1>8 DEF RecordAi1Result, KeepsResult, AfterResult, Move, TypeOK, Results, Jobs
    <2>2. runs'[m.run].extracted = runs[m.run].extracted \cup {m.doc}
      BY <1>8, <2>1 DEF RecordAi1Result, TypeOK, RunRows
    <2>3. job'.status = "extracted" => job.status = "extracted" \/ Complete(m)
      BY <1>8 DEF RecordAi1Result, AfterResult, Move, TypeOK, Jobs
    <2>4. runs[m.run].extracted \subseteq Docs
      BY <2>1 DEF TypeOK, RunRows
    <2> QED
      BY <2>1, <2>2, <2>3, <2>4, RunsAssumption DEF ExtractedMeansComplete, Complete, Missing
  <1>9. ASSUME NEW w \in Workers, NEW r \in Runs, TaskStart(w, r) \/ TaskFreeze(w, r)
        PROVE  ExtractedMeansComplete'
    <2>1. job' = job /\ \A q \in Runs : runs'[q].extracted = runs[q].extracted
      BY <1>9 DEF TaskStart, TaskFreeze, TypeOK, RunRows
    <2> QED
      BY <1>3, <2>1
  <1>10. ASSUME NEW w \in Workers, NEW r \in Runs, TaskSucceeds(w, r) PROVE ExtractedMeansComplete'
    BY <1>2, <1>10 DEF TaskSucceeds, Move, TypeOK, Jobs
  <1>11. ASSUME NEW w \in Workers, NEW r \in Runs, TaskBlocked(w, r) \/ TaskFails(w, r)
         PROVE  ExtractedMeansComplete'
    <2>1. UNCHANGED <<job, runs>> \/ \E e : FailJob(e)
      BY <1>11 DEF TaskBlocked, TaskFails, EndByFailure
    <2> QED
      BY <1>1, <1>2, <2>1, FailJobDoes
  <1>12. ASSUME NEW r \in Runs, DispatchFails(r) PROVE ExtractedMeansComplete'
    <2>1. job' = job /\ \A q \in Runs : runs'[q].extracted = runs[q].extracted
      BY <1>12 DEF DispatchFails, TypeOK, RunRows
    <2> QED
      BY <1>3, <2>1
  <1>13. ASSUME NEW r \in Runs, Reprocess(r) PROVE ExtractedMeansComplete'
    BY <1>2, <1>13 DEF Reprocess, CreateRun
  <1>14. ASSUME CloseLastReviewItem \/ Approve PROVE ExtractedMeansComplete'
    <2>1. runs' = runs /\ (job' = job \/ job'.status \in {"reviewed", "approved"})
      BY <1>14 DEF CloseLastReviewItem, Approve, Advance, TypeOK, Jobs
    <2> QED
      BY <1>1, <1>2, <2>1
  <1> QED
    BY <1>1, <1>4, <1>5, <1>6, <1>7, <1>8, <1>9, <1>10, <1>11, <1>12, <1>13, <1>14,
       BystanderOrActing
    DEF Bystander, Acting, Next, vars

(* EXTRACTED means that every document of the current run has an OCR result, *)
(* with any number of workers, every request and fault, a timeout and a      *)
(* cancel overtaken by the others.  A handler that decides without a lock to *)
(* mark the job EXTRACTED, and a POST /runs that decides without one to move *)
(* the job, may not be: the job would be EXTRACTED on a run without OCR.     *)
THEOREM ExtractedIsComplete ==
  ASSUME Racing \subseteq {"timeout", "cancel"}
  PROVE  Spec => []ExtractedMeansComplete
  <1>1. Init => OcrIntegrity
    <2> SUFFICES ASSUME Init PROVE OcrIntegrity
      OBVIOUS
    <2>1. RunIntegrity
      BY IntegrityInit
    <2>2. Grounded
      BY DEF Init, Grounded, IdleHand
    <2>3. Alone /\ HeldIsWhole /\ ExtractedMeansComplete
      BY DEF Init, Alone, HeldIsWhole, ExtractedMeansComplete
    <2> QED
      BY <2>1, <2>2, <2>3 DEF OcrIntegrity
  <1>2. OcrIntegrity /\ [Next]_vars => OcrIntegrity'
    <2> SUFFICES ASSUME OcrIntegrity, [Next]_vars PROVE OcrIntegrity'
      OBVIOUS
    <2>1. RunIntegrity' /\ TypeOK'
      BY IntegrityStep DEF OcrIntegrity, RunIntegrity
    <2>2. Grounded' /\ Alone'
      BY GroundedStep, AloneStep DEF OcrIntegrity, RunIntegrity
    <2> QED
      BY <2>1, <2>2, HeldStep, ExtractedStep DEF OcrIntegrity
  <1>3. OcrIntegrity => ExtractedMeansComplete
    BY DEF OcrIntegrity
  <1> QED
    BY <1>1, <1>2, <1>3, PTL DEF Spec
-----------------------------------------------------------------------------
(* A handler's open transaction keeps its worker from taking another event.  *)
HandHeld ==
  /\ \A p \in pending : Handling(p) => p.by \in Workers /\ hand[p.by].pc = "write"
  /\ \A p, q \in pending : Handling(p) /\ Handling(q) /\ p.by = q.by => p = q

LEMMA HandHeldStep == TypeOK /\ HandHeld /\ [Next]_vars => HandHeld'
  <1> SUFFICES ASSUME TypeOK, HandHeld, [Next]_vars PROVE HandHeld'
    OBVIOUS
  <1>1. CASE UNCHANGED vars
    BY <1>1 DEF vars, HandHeld
  <1>2. ASSUME NEW p \in pending, Commit(p) PROVE HandHeld'
    <2>1. pending' = pending \ {p}
      BY <1>2 DEF Commit
    <2>2. \A v \in Workers : hand'[v] = hand[v] \/ (Handling(p) /\ v = p.by)
      BY <1>2 DEF Commit, CommitTimeout, CommitReopen, CommitCarried, CommitCancel, CommitTrigger,
         Handling, TypeOK
    <2> QED
      BY <2>1, <2>2 DEF HandHeld
  <1>3. ASSUME Other PROVE HandHeld'
    <2>1. ASSUME NEW w \in Workers, Crash(w) PROVE HandHeld'
      <3>1. pending' = {p \in pending : p.by # w} /\ \A v \in Workers \ {w} : hand'[v] = hand[v]
        BY <2>1 DEF Crash, TypeOK
      <3> QED
        BY <3>1 DEF HandHeld
    <2>2. ASSUME ~(\E w \in Workers : Crash(w)) PROVE HandHeld'
      <3>1. \A v \in Workers : hand[v].pc = "write" => hand'[v] = hand[v]
        BY <1>3, <2>2, HandStep DEF HandMoves
      <3>2. CASE UNCHANGED pending
        BY <3>1, <3>2 DEF HandHeld
      <3>3. ASSUME NEW p, Starts(p) PROVE HandHeld'
        <4>1. /\ pending' = pending \cup {p}
              /\ Handling(p) =>
                   p.by \in Workers /\ hand[p.by].pc # "write" /\ hand'[p.by].pc = "write"
          BY <3>3 DEF Starts
        <4> QED
          BY <3>1, <4>1 DEF HandHeld
      <3> QED
        BY <1>3, <2>2, <3>2, <3>3, PendingStep
    <2> QED
      BY <2>1, <2>2
  <1> QED
    BY <1>1, <1>2, <1>3 DEF Next

OneWorker == \A v, w \in Workers : v = w

(* A job about to be reopened for its AI2 retry is not in the pipeline.      *)
ReopenHeld ==
  \A p \in pending : p.kind = "reopen" =>
    /\ p.run \in Runs /\ runs[p.run].status # "absent"
    /\ job.run = p.run => job.status \notin {"uploaded", "processing", "extracted"}

(* A hand-off that will persist an AI2 result works on the run's latest      *)
(* attempt: nobody retries the run while it does.                            *)
EngagedIsLatest ==
  \A w \in Workers, r \in Runs : Engaged(task[w][r]) =>
    /\ task[w][r].attempt = runs[r].attempt
    /\ ~(job.run = r /\ job.status = "failed" /\ job.error = "ai2_retryable")
    /\ \A p \in pending : ~(p.kind = "reopen" /\ p.run = r)

AttemptIntegrity == RunIntegrity /\ Grounded /\ HandHeld /\ ReopenHeld /\ EngagedIsLatest

(* The rows that exist stay; only the API and the worker's new runs appear.  *)
LEMMA RowsStay ==
  ASSUME RunIntegrity, [Next]_vars, NEW r \in Runs, runs[r].status # "absent"
  PROVE  runs'[r].status # "absent"
  <1> USE DEF RunIntegrity
  <1>1. CASE Quiet
    BY <1>1 DEF Quiet, RowsKept
  <1>2. ASSUME NEW w \in Workers, NEW ev \in events, ResumeRun(w, ev) PROVE runs'[r].status # "absent"
    BY <1>2 DEF ResumeRun, TypeOK, RunRows
  <1>3. ASSUME NEW w \in Workers, NEW ev \in events, NEW q \in Runs, OpenRun(w, ev, q)
        PROVE  runs'[r].status # "absent"
    BY <1>3, OpenRunIsNew
  <1>4. ASSUME NEW w \in Workers, NEW m \in results, RecordAi1Result(w, m)
        PROVE  runs'[r].status # "absent"
    BY <1>4 DEF RecordAi1Result, TypeOK, RunRows
  <1>5. ASSUME NEW w \in Workers, NEW q \in Runs, TaskStart(w, q) \/ TaskSucceeds(w, q)
        PROVE  runs'[r].status # "absent"
    <2>1. CASE TaskStart(w, q)
      BY <2>1 DEF TaskStart, TypeOK, RunRows
    <2>2. CASE TaskSucceeds(w, q)
      BY <2>2 DEF TaskSucceeds, TypeOK, RunRows
    <2> QED
      BY <1>5, <2>1, <2>2
  <1>6. ASSUME NEW q \in Runs, NEW b, CreateRun(q, b) PROVE runs'[r].status # "absent"
    BY <1>6, CreateRunIsNew
  <1> QED
    BY <1>1, <1>2, <1>3, <1>4, <1>5, <1>6, QuietOrTelling DEF Telling

(* What a step does to the job, whoever takes it.                            *)
JobMoves ==
  \/ job' = job
  \/ \E r \in Runs : runs[r].status = "absent" /\ job'.run = r /\ job'.error = "none"
                  /\ job'.status \in {"uploaded", "processing"}
  \/ job'.run = job.run /\ job'.status # "uploaded"

LEMMA JobStep == TypeOK /\ [Next]_vars => JobMoves
  <1> SUFFICES ASSUME TypeOK, [Next]_vars PROVE JobMoves
    OBVIOUS
  <1>1. ASSUME NEW e, FailJob(e) PROVE JobMoves
    BY <1>1, FailJobDoes DEF JobMoves
  <1>2. ASSUME NEW r \in Runs, NEW b, CreateRun(r, b) PROVE JobMoves
    BY <1>2 DEF CreateRun, Absent, JobMoves
  <1>3. ASSUME NEW p \in pending, Commit(p) PROVE JobMoves
    <2>1. ASSUME CommitReopen(p) \/ CommitCarried(p) PROVE JobMoves
      BY <2>1 DEF CommitReopen, CommitCarried, Move, TypeOK, Jobs, JobMoves
    <2>2. ASSUME CommitTimeout(p) \/ CommitCancel(p) PROVE JobMoves
      BY <1>1, <2>2 DEF CommitTimeout, CommitCancel, JobMoves
    <2> QED
      BY <1>2, <1>3, <2>1, <2>2 DEF Commit, CommitTrigger
  <1>4. ASSUME NEW w \in Workers, NEW ev \in events, ResumeRun(w, ev) PROVE JobMoves
    BY <1>4 DEF ResumeRun, Move, TypeOK, Jobs, JobMoves
  <1>5. ASSUME NEW w \in Workers, NEW ev \in events, NEW r \in Runs, OpenRun(w, ev, r) PROVE JobMoves
    BY <1>5 DEF OpenRun, Absent, Move, JobMoves
  <1>6. ASSUME NEW w \in Workers, NEW m \in results, FailAi1Run(w, m) PROVE JobMoves
    BY <1>1, <1>6 DEF FailAi1Run
  <1>7. ASSUME NEW w \in Workers, NEW m \in results, RecordAi1Result(w, m) PROVE JobMoves
    BY <1>7 DEF RecordAi1Result, AfterResult, Move, TypeOK, Jobs, JobMoves
  <1>8. ASSUME NEW w \in Workers, NEW r \in Runs, TaskStart(w, r) \/ TaskFreeze(w, r) PROVE JobMoves
    BY <1>8 DEF TaskStart, TaskFreeze, JobMoves
  <1>9. ASSUME NEW w \in Workers, NEW r \in Runs, TaskSucceeds(w, r) PROVE JobMoves
    BY <1>9 DEF TaskSucceeds, Move, TypeOK, Jobs, JobMoves
  <1>10. ASSUME NEW w \in Workers, NEW r \in Runs, TaskBlocked(w, r) \/ TaskFails(w, r) PROVE JobMoves
    BY <1>1, <1>10 DEF TaskBlocked, TaskFails, EndByFailure, JobMoves
  <1>11. ASSUME NEW r \in Runs, DispatchFails(r) PROVE JobMoves
    BY <1>11 DEF DispatchFails, JobMoves
  <1>12. ASSUME NEW r \in Runs, Reprocess(r) PROVE JobMoves
    BY <1>2, <1>12 DEF Reprocess
  <1>13. ASSUME CloseLastReviewItem \/ Approve PROVE JobMoves
    <2>1. ASSUME NEW to \in {"reviewed", "approved"}, NEW a, Advance(to, a) PROVE JobMoves
      BY <2>1 DEF Advance, TypeOK, Jobs, JobMoves
    <2> QED
      BY <1>13, <2>1 DEF CloseLastReviewItem, Approve
  <1>14. ASSUME UNCHANGED job PROVE JobMoves
    BY <1>14 DEF JobMoves
  <1> QED
    BY <1>3, <1>4, <1>5, <1>6, <1>7, <1>8, <1>9, <1>10, <1>11, <1>12, <1>13, <1>14,
       BystanderOrActing
    DEF Bystander, Acting, Next, vars

(* Only a handler's transaction takes a run's job back into the pipeline.    *)
InPipeline == {"uploaded", "processing", "extracted"}

LEMMA BackInPipeline ==
  ASSUME RunIntegrity, [Next]_vars, job'.run = job.run,
         job.status \notin InPipeline, job'.status \in InPipeline
  PROVE  \E q \in pending : Handling(q) /\ pending' = pending \ {q}
  <1> USE DEF RunIntegrity
  <1>1. ASSUME job' = job \/ job'.status = "failed" PROVE FALSE
    BY <1>1 DEF InPipeline
  <1>2. ASSUME NEW r \in Runs, job'.run = r, runs[r].status = "absent" PROVE FALSE
    BY <1>2, RunsAssumption DEF CurrentRunExists
  <1>3. ASSUME NEW p \in pending, Commit(p) PROVE Handling(p) /\ pending' = pending \ {p}
    BY <1>1, <1>2, <1>3, FailJobDoes, CreateRunIsNew
    DEF Commit, CommitTimeout, CommitReopen, CommitCarried, CommitCancel, CommitTrigger, Handling
  <1>4. ASSUME NEW w \in Workers, NEW ev \in events, ResumeRun(w, ev) PROVE FALSE
    BY <1>4 DEF ResumeRun, Resumes, Refused, InPipeline
  <1>5. ASSUME NEW w \in Workers, NEW ev \in events, NEW r \in Runs, OpenRun(w, ev, r) PROVE FALSE
    BY <1>2, <1>5, OpenRunIsNew
  <1>6. ASSUME NEW w \in Workers, NEW m \in results, FailAi1Run(w, m) PROVE FALSE
    BY <1>1, <1>6, FailJobDoes DEF FailAi1Run
  <1>7. ASSUME NEW w \in Workers, NEW m \in results, RecordAi1Result(w, m) PROVE FALSE
    <2>1. job' # job
      BY <1>1
    <2>2. job.status \in DOMAIN Rank
      BY <1>7, <2>1 DEF RecordAi1Result, Move, AfterResult, TransitionAllowed
    <2>3. job.status = "pending_review"
      BY <2>2 DEF Rank, InPipeline
    <2> QED
      BY <1>7, <2>3 DEF RecordAi1Result, KeepsResult, Late, TransitionAllowed, Rank
  <1>8. ASSUME NEW w \in Workers, NEW r \in Runs, TaskSucceeds(w, r) PROVE FALSE
    BY <1>8 DEF TaskSucceeds, Move, TypeOK, Jobs, InPipeline
  <1>9. ASSUME NEW w \in Workers, NEW r \in Runs, TaskBlocked(w, r) \/ TaskFails(w, r) PROVE FALSE
    BY <1>1, <1>9, FailJobDoes DEF TaskBlocked, TaskFails, EndByFailure
  <1>10. ASSUME NEW r \in Runs, Reprocess(r) PROVE FALSE
    BY <1>2, <1>10, CreateRunIsNew DEF Reprocess
  <1>11. ASSUME CloseLastReviewItem \/ Approve PROVE FALSE
    <2>1. job' = job \/ job'.status \in {"reviewed", "approved"}
      BY <1>11 DEF CloseLastReviewItem, Approve, Advance, TypeOK, Jobs
    <2> QED
      BY <1>1, <2>1 DEF InPipeline
  <1>12. job' # job
    BY <1>1
  <1> QED
    BY <1>3, <1>4, <1>5, <1>6, <1>7, <1>8, <1>9, <1>10, <1>11, <1>12, BystanderOrActing
    DEF Bystander, Acting, Next, vars, TaskStart, TaskFreeze, DispatchFails

LEMMA ReopenStep ==
  ASSUME OneWorker, AttemptIntegrity, [Next]_vars
  PROVE  ReopenHeld'
  <1> USE DEF AttemptIntegrity
  <1>1. ASSUME NEW p \in pending, p \in pending', p.kind = "reopen", job'.run = p.run
        PROVE  job'.status \notin InPipeline
    <2> SUFFICES ASSUME job'.status \in InPipeline PROVE FALSE
      OBVIOUS
    <2>1. job.run = p.run => job.status \notin InPipeline
      BY <1>1 DEF ReopenHeld, InPipeline
    <2>2. job'.run = job.run
      BY <1>1, <2>1, JobStep DEF JobMoves, ReopenHeld, RunIntegrity
    <2>3. PICK q \in pending : Handling(q) /\ pending' = pending \ {q}
      BY <1>1, <2>1, <2>2, BackInPipeline
    <2>4. q = p
      BY <1>1, <2>3 DEF HandHeld, OneWorker, Handling
    <2> QED
      BY <1>1, <2>3, <2>4
  <1>2. ASSUME NEW p \in pending, p.kind = "reopen"
        PROVE  p.run \in Runs /\ runs'[p.run].status # "absent"
    BY <1>2, RowsStay DEF ReopenHeld
  <1>3. ASSUME NEW p, Starts(p), p.kind = "reopen"
        PROVE  /\ p.run \in Runs /\ runs'[p.run].status # "absent"
               /\ job'.status \notin InPipeline
    BY <1>3 DEF Starts, Decided, MayReopen, Grounded, RunIntegrity, CurrentRunExists, TypeOK, Jobs,
       InPipeline
  <1>4. CASE pending' \subseteq pending
    BY <1>1, <1>2, <1>4 DEF ReopenHeld, InPipeline
  <1>5. ASSUME NEW p, Starts(p) PROVE ReopenHeld'
    <2>1. pending' = pending \cup {p}
      BY <1>5 DEF Starts
    <2> QED
      BY <1>1, <1>2, <1>3, <1>5, <2>1 DEF ReopenHeld, InPipeline
  <1> QED
    BY <1>4, <1>5, PendingStep, CrashDrops DEF Next, Commit, vars, RunIntegrity

LEMMA LatestFrame ==
  ASSUME EngagedIsLatest, TasksKept, pending' \subseteq pending,
         \A w \in Workers, r \in Runs : Engaged(task[w][r]) => runs'[r].attempt = runs[r].attempt,
         job' = job \/ ~(job'.status = "failed" /\ job'.error = "ai2_retryable")
  PROVE  EngagedIsLatest'
  BY DEF EngagedIsLatest, TasksKept

LEMMA AttemptsKept ==
  ASSUME TypeOK, NEW q, NEW s, runs' = [runs EXCEPT ![q].status = s]
  PROVE  \A r \in Runs : runs'[r].attempt = runs[r].attempt
  BY DEF TypeOK, RunRows

LEMMA LatestByCommit ==
  ASSUME AttemptIntegrity, NEW p \in pending, Commit(p)
  PROVE  EngagedIsLatest'
  <1> USE DEF AttemptIntegrity, RunIntegrity
  <1>1. pending' \subseteq pending
    BY DEF Commit
  <1>2. CASE CommitTimeout(p)
    <2>1. TasksKept
      BY <1>2 DEF CommitTimeout, TasksKept
    <2>2. job'.error = "ai1"
      BY <1>2, FailJobDoes DEF CommitTimeout
    <2> QED
      BY <1>1, <1>2, <2>1, <2>2, AttemptsKept, LatestFrame DEF CommitTimeout
  <1>3. CASE CommitReopen(p)
    <2>1. TasksKept
      BY <1>3, ScheduleKept DEF CommitReopen, TypeOK
    <2>2. job'.status = "extracted"
      BY <1>3 DEF CommitReopen, Move, TypeOK, Jobs
    <2>3. \A w \in Workers, r \in Runs : Engaged(task[w][r]) => r # p.run
      BY <1>3 DEF CommitReopen, EngagedIsLatest
    <2>4. \A w \in Workers, r \in Runs : Engaged(task[w][r]) => runs'[r].attempt = runs[r].attempt
      BY <1>3, <2>3 DEF CommitReopen, TypeOK
    <2> QED
      BY <1>1, <2>1, <2>2, <2>4, LatestFrame
  <1>4. CASE CommitCarried(p)
    <2>1. TasksKept
      BY <1>4, ScheduleKept DEF CommitCarried, TypeOK
    <2>2. job'.status = "extracted" /\ runs' = runs
      BY <1>4 DEF CommitCarried, Move, TypeOK, Jobs
    <2> QED
      BY <1>1, <2>1, <2>2, LatestFrame
  <1>5. CASE CommitCancel(p)
    <2>1. TasksKept
      BY <1>5 DEF CommitCancel, TasksKept
    <2>2. job' = job \/ job'.error = "cancelled"
      BY <1>5, FailJobDoes DEF CommitCancel
    <2> QED
      BY <1>1, <1>5, <2>1, <2>2, AttemptsKept, LatestFrame DEF CommitCancel
  <1>6. CASE CommitTrigger(p)
    <2>1. TasksKept
      BY <1>6 DEF CommitTrigger, TasksKept
    <2>2. PICK r \in Runs : CreateRun(r, NoRun)
      BY <1>6 DEF CommitTrigger
    <2>3. \A w \in Workers, q \in Runs : Engaged(task[w][q]) => runs'[q].attempt = runs[q].attempt
      BY <2>2, CreateRunIsNew DEF FreshIsBlank
    <2> QED
      BY <1>1, <2>1, <2>2, <2>3, CreateRunIsNew, LatestFrame
  <1> QED
    BY <1>2, <1>3, <1>4, <1>5, <1>6 DEF Commit

LEMMA LatestByActing ==
  ASSUME OneWorker, AttemptIntegrity, Acting, pending' \subseteq pending
  PROVE  EngagedIsLatest'
  <1> USE DEF AttemptIntegrity, RunIntegrity
  <1>1. ASSUME NEW w \in Workers, NEW ev \in events, ResumeRun(w, ev) PROVE EngagedIsLatest'
    <2>1. TasksKept
      BY <1>1 DEF ResumeRun, TasksKept
    <2>2. \A r \in Runs : runs'[r].attempt = runs[r].attempt
      BY <1>1 DEF ResumeRun, TypeOK, RunRows
    <2>3. job'.status = "processing"
      BY <1>1 DEF ResumeRun, Move, TypeOK, Jobs
    <2> QED
      BY <2>1, <2>2, <2>3, LatestFrame
  <1>2. ASSUME NEW w \in Workers, NEW ev \in events, NEW r \in Runs, OpenRun(w, ev, r)
        PROVE  EngagedIsLatest'
    <2>1. TasksKept /\ job'.status = "processing" /\ runs[r].status = "absent"
      BY <1>2, OpenRunIsNew
    <2>2. /\ Superseded(job.run) \in [Runs -> RunRows]
          /\ \A q \in Runs : Superseded(job.run)[q].attempt = runs[q].attempt
      <3>1. Superseded(job.run) \in [Runs -> RunRows]
        BY RunStatusType DEF Superseded, TypeOK, RunStatuses
      <3> QED
        BY <3>1 DEF Superseded, TypeOK, RunRows
    <2>3. \A q \in Runs \ {r} : runs'[q].attempt = runs[q].attempt
      BY <1>2, <2>2, OpenRunIsNew
    <2>4. \A v \in Workers, q \in Runs : Engaged(task[v][q]) => runs'[q].attempt = runs[q].attempt
      BY <2>1, <2>3 DEF FreshIsBlank
    <2> QED
      BY <2>1, <2>4, LatestFrame
  <1>3. ASSUME NEW w \in Workers, NEW m \in results, FailAi1Run(w, m) PROVE EngagedIsLatest'
    <2>1. TasksKept /\ job'.error = "ai1"
      BY <1>3, FailJobDoes DEF FailAi1Run, TasksKept
    <2> QED
      BY <1>3, <2>1, AttemptsKept, LatestFrame DEF FailAi1Run
  <1>4. ASSUME NEW w \in Workers, NEW m \in results, RecordAi1Result(w, m) PROVE EngagedIsLatest'
    <2>1. TasksKept
      BY <1>4, ScheduleKept DEF RecordAi1Result, TypeOK, TasksKept
    <2>2. \A r \in Runs : runs'[r].attempt = runs[r].attempt
      BY <1>4 DEF RecordAi1Result, TypeOK, RunRows
    <2>3. job' = job \/ job'.status \in {"extracted", "processing"}
      BY <1>4 DEF RecordAi1Result, AfterResult, Move, TypeOK, Jobs
    <2> QED
      BY <2>1, <2>2, <2>3, LatestFrame
  <1>5. ASSUME NEW w \in Workers, NEW r \in Runs, TaskStart(w, r) PROVE EngagedIsLatest'
    <2>1. \A q \in Runs : runs'[q].attempt = runs[q].attempt
      BY <1>5, AttemptsKept DEF TaskStart
    <2>2. job' = job /\ job.run = r /\ job.status = "extracted"
      BY <1>5 DEF TaskStart, ReadyForAi2
    <2>3. /\ task'[w][r].attempt = runs[r].attempt
          /\ \A v \in Workers, q \in Runs : <<v, q>> # <<w, r>> => task'[v][q] = task[v][q]
      BY <1>5 DEF TaskStart, TypeOK
    <2>4. \A p \in pending : ~(p.kind = "reopen" /\ p.run = r)
      BY <2>2 DEF ReopenHeld
    <2> QED
      BY <2>1, <2>2, <2>3, <2>4 DEF EngagedIsLatest
  <1>6. ASSUME NEW w \in Workers, NEW r \in Runs, TaskFreeze(w, r) PROVE EngagedIsLatest'
    <2>1. TasksKept
      BY <1>6 DEF TaskFreeze, TasksKept, Engaged, TypeOK, Tasks
    <2> QED
      BY <1>6, <2>1, AttemptsKept, LatestFrame DEF TaskFreeze
  <1>7. ASSUME NEW w \in Workers, NEW r \in Runs, TaskSucceeds(w, r) PROVE EngagedIsLatest'
    <2>1. TasksKept
      BY <1>7, ClosingKept DEF TaskSucceeds, TypeOK
    <2>2. \A q \in Runs : runs'[q].attempt = runs[q].attempt
      BY <1>7 DEF TaskSucceeds, TypeOK, RunRows
    <2>3. job'.status = "pending_review"
      BY <1>7 DEF TaskSucceeds, Move, TypeOK, Jobs
    <2> QED
      BY <2>1, <2>2, <2>3, LatestFrame
  <1>8. ASSUME NEW w \in Workers, NEW r \in Runs, TaskBlocked(w, r) PROVE EngagedIsLatest'
    <2>1. TasksKept
      BY <1>8, ClosingKept DEF TaskBlocked, TypeOK
    <2>2. CASE UNCHANGED <<job, runs>>
      BY <2>1, <2>2, LatestFrame
    <2>3. CASE FailJob("ai2_blocked") /\ runs' = [runs EXCEPT ![r].status = "failed"]
      BY <2>1, <2>3, FailJobDoes, AttemptsKept, LatestFrame
    <2> QED
      BY <1>8, <2>2, <2>3 DEF TaskBlocked, EndByFailure
  (* The one failure a user retries the run of ends the hand-off itself.     *)
  <1>9. ASSUME NEW w \in Workers, NEW r \in Runs, TaskFails(w, r) PROVE EngagedIsLatest'
    <2>1. TasksKept /\ ~Engaged(task'[w][r])
      <3>1. [NoTask EXCEPT !.pc = "closing"].pc = "closing"
        BY DEF NoTask
      <3> QED
        BY <1>9, <3>1, ClosingKept DEF TaskFails, Closing, TypeOK, Engaged
    <2>2. CASE UNCHANGED <<job, runs>>
      BY <2>1, <2>2, LatestFrame
    <2>3. CASE job.run = r /\ FailJob("ai2_retryable") /\ runs' = [runs EXCEPT ![r].status = "failed"]
      <3>1. job'.run = r /\ \A q \in Runs : runs'[q].attempt = runs[q].attempt
        BY <2>3, FailJobDoes, AttemptsKept
      <3>2. \A v \in Workers, q \in Runs : Engaged(task'[v][q]) => q # r
        BY <2>1 DEF OneWorker
      <3> QED
        BY <2>1, <3>1, <3>2 DEF EngagedIsLatest, TasksKept
    <2> QED
      BY <1>9, <2>2, <2>3 DEF TaskFails, EndByFailure
  <1>10. ASSUME NEW r \in Runs, DispatchFails(r) PROVE EngagedIsLatest'
    <2>1. TasksKept
      BY <1>10 DEF DispatchFails, TasksKept
    <2> QED
      BY <1>10, <2>1, AttemptsKept, LatestFrame DEF DispatchFails
  <1>11. ASSUME NEW r \in Runs, Reprocess(r) PROVE EngagedIsLatest'
    <2>1. TasksKept
      BY <1>11 DEF Reprocess, TasksKept
    <2>2. \A w \in Workers, q \in Runs : Engaged(task[w][q]) => runs'[q].attempt = runs[q].attempt
      BY <1>11, CreateRunIsNew DEF Reprocess, FreshIsBlank
    <2> QED
      BY <1>11, <2>1, <2>2, CreateRunIsNew, LatestFrame DEF Reprocess
  <1>12. ASSUME CloseLastReviewItem \/ Approve PROVE EngagedIsLatest'
    <2>1. TasksKept /\ runs' = runs
      BY <1>12 DEF CloseLastReviewItem, Approve, TasksKept
    <2>2. job' = job \/ job'.status \in {"reviewed", "approved"}
      BY <1>12 DEF CloseLastReviewItem, Approve, Advance, TypeOK, Jobs
    <2> QED
      BY <2>1, <2>2, LatestFrame
  <1> QED
    BY <1>1, <1>2, <1>3, <1>4, <1>5, <1>6, <1>7, <1>8, <1>9, <1>10, <1>11, <1>12 DEF Acting

LEMMA LatestStep ==
  ASSUME OneWorker, AttemptIntegrity, [Next]_vars
  PROVE  EngagedIsLatest'
  <1> USE DEF AttemptIntegrity, RunIntegrity
  <1>1. ASSUME Bystander, pending' \subseteq pending PROVE EngagedIsLatest'
    BY <1>1, LatestFrame DEF Bystander
  <1>2. ASSUME NEW p, Starts(p) PROVE EngagedIsLatest'
    <2>1. /\ UNCHANGED <<job, runs, task>> /\ pending' = pending \cup {p}
          /\ p.kind = "reopen" => job.run = p.run /\ job.status = "failed" /\ job.error = "ai2_retryable"
      BY <1>2 DEF Starts, Decided, MayReopen
    <2> QED
      BY <2>1 DEF EngagedIsLatest
  <1>3. CASE UNCHANGED vars
    BY <1>3 DEF vars, EngagedIsLatest
  <1> QED
    BY <1>1, <1>2, <1>3, LatestByCommit, LatestByActing, BystanderOrActing, PendingStep, CrashDrops
    DEF Next

(* The result of an AI2 attempt older than the run's current one is never    *)
(* persisted, by one worker, whatever races, requests and faults there are.  *)
(* With a second worker a hand-off of the older attempt may still be on.     *)
THEOREM NoLateAttempt == OneWorker => (Spec => NoLateAttemptPersisted)
  <1> SUFFICES ASSUME OneWorker PROVE Spec => NoLateAttemptPersisted
    OBVIOUS
  <1>1. Init => AttemptIntegrity
    <2> SUFFICES ASSUME Init PROVE AttemptIntegrity
      OBVIOUS
    <2>1. Grounded /\ HandHeld /\ ReopenHeld
      BY DEF Init, Grounded, HandHeld, ReopenHeld, IdleHand
    <2>2. EngagedIsLatest
      BY DEF Init, EngagedIsLatest, Engaged, NoTask
    <2> QED
      BY <2>1, <2>2, IntegrityInit DEF AttemptIntegrity
  <1>2. AttemptIntegrity /\ [Next]_vars => AttemptIntegrity'
    <2> SUFFICES ASSUME AttemptIntegrity, [Next]_vars PROVE AttemptIntegrity'
      OBVIOUS
    <2>1. RunIntegrity' /\ Grounded' /\ HandHeld'
      BY IntegrityStep, GroundedStep, HandHeldStep DEF AttemptIntegrity, RunIntegrity
    <2> QED
      BY <2>1, ReopenStep, LatestStep DEF AttemptIntegrity
  <1> DEFINE OfLatest(r) == runs'[r].result # runs[r].result => runs'[r].result = runs[r].attempt
  <1>3. AttemptIntegrity /\ [Next]_vars => [\A r \in Runs : OfLatest(r)]_vars
    <2> SUFFICES ASSUME AttemptIntegrity, [Next]_vars, NEW q \in Runs PROVE OfLatest(q)
      OBVIOUS
    <2> USE DEF AttemptIntegrity, RunIntegrity
    <2>1. CASE Quiet
      BY <2>1 DEF Quiet, RowsKept
    <2>2. ASSUME NEW w \in Workers, NEW ev \in events, ResumeRun(w, ev) PROVE OfLatest(q)
      BY <2>2 DEF ResumeRun, TypeOK, RunRows
    <2>3. ASSUME NEW w \in Workers, NEW ev \in events, NEW r \in Runs, OpenRun(w, ev, r)
          PROVE  OfLatest(q)
      BY <2>3, OpenRunIsNew DEF FreshIsBlank
    <2>4. ASSUME NEW w \in Workers, NEW m \in results, RecordAi1Result(w, m) PROVE OfLatest(q)
      BY <2>4 DEF RecordAi1Result, TypeOK, RunRows
    <2>5. ASSUME NEW w \in Workers, NEW r \in Runs, TaskStart(w, r) PROVE OfLatest(q)
      BY <2>5 DEF TaskStart, TypeOK, RunRows
    <2>6. ASSUME NEW w \in Workers, NEW r \in Runs, TaskSucceeds(w, r) PROVE OfLatest(q)
      BY <2>6 DEF TaskSucceeds, TypeOK, RunRows, EngagedIsLatest, Engaged
    <2>7. ASSUME NEW r \in Runs, NEW b, CreateRun(r, b) PROVE OfLatest(q)
      BY <2>7, CreateRunIsNew DEF FreshIsBlank
    <2> QED
      BY <2>1, <2>2, <2>3, <2>4, <2>5, <2>6, <2>7, QuietOrTelling DEF Telling
  <1> QED
    BY <1>1, <1>2, <1>3, PTL DEF Spec, NoLateAttemptPersisted
-----------------------------------------------------------------------------
(* What a step does to the commands and results between the worker and AI1.  *)
AtAi1 ==
  \/ UNCHANGED ocr /\ results' \subseteq results
  \/ \E w \in Workers :
       /\ hand[w].pc = "dispatch" /\ results' = results
       /\ \A r \in Runs : ocr'[r] # ocr[r] => r = hand[w].run
       /\ \A r \in Runs, d \in Docs : ocr'[r][d] \in {ocr[r][d], "sent"}
  \/ \E r \in Runs, d \in Docs : Ai1Answers(r, d) \/ Ai1Garbles(r, d)

LEMMA Ai1Step == TypeOK /\ [Next]_vars => AtAi1
  <1> SUFFICES ASSUME TypeOK, [Next]_vars PROVE AtAi1
    OBVIOUS
  <1> DEFINE Away == UNCHANGED ocr /\ results' \subseteq results
  <1>1. ASSUME NEW w \in Workers, ConsumeEvent(w) \/ HandlerFails(w) PROVE AtAi1
    <2>1. ASSUME \E docs : CommandsSent(hand[w].run, docs) /\ hand[w].pc = "dispatch",
                 results' = results
          PROVE  AtAi1
      <3>1. \A r \in Runs : ocr'[r] # ocr[r] => r = hand[w].run
        BY <2>1 DEF CommandsSent, TypeOK
      <3>2. \A r \in Runs, d \in Docs : ocr'[r][d] \in {ocr[r][d], "sent"}
        BY <2>1 DEF CommandsSent, TypeOK
      <3> QED
        BY <2>1, <3>1, <3>2 DEF AtAi1
    <2>2. ASSUME PublishCommands(w) PROVE AtAi1
      BY <2>1, <2>2 DEF PublishCommands
    <2>3. ASSUME HandlerFails(w) PROVE AtAi1
      BY <2>1, <2>3 DEF HandlerFails
    <2>4. ASSUME NEW ev \in events,
                 \/ IgnoreStart(w, ev) \/ ResumeRun(w, ev) \/ (\E r \in Runs : OpenRun(w, ev, r))
                 \/ HandleAi2Retry(w, ev) \/ HandleManifestConfirmed(w, ev)
          PROVE  Away
      BY <2>4 DEF IgnoreStart, ResumeRun, OpenRun, HandleAi2Retry, HandleManifestConfirmed
    <2>5. ASSUME CompleteCarriedRun(w) \/ AckEvent(w) PROVE Away
      BY <2>5 DEF CompleteCarriedRun, AckEvent
    <2> QED
      BY <1>1, <2>2, <2>3, <2>4, <2>5 DEF ConsumeEvent, AtAi1
  <1>2. ASSUME NEW w \in Workers, ConsumeResult(w) \/ Ai1Overdue(w) \/ Start(w) PROVE Away
    BY <1>2 DEF ConsumeResult, DropAi1Result, FailAi1Run, DuplicateAi1Result,
       RecordAi1Result, AckResult, Ai1Overdue, Start
  <1>3. ASSUME NEW w \in Workers, NEW r \in Runs, RunTask(w, r) \/ TaskForgets(w, r) PROVE Away
    BY <1>3 DEF RunTask, TaskStart, TaskNotReady, TaskFreeze, TaskSucceeds, TaskRefused,
       TaskBlocked, TaskFails, TaskDone, TaskForgets
  <1>4. ASSUME Request \/ \E r \in Runs : DispatchRun(r) PROVE Away
    BY <1>4 DEF DispatchRun, Request, Trigger, Reprocess, Cancel, Restart,
       RetryFailed, Ai2Retry, ConfirmManifest, CloseLastReviewItem, Approve
  <1>5. ASSUME \/ \E w \in Workers : DeadLetter(w) \/ Crash(w)
               \/ \E w \in Workers, r \in Runs : TaskDies(w, r)
               \/ \E r \in Runs : DispatchFails(r) \/ ApiDies(r)
        PROVE  Away
    BY <1>5 DEF DeadLetter, Crash, TaskDies, DispatchFails, ApiDies
  <1>6. ASSUME NEW p \in pending, Commit(p) PROVE Away
    BY <1>6 DEF Commit, CommitTimeout, CommitReopen, CommitCarried, CommitCancel, CommitTrigger
  <1>7. ASSUME UNCHANGED vars PROVE Away
    BY <1>7 DEF vars
  <1>8. Away => AtAi1
    BY DEF AtAi1
  <1>9. ASSUME NEW r \in Runs, NEW d \in Docs, Ai1Answers(r, d) \/ Ai1Garbles(r, d) PROVE AtAi1
    BY <1>9 DEF AtAi1
  <1> QED
    BY <1>1, <1>2, <1>3, <1>4, <1>5, <1>6, <1>7, <1>8, <1>9 DEF Next, Other, Fault

(* A run no worker has taken up yet, and what would tell that one has.       *)
Unstarted(r) == runs[r].status = "absent" \/ (job.status = "uploaded" /\ job.run = r)

Commanded(r) ==
  \/ \E d \in Docs : ocr[r][d] # "none"
  \/ \E m \in results : m.run = r
  \/ \E w \in Workers : hand[w].run = r
  \/ \E p \in pending : p.kind = "carried" /\ p.run = r

(* No AI1 result is on its way for a run that waits to be started.           *)
NotCommanded == \A r \in Runs : Unstarted(r) => ~Commanded(r)

LEMMA CommandedStep ==
  ASSUME TypeOK, [Next]_vars, NEW r \in Runs, Commanded(r)'
  PROVE  Commanded(r) \/ (job'.run = r /\ job'.status # "uploaded")
  <1>1. ASSUME NEW d \in Docs, ocr'[r][d] # "none" PROVE Commanded(r)
    <2>1. ASSUME NEW q \in Runs, NEW e \in Docs, Ai1Answers(q, e) \/ Ai1Garbles(q, e)
          PROVE  Commanded(r)
      BY <1>1, <2>1 DEF Ai1Answers, Ai1Garbles, Ai1Sends, TypeOK, Commanded
    <2> QED
      BY <1>1, <2>1, Ai1Step DEF AtAi1, Commanded
  <1>2. ASSUME NEW m \in results', m.run = r PROVE Commanded(r)
    <2>1. ASSUME NEW q \in Runs, NEW e \in Docs, Ai1Answers(q, e) \/ Ai1Garbles(q, e)
          PROVE  Commanded(r)
      <3>1. PICK kinds : Ai1Sends(q, e, kinds)
        BY <2>1 DEF Ai1Answers, Ai1Garbles
      <3>2. m \in results \/ q = r
        BY <1>2, <3>1 DEF Ai1Sends
      <3> QED
        BY <1>2, <3>1, <3>2 DEF Ai1Sends, Commanded
    <2> QED
      BY <1>2, <2>1, Ai1Step DEF AtAi1, Commanded
  <1>3. ASSUME NEW w \in Workers, hand'[w].run = r
        PROVE  Commanded(r) \/ (job'.run = r /\ job'.status # "uploaded")
    <2>1. CASE Other
      BY <1>3, <2>1, HandStep, RunsAssumption DEF HandMoves, Commanded
    <2>2. ASSUME NEW p \in pending, Commit(p) PROVE hand[w].run = r
      BY <1>3, <2>2, RunsAssumption DEF Commit, CommitTimeout, CommitReopen, CommitCarried,
         CommitCancel, CommitTrigger, TypeOK, Hands
    <2>3. CASE UNCHANGED vars
      BY <1>3, <2>3 DEF vars, Commanded
    <2> QED
      BY <2>1, <2>2, <2>3 DEF Next, Commanded
  <1>4. ASSUME NEW p \in pending', p.kind = "carried", p.run = r PROVE Commanded(r)
    <2>1. CASE pending' \subseteq pending
      BY <1>4, <2>1 DEF Commanded
    <2>2. ASSUME NEW q, Starts(q) PROVE Commanded(r)
      BY <1>4, <2>2 DEF Starts, Handling, Commanded
    <2> QED
      BY <2>1, <2>2, PendingStep, CrashDrops DEF Next, Commit, vars
  <1> QED
    BY <1>1, <1>2, <1>3, <1>4 DEF Commanded

LEMMA NotCommandedStep ==
  ASSUME RunIntegrity, NotCommanded, [Next]_vars
  PROVE  NotCommanded'
  <1> SUFFICES ASSUME NEW r \in Runs, Unstarted(r)', Commanded(r)' PROVE FALSE
    BY DEF NotCommanded
  <1>1. TypeOK /\ RunIntegrity'
    BY IntegrityStep DEF RunIntegrity
  <1>2. Unstarted(r)
    BY <1>1, JobStep, RowsStay DEF JobMoves, Unstarted
  <1>3. job'.run = r /\ job'.status # "uploaded"
    BY <1>1, <1>2, CommandedStep DEF NotCommanded
  <1> QED
    BY <1>1, <1>3, RunsAssumption DEF Unstarted, RunIntegrity, CurrentRunExists

(* AI1 does not both read and reject a document, as long as no stored result *)
(* is lost or overwritten.                                                   *)
Consistent == \A d \in Docs : ~(Outstanding(d, "rejected") /\ Ai1Read(d))

LEMMA ReadStep ==
  ASSUME TypeOK, [Next]_vars, NEW r \in Runs, NEW d \in runs'[r].extracted
  PROVE  Ai1Read(d)
  <1>1. ASSUME NEW q \in Runs, d \in runs[q].extracted PROVE Ai1Read(d)
    BY <1>1 DEF Ai1Read
  <1>2. CASE Quiet
    BY <1>1, <1>2 DEF Quiet, RowsKept
  <1>3. ASSUME NEW w \in Workers, NEW ev \in events, ResumeRun(w, ev) PROVE Ai1Read(d)
    <2>1. job.run \in Runs /\ runs[job.run].base \in Runs \cup {NoRun}
      BY <1>3 DEF ResumeRun, Resumes, Active, TypeOK, Jobs, RunRows
    <2>2. d \in runs[r].extracted \/ (r = job.run /\ d \in Carried(job.run))
      BY <1>3, <2>1 DEF ResumeRun, TypeOK, RunRows
    <2> QED
      BY <1>1, <2>1, <2>2 DEF Carried
  <1>4. ASSUME NEW w \in Workers, NEW ev \in events, NEW q \in Runs, OpenRun(w, ev, q)
        PROVE  Ai1Read(d)
    <2>1. r # q => runs'[r].extracted = runs[r].extracted
      BY <1>4, OpenRunIsNew
    <2>2. Superseded(job.run) \in [Runs -> RunRows]
      BY RunStatusType DEF Superseded, TypeOK, RunStatuses
    <2>3. runs'[q].extracted = Kept(ev)
      BY <1>4, <2>2 DEF OpenRun, NewRun
    <2>4. d \in Kept(ev) => \E b \in Runs : d \in runs[b].extracted
      BY DEF Kept, TypeOK, Jobs
    <2> QED
      BY <1>1, <2>1, <2>3, <2>4
  <1>5. ASSUME NEW w \in Workers, NEW m \in results, RecordAi1Result(w, m) PROVE Ai1Read(d)
    <2>1. d \in runs[r].extracted \/ d = m.doc
      BY <1>5 DEF RecordAi1Result, TypeOK, RunRows
    <2> QED
      BY <1>1, <1>5, <2>1 DEF RecordAi1Result, KeepsResult, Ai1Read, Outstanding
  <1>6. ASSUME NEW w \in Workers, NEW q \in Runs, TaskStart(w, q) PROVE Ai1Read(d)
    BY <1>1, <1>6 DEF TaskStart, TypeOK, RunRows
  <1>7. ASSUME NEW w \in Workers, NEW q \in Runs, TaskSucceeds(w, q) PROVE Ai1Read(d)
    BY <1>1, <1>7 DEF TaskSucceeds, TypeOK, RunRows
  <1>8. ASSUME NEW q \in Runs, NEW b, CreateRun(q, b) PROVE Ai1Read(d)
    BY <1>1, <1>8 DEF CreateRun, NewRun, TypeOK
  <1> QED
    BY <1>2, <1>3, <1>4, <1>5, <1>6, <1>7, <1>8, QuietOrTelling DEF Telling

LEMMA ConsistentStep ==
  ASSUME "garble" \notin Faults, TypeOK, Consistent, [Next]_vars
  PROVE  Consistent'
  <1> SUFFICES ASSUME NEW d \in Docs, Outstanding(d, "rejected")', Ai1Read(d)' PROVE FALSE
    BY DEF Consistent
  <1>1. Outstanding(d, "completed")' \/ Ai1Read(d)
    BY ReadStep DEF Ai1Read
  <1>2. CASE results' \subseteq results
    BY <1>1, <1>2 DEF Consistent, Outstanding, Ai1Read
  <1>3. ASSUME NEW r \in Runs, NEW e \in Docs, Ai1Answers(r, e) PROVE FALSE
    <2>1. ASSUME NEW kinds, Ai1Sends(r, e, kinds), "rejected" \notin kinds, "completed" \notin kinds
          PROVE  FALSE
      BY <1>1, <2>1 DEF Ai1Sends, Consistent, Outstanding, Ai1Read
    <2>2. ASSUME NEW kinds, Ai1Sends(r, e, kinds), "rejected" \notin kinds, ~Outstanding(e, "rejected")
          PROVE  FALSE
      BY <1>1, <2>2 DEF Ai1Sends, Consistent, Outstanding, Ai1Read
    <2>3. ASSUME Ai1Sends(r, e, {"rejected"}), ~Ai1Read(e)
          PROVE  FALSE
      BY <1>1, <2>3 DEF Ai1Sends, Consistent, Outstanding, Ai1Read
    <2> QED
      BY <1>3, <2>1, <2>2, <2>3 DEF Ai1Answers
  <1> QED
    BY <1>2, <1>3, Ai1Step DEF AtAi1, Ai1Garbles
-----------------------------------------------------------------------------
(* The conditions under which no two parts of the system write the job or a  *)
(* run against each other: one worker, no unlocked transaction overtaken, no *)
(* cancel (the hand-off writes the run after it), no stored result lost.     *)
Undisputed ==
  OneWorker /\ Racing = {} /\ "cancel" \notin Requests /\ "garble" \notin Faults

(* What an unlocked transaction decided on still holds.                      *)
DecidedHolds == \A p \in pending : Decided(p)

DispatchedExist == \A r \in dispatch : runs[r].status # "absent"

(* The hand-off of the current run and the job agree.                        *)
EngagedIsExtracted ==
  \A w \in Workers, r \in Runs :
    Engaged(task[w][r]) /\ job.run = r => job.status = "extracted" /\ runs[r].result = 0

(* The current run has an AI2 result only once its job is in review.         *)
NoResultYet == job.run # NoRun /\ runs[job.run].result # 0 => job.status \in InReview

Agreed == EngagedIsExtracted /\ NoResultYet /\ FailedJobHasEndedRun

LifecycleIntegrity ==
  /\ RunIntegrity /\ Grounded /\ Alone /\ DecidedHolds
  /\ NotCommanded /\ Consistent /\ DispatchedExist
  /\ Agreed

LEMMA DecidedStep ==
  ASSUME Racing = {}, TypeOK, Alone, DecidedHolds, [Next]_vars
  PROVE  DecidedHolds'
  <1>1. ASSUME UNCHANGED <<job, runs>>, NEW p, Decided(p) PROVE Decided(p)'
    BY <1>1 DEF Decided, MayReopen, AnyActive, Active, Missing
  <1>2. CASE UNCHANGED vars
    BY <1>1, <1>2 DEF vars, DecidedHolds
  <1>3. ASSUME NEW p \in pending, Commit(p) PROVE DecidedHolds'
    BY <1>3 DEF Commit, Alone, DecidedHolds
  <1>4. ASSUME Undisturbed, Other PROVE DecidedHolds'
    <2>1. pending = {}
      BY <1>4 DEF Undisturbed
    <2>2. ASSUME NEW p, Starts(p) PROVE DecidedHolds'
      BY <1>1, <2>1, <2>2 DEF Starts, DecidedHolds
    <2> QED
      BY <1>4, <2>1, <2>2, PendingStep, CrashDrops DEF DecidedHolds
  <1> QED
    BY <1>2, <1>3, <1>4 DEF Next

LEMMA DispatchStep ==
  ASSUME RunIntegrity, DispatchedExist, [Next]_vars
  PROVE  DispatchedExist'
  <1> USE DEF RunIntegrity
  <1>1. CASE dispatch' \subseteq dispatch
    BY <1>1, RowsStay DEF DispatchedExist, TypeOK
  <1>2. ASSUME NEW r \in Runs, NEW b, CreateRun(r, b) PROVE DispatchedExist'
    <2>1. dispatch' = dispatch \cup {r} /\ runs'[r].status = "queued"
      BY <1>2, CreateRunIsNew DEF CreateRun
    <2> QED
      BY <2>1, RowsStay DEF DispatchedExist, TypeOK
  <1>3. ASSUME NEW w \in Workers, ConsumeEvent(w) PROVE dispatch' = dispatch
    BY <1>3 DEF ConsumeEvent, IgnoreStart, ResumeRun, OpenRun, HandleAi2Retry,
       HandleManifestConfirmed, PublishCommands, CompleteCarriedRun, AckEvent
  <1>4. ASSUME NEW w \in Workers, ConsumeResult(w) \/ Ai1Overdue(w) \/ Start(w)
        PROVE  dispatch' = dispatch
    BY <1>4 DEF ConsumeResult, DropAi1Result, FailAi1Run, DuplicateAi1Result,
       RecordAi1Result, AckResult, Ai1Overdue, Start
  <1>5. ASSUME NEW w \in Workers, NEW r \in Runs, RunTask(w, r) \/ TaskForgets(w, r)
        PROVE  dispatch' = dispatch
    BY <1>5 DEF RunTask, TaskStart, TaskNotReady, TaskFreeze, TaskSucceeds, TaskRefused,
       TaskBlocked, TaskFails, TaskDone, TaskForgets
  <1>6. ASSUME \/ \E r \in Runs : DispatchRun(r) \/ Cancel(r)
               \/ \E r \in Runs, d \in Docs : Ai1Answers(r, d)
               \/ Trigger \/ Restart \/ RetryFailed \/ Ai2Retry \/ ConfirmManifest
               \/ CloseLastReviewItem \/ Approve
        PROVE  dispatch' \subseteq dispatch
    BY <1>6 DEF DispatchRun, Cancel, Ai1Answers, Ai1Sends, Trigger, Restart, RetryFailed, Ai2Retry,
       ConfirmManifest, CloseLastReviewItem, Approve
  <1>7. ASSUME Fault PROVE dispatch' \subseteq dispatch
    BY <1>7 DEF Fault, HandlerFails, DeadLetter, Crash, TaskDies, DispatchFails, ApiDies,
       Ai1Garbles, Ai1Sends
  <1>8. ASSUME NEW p \in pending, Commit(p) PROVE DispatchedExist'
    <2>1. ASSUME ~CommitTrigger(p) PROVE dispatch' = dispatch
      BY <1>8, <2>1 DEF Commit, CommitTimeout, CommitReopen, CommitCarried, CommitCancel
    <2> QED
      BY <1>1, <1>2, <2>1 DEF CommitTrigger
  <1>9. CASE UNCHANGED vars
    BY <1>1, <1>9 DEF vars
  <1>10. ASSUME NEW r \in Runs, Reprocess(r) PROVE DispatchedExist'
    BY <1>2, <1>10 DEF Reprocess
  <1> QED
    BY <1>1, <1>3, <1>4, <1>5, <1>6, <1>7, <1>8, <1>9, <1>10 DEF Next, Other, Request

(* The job stays on its run; if a hand-off is on it, in EXTRACTED.           *)
LEMMA AgreedOnRun ==
  ASSUME TypeOK, Agreed, TasksKept, job'.run = job.run,
         \A r \in Runs : runs'[r].result = runs[r].result,
         \A w \in Workers :
           job.run # NoRun /\ Engaged(task'[w][job.run]) => job'.status = "extracted",
         job'.status \in InReview \/ job.status \notin InReview,
         job'.status = "failed" => ~Active(job.run)'
  PROVE  Agreed'
  <1> USE DEF Agreed
  <1>1. job.run \in Runs \cup {NoRun}
    BY DEF TypeOK, Jobs
  <1>2. EngagedIsExtracted'
    BY RunsAssumption DEF EngagedIsExtracted, TasksKept
  <1>3. NoResultYet'
    BY <1>1 DEF NoResultYet
  <1>4. FailedJobHasEndedRun'
    BY DEF FailedJobHasEndedRun, Active
  <1> QED
    BY <1>2, <1>3, <1>4

(* The job is left alone, and its run at most ends or is a hand-off's.       *)
LEMMA AgreedSameJob ==
  ASSUME TypeOK, Agreed, TasksKept, job' = job,
         \A r \in Runs : runs'[r].result = runs[r].result,
         job.status = "failed" => (Active(job.run)' => Active(job.run))
  PROVE  Agreed'
  <1>1. \A w \in Workers :
          job.run # NoRun /\ Engaged(task'[w][job.run]) => job'.status = "extracted"
    BY DEF TasksKept, Agreed, EngagedIsExtracted, TypeOK, Jobs
  <1>2. job'.status = "failed" => ~Active(job.run)'
    BY DEF Agreed, FailedJobHasEndedRun
  <1> QED
    BY <1>1, <1>2, AgreedOnRun

(* The job is moved to a new run.                                            *)
LEMMA AgreedOnNewRun ==
  ASSUME RunIntegrity, TasksKept, NEW r \in Runs, runs[r].status = "absent",
         job'.run = r, job'.status \in {"uploaded", "processing"}, runs'[r].result = 0
  PROVE  Agreed'
  BY DEF Agreed, EngagedIsExtracted, NoResultYet, FailedJobHasEndedRun, TasksKept,
     RunIntegrity, FreshIsBlank

(* The run of the job fails, and no hand-off is on it any more.              *)
LEMMA AgreedByFailure ==
  ASSUME TypeOK, Agreed, TasksKept, NEW e, FailJob(e), NEW r \in Runs, job.run = r,
         runs' = [runs EXCEPT ![r].status = "failed"],
         job.status \notin InReview,
         \A w \in Workers : ~Engaged(task'[w][r])
  PROVE  Agreed'
  <1>1. job'.run = job.run /\ job'.status = "failed"
    BY FailJobDoes
  <1>2. \A q \in Runs : runs'[q].result = runs[q].result
    BY DEF TypeOK, RunRows
  <1>3. runs'[r].status = "failed"
    BY DEF TypeOK, RunRows
  <1>4. ~Active(job.run)'
    BY <1>1, <1>3 DEF Active
  <1> QED
    BY <1>1, <1>2, <1>4, AgreedOnRun

LEMMA NotEngagedUnlessExtracted ==
  ASSUME TypeOK, Agreed, job.run # NoRun, job.status # "extracted"
  PROVE  \A w \in Workers : ~Engaged(task[w][job.run])
  BY DEF Agreed, EngagedIsExtracted, TypeOK, Jobs

LEMMA AgreedByCommit ==
  ASSUME Undisputed, LifecycleIntegrity, NEW p \in pending, Commit(p)
  PROVE  Agreed'
  <1> USE DEF LifecycleIntegrity, RunIntegrity
  <1>1. Decided(p) /\ p.kind # "cancel"
    BY DEF DecidedHolds, Decided, Undisputed
  <1>2. p.kind \in {"timeout", "carried", "reopen"} => job.run \in Runs
    BY DEF Grounded, TypeOK, Jobs
  <1>3. CASE CommitTimeout(p)
    <2>1. job.run = p.run /\ p.run \in Runs /\ job.status = "processing" /\ TasksKept
      BY <1>1, <1>2, <1>3 DEF CommitTimeout, Decided, TasksKept
    <2>2. \A w \in Workers : ~Engaged(task'[w][p.run])
      BY <1>3, <2>1, NotEngagedUnlessExtracted, RunsAssumption DEF CommitTimeout
    <2> QED
      BY <1>3, <2>1, <2>2, AgreedByFailure DEF CommitTimeout, InReview
  <1>4. CASE CommitReopen(p)
    <2>1. job.run = p.run /\ p.run \in Runs /\ job.status = "failed"
      BY <1>1, <1>2, <1>4 DEF CommitReopen, Decided, MayReopen
    <2>2. TasksKept
      BY <1>4, ScheduleKept DEF CommitReopen, TypeOK
    <2>3. job'.run = job.run /\ job'.status = "extracted"
      BY <1>4 DEF CommitReopen, Move, TypeOK, Jobs
    <2>4. \A r \in Runs : runs'[r].result = runs[r].result
      BY <1>4 DEF CommitReopen, TypeOK, RunRows
    <2>5. job.status \notin InReview
      BY <2>1 DEF InReview
    <2> QED
      BY <2>2, <2>3, <2>4, <2>5, AgreedOnRun
  <1>5. CASE CommitCarried(p)
    <2>1. job.status \notin InReview
      <3>1. TransitionAllowed(job.status, "extracted")
        BY <1>1, <1>5 DEF CommitCarried, Decided
      <3> QED
        BY <3>1 DEF TransitionAllowed, Rank, InReview
    <2>2. TasksKept
      BY <1>5, ScheduleKept DEF CommitCarried, TypeOK
    <2>3. job'.run = job.run /\ job'.status = "extracted" /\ runs' = runs
      BY <1>5 DEF CommitCarried, Move, TypeOK, Jobs
    <2> QED
      BY <2>1, <2>2, <2>3, AgreedOnRun
  <1>6. CASE CommitTrigger(p)
    <2>1. TasksKept
      BY <1>6 DEF CommitTrigger, TasksKept
    <2> QED
      BY <1>6, <2>1, CreateRunIsNew, AgreedOnNewRun DEF CommitTrigger
  <1> QED
    BY <1>1, <1>3, <1>4, <1>5, <1>6 DEF Commit, CommitCancel

(* AI1 cannot fail the run of a hand-off: it has read all of its documents.  *)
LEMMA EngagedRunNotFailed ==
  ASSUME LifecycleIntegrity, NEW w \in Workers, NEW m \in results, FailsRun(m)
  PROVE  ~Engaged(task[w][m.run])
  <1> SUFFICES ASSUME Engaged(task[w][m.run]) PROVE FALSE
    OBVIOUS
  <1>1. m.run \in Runs /\ m.doc \in Docs
    BY DEF LifecycleIntegrity, RunIntegrity, TypeOK, Results
  <1>2. m.doc \in runs[m.run].extracted
    BY <1>1 DEF LifecycleIntegrity, RunIntegrity, EngagedIsWhole
  <1>3. m.kind = "rejected"
    BY <1>2 DEF FailsRun, Recorded
  <1>4. Outstanding(m.doc, "rejected") /\ Ai1Read(m.doc)
    BY <1>1, <1>2, <1>3 DEF Outstanding, Ai1Read
  <1> QED
    BY <1>1, <1>4 DEF LifecycleIntegrity, Consistent

LEMMA ClosingEnds ==
  ASSUME TypeOK, NEW w \in Workers, NEW r \in Runs, Closing(w, r)
  PROVE  ~Engaged(task'[w][r])
  <1>1. [NoTask EXCEPT !.pc = "closing"].pc = "closing"
    BY DEF NoTask
  <1> QED
    BY <1>1 DEF Closing, TypeOK, Engaged

LEMMA AgreedByActing ==
  ASSUME Undisputed, LifecycleIntegrity, Acting
  PROVE  Agreed'
  <1> USE DEF LifecycleIntegrity, RunIntegrity
  <1>1. ASSUME NEW w \in Workers, NEW ev \in events, ResumeRun(w, ev) PROVE Agreed'
    <2>1. job.run # NoRun /\ job.status \in {"uploaded", "processing"}
      BY <1>1 DEF ResumeRun, Resumes, Refused, Active
    <2>2. TasksKept /\ job'.run = job.run /\ job'.status = "processing"
      BY <1>1 DEF ResumeRun, Move, TasksKept, TypeOK, Jobs
    <2>3. \A r \in Runs : runs'[r].result = runs[r].result
      BY <1>1 DEF ResumeRun, TypeOK, RunRows
    <2>4. \A v \in Workers : ~Engaged(task'[v][job.run])
      BY <1>1, <2>1, NotEngagedUnlessExtracted DEF ResumeRun
    <2> QED
      BY <2>1, <2>2, <2>3, <2>4, AgreedOnRun DEF InReview
  <1>2. ASSUME NEW w \in Workers, NEW ev \in events, NEW r \in Runs, OpenRun(w, ev, r)
        PROVE  Agreed'
    BY <1>2, OpenRunIsNew, AgreedOnNewRun
  <1>3. ASSUME NEW w \in Workers, NEW m \in results, FailAi1Run(w, m) PROVE Agreed'
    <2>1. job.run = m.run /\ m.run \in Runs /\ job.status \notin InReview
      BY <1>3 DEF FailAi1Run, FailsRun, TransitionAllowed, Rank, InReview, TypeOK, Results
    <2>2. TasksKept /\ \A v \in Workers : ~Engaged(task'[v][m.run])
      BY <1>3, EngagedRunNotFailed DEF FailAi1Run, TasksKept
    <2> QED
      BY <1>3, <2>1, <2>2, AgreedByFailure DEF FailAi1Run
  <1>4. ASSUME NEW w \in Workers, NEW m \in results, RecordAi1Result(w, m) PROVE Agreed'
    <2>1. TasksKept
      BY <1>4, ScheduleKept DEF RecordAi1Result, TypeOK, TasksKept
    <2>2. \A r \in Runs : runs'[r].result = runs[r].result /\ runs'[r].status = runs[r].status
      BY <1>4 DEF RecordAi1Result, TypeOK, RunRows
    <2>3. CASE job' = job
      BY <2>1, <2>2, <2>3, AgreedSameJob DEF Active, TypeOK, Jobs
    <2>4. CASE job' # job
      <3>1. /\ ~Late /\ TransitionAllowed(job.status, "extracted")
            /\ job'.run = job.run /\ job'.status \in {"extracted", "processing"}
            /\ TransitionAllowed(job.status, job'.status)
        BY <1>4, <2>4 DEF RecordAi1Result, KeepsResult, Move, AfterResult, TypeOK, Jobs
      <3>2. /\ job.status \in {"uploaded", "processing", "extracted"}
            /\ job.status = "extracted" => job'.status = "extracted"
        BY <3>1 DEF TransitionAllowed, Rank
      <3>3. \A v \in Workers :
              job.run # NoRun /\ Engaged(task'[v][job.run]) => job'.status = "extracted"
        BY <2>1, <3>2, NotEngagedUnlessExtracted DEF TasksKept, TypeOK, Jobs
      <3> QED
        BY <2>1, <2>2, <3>1, <3>2, <3>3, AgreedOnRun DEF InReview
    <2> QED
      BY <2>3, <2>4
  <1>5. ASSUME NEW w \in Workers, NEW r \in Runs, TaskStart(w, r) PROVE Agreed'
    <2>1. job' = job /\ job.run = r /\ job.status = "extracted" /\ runs[r].result = 0
      BY <1>5 DEF TaskStart, ReadyForAi2
    <2>2. \A q \in Runs : runs'[q].result = runs[q].result
      BY <1>5 DEF TaskStart, TypeOK, RunRows
    <2>3. EngagedIsExtracted'
      BY <2>1, <2>2 DEF EngagedIsExtracted
    <2>4. NoResultYet' /\ FailedJobHasEndedRun'
      BY <2>1, <2>2 DEF NoResultYet, FailedJobHasEndedRun
    <2> QED
      BY <2>3, <2>4 DEF Agreed
  <1>6. ASSUME NEW w \in Workers, NEW r \in Runs, TaskFreeze(w, r) PROVE Agreed'
    <2>1. TasksKept /\ job' = job
      BY <1>6 DEF TaskFreeze, TasksKept, Engaged, TypeOK, Tasks
    <2>2. \A q \in Runs : /\ runs'[q].result = runs[q].result
                          /\ q # r => runs'[q].status = runs[q].status
      BY <1>6 DEF TaskFreeze, TypeOK, RunRows
    <2>3. job.status = "failed" => job.run # r
      BY <1>6 DEF TaskFreeze, Agreed, EngagedIsExtracted, Engaged
    <2> QED
      BY <2>1, <2>2, <2>3, AgreedSameJob DEF Active, TypeOK, Jobs
  <1>7. ASSUME NEW w \in Workers, NEW r \in Runs, TaskSucceeds(w, r) PROVE Agreed'
    <2>1. TasksKept /\ ~Engaged(task'[w][r])
      BY <1>7, ClosingEnds, ClosingKept DEF TaskSucceeds, TypeOK
    <2>2. job'.run = r /\ job'.status = "pending_review"
      BY <1>7 DEF TaskSucceeds, TakesAi2Result, Move, TypeOK, Jobs
    <2>3. EngagedIsExtracted'
      BY <2>1, <2>2 DEF EngagedIsExtracted, OneWorker, Undisputed
    <2> QED
      BY <2>2, <2>3 DEF Agreed, NoResultYet, FailedJobHasEndedRun, InReview
  <1>8. ASSUME NEW w \in Workers, NEW r \in Runs, NEW s, NEW e \in Errors,
               EndByFailure(r, s, e), Engaged(task[w][r]), Closing(w, r)
        PROVE  Agreed'
    <2>1. TasksKept /\ \A v \in Workers : ~Engaged(task'[v][r])
      BY <1>8, ClosingEnds, ClosingKept DEF TypeOK, OneWorker, Undisputed
    <2>2. CASE UNCHANGED <<job, dossier, runs>>
      BY <2>1, <2>2, AgreedSameJob DEF Active
    <2>3. CASE job.run = r /\ FailJob(e) /\ runs' = [runs EXCEPT ![r].status = "failed"]
      <3>1. job.status \notin InReview
        BY <1>8, <2>3 DEF Agreed, EngagedIsExtracted, InReview
      <3> QED
        BY <2>1, <2>3, <3>1, AgreedByFailure
    <2> QED
      BY <1>8, <2>2, <2>3 DEF EndByFailure
  <1>9. ASSUME NEW w \in Workers, NEW r \in Runs, TaskBlocked(w, r) \/ TaskFails(w, r)
        PROVE  Agreed'
    <2>1. /\ Engaged(task[w][r]) /\ Closing(w, r)
          /\ \E s : EndByFailure(r, s, "ai2_blocked") \/ EndByFailure(r, s, "ai2_retryable")
      BY <1>9 DEF TaskBlocked, TaskFails, Engaged
    <2> QED
      BY <1>8, <2>1 DEF Errors
  <1>10. ASSUME NEW r \in Runs, DispatchFails(r) PROVE Agreed'
    <2>1. TasksKept /\ job' = job
      BY <1>10 DEF DispatchFails, TasksKept
    <2>2. \A q \in Runs : /\ runs'[q].result = runs[q].result
                          /\ runs'[q].status \in {runs[q].status, "failed"}
      BY <1>10 DEF DispatchFails, TypeOK, RunRows
    <2> QED
      BY <2>1, <2>2, AgreedSameJob DEF Active, TypeOK, Jobs
  <1>11. ASSUME NEW r \in Runs, Reprocess(r) PROVE Agreed'
    <2>1. TasksKept
      BY <1>11 DEF Reprocess, TasksKept
    <2> QED
      BY <1>11, <2>1, CreateRunIsNew, AgreedOnNewRun DEF Reprocess
  <1>12. ASSUME CloseLastReviewItem \/ Approve PROVE Agreed'
    <2>1. TasksKept /\ runs' = runs
      BY <1>12 DEF CloseLastReviewItem, Approve, TasksKept
    <2>2. CASE job' = job
      BY <2>1, <2>2, AgreedSameJob DEF Active
    <2>3. CASE job' # job
      <3>1. /\ job'.run = job.run /\ job'.status \in {"reviewed", "approved"}
            /\ job.status \in {"pending_review", "reviewed"}
        BY <1>12, <2>3 DEF CloseLastReviewItem, Approve, Advance, TypeOK, Jobs
      <3>2. \A v \in Workers :
              job.run # NoRun /\ Engaged(task'[v][job.run]) => job'.status = "extracted"
        BY <2>1, <3>1, NotEngagedUnlessExtracted DEF TasksKept, TypeOK, Jobs
      <3> QED
        BY <2>1, <3>1, <3>2, AgreedOnRun DEF InReview
    <2> QED
      BY <2>2, <2>3
  <1> QED
    BY <1>1, <1>2, <1>3, <1>4, <1>5, <1>6, <1>7, <1>9, <1>10, <1>11, <1>12 DEF Acting

LEMMA LifecycleIntegrityInit == Init => LifecycleIntegrity
  <1> SUFFICES ASSUME Init PROVE LifecycleIntegrity
    OBVIOUS
  <1>1. Grounded /\ Alone /\ DecidedHolds /\ DispatchedExist
    BY DEF Init, Grounded, Alone, DecidedHolds, DispatchedExist, IdleHand
  <1>2. NotCommanded
    BY RunsAssumption DEF Init, NotCommanded, Commanded, IdleHand
  <1>3. Consistent
    BY DEF Init, Consistent, Outstanding
  <1>4. Agreed
    BY DEF Init, Agreed, EngagedIsExtracted, NoResultYet, FailedJobHasEndedRun, Engaged, NoTask
  <1> QED
    BY <1>1, <1>2, <1>3, <1>4, IntegrityInit DEF LifecycleIntegrity

LEMMA LifecycleIntegrityStep ==
  ASSUME Undisputed
  PROVE  LifecycleIntegrity /\ [Next]_vars => LifecycleIntegrity'
  <1> SUFFICES ASSUME LifecycleIntegrity, [Next]_vars PROVE LifecycleIntegrity'
    OBVIOUS
  <1>1. RunIntegrity /\ TypeOK
    BY DEF LifecycleIntegrity, RunIntegrity
  <1>2. RunIntegrity' /\ Grounded' /\ Alone' /\ DecidedHolds'
    BY <1>1, IntegrityStep, GroundedStep, AloneStep, DecidedStep DEF LifecycleIntegrity, Undisputed
  <1>3. NotCommanded' /\ Consistent' /\ DispatchedExist'
    BY <1>1, NotCommandedStep, ConsistentStep, DispatchStep DEF LifecycleIntegrity, Undisputed
  <1>4. Agreed'
    <2>1. CASE Bystander
      BY <1>1, <2>1, AgreedSameJob DEF Bystander, LifecycleIntegrity, Active
    <2>2. CASE UNCHANGED vars
      BY <1>1, <2>2, AgreedSameJob DEF vars, TasksKept, LifecycleIntegrity, Active
    <2> QED
      BY <1>1, <2>1, <2>2, AgreedByCommit, AgreedByActing, BystanderOrActing DEF Next
  <1> QED
    BY <1>2, <1>3, <1>4 DEF LifecycleIntegrity

THEOREM LifecycleIntegrityHolds == Undisputed => (Spec => []LifecycleIntegrity)
  <1> SUFFICES ASSUME Undisputed PROVE Spec => []LifecycleIntegrity
    OBVIOUS
  <1> QED
    BY LifecycleIntegrityInit, LifecycleIntegrityStep, PTL DEF Spec

(* A failed job points at a run that has ended, so that nothing blocks a new *)
(* run, as long as nobody writes the job or the run over another's decision. *)
THEOREM FailedJobsHaveEndedRuns == Undisputed => (Spec => []FailedJobHasEndedRun)
  <1> SUFFICES ASSUME Undisputed PROVE Spec => []FailedJobHasEndedRun
    OBVIOUS
  <1>1. LifecycleIntegrity => FailedJobHasEndedRun
    BY DEF LifecycleIntegrity, Agreed
  <1> QED
    BY <1>1, LifecycleIntegrityHolds, PTL

(* A job that failed takes no AI2 result, unless a cancel or a race fails it *)
(* behind the back of a hand-off that goes on.                               *)
THEOREM FailedJobsTakeNoResult == Undisputed => (Spec => FailedJobTakesNoResult)
  <1> SUFFICES ASSUME Undisputed PROVE Spec => FailedJobTakesNoResult
    OBVIOUS
  <1> DEFINE NoneTaken == job.status = "failed" => \A r \in Runs : runs'[r].result = runs[r].result
  <1>1. LifecycleIntegrity /\ [Next]_vars => [NoneTaken]_vars
    <2> SUFFICES ASSUME LifecycleIntegrity, [Next]_vars, job.status = "failed", NEW q \in Runs
                 PROVE  runs'[q].result = runs[q].result
      OBVIOUS
    <2> USE DEF LifecycleIntegrity, RunIntegrity
    <2>1. CASE Quiet
      BY <2>1 DEF Quiet, RowsKept
    <2>2. ASSUME NEW w \in Workers, NEW ev \in events, ResumeRun(w, ev)
          PROVE  runs'[q].result = runs[q].result
      BY <2>2 DEF ResumeRun, TypeOK, RunRows
    <2>3. ASSUME NEW w \in Workers, NEW ev \in events, NEW r \in Runs, OpenRun(w, ev, r)
          PROVE  runs'[q].result = runs[q].result
      BY <2>3, OpenRunIsNew DEF FreshIsBlank
    <2>4. ASSUME NEW w \in Workers, NEW m \in results, RecordAi1Result(w, m)
          PROVE  runs'[q].result = runs[q].result
      BY <2>4 DEF RecordAi1Result, TypeOK, RunRows
    <2>5. ASSUME NEW w \in Workers, NEW r \in Runs, TaskStart(w, r)
          PROVE  runs'[q].result = runs[q].result
      BY <2>5 DEF TaskStart, TypeOK, RunRows
    <2>6. ASSUME NEW w \in Workers, NEW r \in Runs, TaskSucceeds(w, r) PROVE FALSE
      <3>1. Engaged(task[w][r]) /\ job.run = r
        BY <2>6 DEF TaskSucceeds, TakesAi2Result, Engaged
      <3>2. job.status = "extracted"
        BY <3>1 DEF Agreed, EngagedIsExtracted
      <3> QED
        BY <3>2
    <2>7. ASSUME NEW r \in Runs, NEW b, CreateRun(r, b)
          PROVE  runs'[q].result = runs[q].result
      BY <2>7, CreateRunIsNew DEF FreshIsBlank
    <2> QED
      BY <2>1, <2>2, <2>3, <2>4, <2>5, <2>6, <2>7, QuietOrTelling DEF Telling
  <1> QED
    BY <1>1, LifecycleIntegrityHolds, PTL DEF Spec, FailedJobTakesNoResult
-----------------------------------------------------------------------------
(* The refinement of JobLifecycle, step by step: what a step does to the job *)
(* is one of the lifecycle's actions or nothing.                             *)
NoRowAppears ==
  \A r \in Runs :
    /\ runs'[r].status = "absent" <=> runs[r].status = "absent"
    /\ runs'[r].result = runs[r].result

FollowsStep == [Lifecycle!Next]_(Lifecycle!vars)

LEMMA NothingForTheJob ==
  ASSUME NoRowAppears, job' = job
  PROVE  FollowsStep
  BY DEF NoRowAppears, FollowsStep, Lifecycle!vars, Absent

LEMMA AlongTheLifecycle ==
  ASSUME TypeOK, NoRowAppears, job'.run = job.run, job.run # NoRun,
         \/ job'.status = job.status
         \/ job.status = "uploaded" /\ job'.status = "processing"
         \/ job.status = "processing" /\ job'.status = "extracted"
         \/ job.status \in InPipeline /\ job'.status = "failed"
         \/ job.status = "failed" /\ job'.status = "extracted" /\ runs[job.run].result = 0
         \/ job.status = "pending_review" /\ job'.status = "reviewed"
         \/ job.status \in {"pending_review", "reviewed"} /\ job'.status = "approved"
  PROVE  FollowsStep
  <1>1. (Runs \ Absent)' = Runs \ Absent
    BY DEF NoRowAppears, Absent
  <1>2. {r \in Runs : runs[r].result # 0}' = {r \in Runs : runs[r].result # 0}
    BY DEF NoRowAppears
  <1>3. runs[job.run].result = 0 => job.run \notin {r \in Runs : runs[r].result # 0}
    OBVIOUS
  <1> QED
    BY <1>1, <1>2, <1>3
    DEF FollowsStep, InPipeline, Lifecycle!vars, Lifecycle!Next, Lifecycle!Step, Lifecycle!Begin,
        Lifecycle!Extract, Lifecycle!Fail, Lifecycle!Reopen, Lifecycle!Review, Lifecycle!Approve

LEMMA ToANewRun ==
  ASSUME TypeOK, NEW r \in Runs, runs[r].status = "absent", job'.run = r,
         runs'[r].status # "absent", runs'[r].result = runs[r].result,
         \A q \in Runs \ {r} :
           /\ runs'[q].status = "absent" <=> runs[q].status = "absent"
           /\ runs'[q].result = runs[q].result,
         \/ job'.status = "uploaded"
         \/ job'.status = "processing" /\ job.status # "approved"
  PROVE  FollowsStep
  <1>1. /\ r \in Runs \ (Runs \ Absent)
        /\ (Runs \ Absent)' = (Runs \ Absent) \cup {r}
    BY DEF Absent
  <1>2. {q \in Runs : runs[q].result # 0}' = {q \in Runs : runs[q].result # 0}
    OBVIOUS
  <1> QED
    BY <1>1, <1>2
    DEF FollowsStep, Lifecycle!Next, Lifecycle!NewRun, Lifecycle!Queue, Lifecycle!Open

LEMMA StatusAlone ==
  ASSUME RunIntegrity, NEW r \in Runs, NEW s, s # "absent", runs[r].status # "absent",
         runs' = [runs EXCEPT ![r].status = s]
  PROVE  NoRowAppears
  BY DEF NoRowAppears, RunIntegrity, TypeOK, RunRows

LEMMA FollowsByFailure ==
  ASSUME RunIntegrity, NEW r \in Runs, NEW e, job.run = r, job.status \in InPipeline,
         FailJob(e), runs' = [runs EXCEPT ![r].status = "failed"]
  PROVE  FollowsStep
  <1>1. runs[r].status # "absent" /\ r # NoRun
    BY RunsAssumption DEF RunIntegrity, CurrentRunExists
  <1>2. NoRowAppears
    BY <1>1, StatusAlone
  <1> QED
    BY <1>1, <1>2, FailJobDoes, AlongTheLifecycle DEF RunIntegrity

LEMMA CreateRunFollows ==
  ASSUME RunIntegrity, NEW r \in Runs, NEW b, CreateRun(r, b)
  PROVE  FollowsStep
  <1>1. runs[r].result = 0
    BY CreateRunIsNew DEF RunIntegrity, FreshIsBlank
  <1> QED
    BY <1>1, CreateRunIsNew, ToANewRun DEF RunIntegrity

LEMMA CommitFollows ==
  ASSUME Undisputed, LifecycleIntegrity, NEW p \in pending, Commit(p)
  PROVE  FollowsStep
  <1> USE DEF LifecycleIntegrity, RunIntegrity
  <1>1. Decided(p) /\ p.kind # "cancel"
    BY DEF DecidedHolds, Decided, Undisputed
  <1>2. p.kind \in {"timeout", "carried", "reopen"} =>
          job.run = p.run /\ p.run \in Runs /\ p.run # NoRun /\ runs[p.run].status # "absent"
    BY <1>1, RunsAssumption DEF Decided, MayReopen, Grounded, TypeOK, Jobs, CurrentRunExists
  <1>3. CASE CommitTimeout(p)
    BY <1>1, <1>2, <1>3, FollowsByFailure DEF CommitTimeout, Decided, InPipeline
  <1>4. CASE CommitReopen(p)
    <2>1. /\ job.status = "failed" /\ job'.status = "extracted" /\ job'.run = job.run
          /\ job.run # NoRun
      BY <1>1, <1>2, <1>4 DEF CommitReopen, Decided, MayReopen, Move, TypeOK, Jobs
    <2>2. runs[job.run].result = 0
      BY <2>1 DEF Agreed, NoResultYet, InReview
    <2>3. NoRowAppears
      BY <1>2, <1>4 DEF CommitReopen, NoRowAppears, TypeOK, RunRows
    <2> QED
      BY <2>1, <2>2, <2>3, AlongTheLifecycle
  <1>5. CASE CommitCarried(p)
    <2>1. job.status # "uploaded"
      BY <1>2, <1>5 DEF CommitCarried, NotCommanded, Unstarted, Commanded
    <2>2. job.status \in {"processing", "extracted"}
      <3>1. TransitionAllowed(job.status, "extracted")
        BY <1>1, <1>5 DEF CommitCarried, Decided
      <3> QED
        BY <2>1, <3>1 DEF TransitionAllowed, Rank
    <2>3. job'.run = job.run /\ job.run # NoRun /\ job'.status = "extracted" /\ NoRowAppears
      BY <1>2, <1>5 DEF CommitCarried, NoRowAppears, Move, TypeOK, Jobs
    <2> QED
      BY <2>2, <2>3, AlongTheLifecycle
  <1>6. CASE CommitTrigger(p)
    BY <1>6, CreateRunFollows DEF CommitTrigger
  <1> QED
    BY <1>1, <1>3, <1>4, <1>5, <1>6 DEF Commit, CommitCancel

LEMMA OpenRunFollows ==
  ASSUME RunIntegrity, NEW w \in Workers, NEW ev \in events, NEW r \in Runs, OpenRun(w, ev, r)
  PROVE  FollowsStep
  <1> USE DEF RunIntegrity
  <1>1. runs[r].status = "absent" /\ runs[r].result = 0 /\ runs'[r].result = 0
        /\ runs'[r].status = "running" /\ job'.run = r /\ job'.status = "processing"
    BY OpenRunIsNew DEF FreshIsBlank
  <1>2. job.status # "approved"
    BY DEF OpenRun, Refused
  <1>3. ASSUME NEW q \in Runs \ {r}
        PROVE  /\ runs'[q].status = "absent" <=> runs[q].status = "absent"
               /\ runs'[q].result = runs[q].result
    <2>1. Superseded(job.run) \in [Runs -> RunRows]
      BY RunStatusType DEF Superseded, TypeOK, RunStatuses
    <2>2. runs'[q] = Superseded(job.run)[q]
      BY <2>1, OpenRunIsNew
    <2>3. Superseded(job.run)[q].status = "absent" <=> runs[q].status = "absent"
      BY DEF Superseded, Active, TypeOK, RunRows
    <2> QED
      BY <2>2, <2>3, OpenRunIsNew
  <1> QED
    BY <1>1, <1>2, <1>3, ToANewRun

LEMMA ActingFollows ==
  ASSUME Undisputed, LifecycleIntegrity, Acting
  PROVE  FollowsStep
  <1> USE DEF LifecycleIntegrity, RunIntegrity
  <1>1. ASSUME NEW w \in Workers, NEW ev \in events, ResumeRun(w, ev) PROVE FollowsStep
    <2>1. /\ job.run \in Runs /\ job.run # NoRun /\ runs[job.run].status # "absent"
          /\ job.status \in {"uploaded", "processing"}
      BY <1>1 DEF ResumeRun, Resumes, Refused, Active, TypeOK, Jobs
    <2>2. job'.run = job.run /\ job'.status = "processing"
      BY <1>1 DEF ResumeRun, Move, TypeOK, Jobs
    <2>3. NoRowAppears
      BY <1>1, <2>1 DEF ResumeRun, NoRowAppears, TypeOK, RunRows
    <2> QED
      BY <2>1, <2>2, <2>3, AlongTheLifecycle
  <1>2. ASSUME NEW w \in Workers, NEW ev \in events, NEW r \in Runs, OpenRun(w, ev, r)
        PROVE  FollowsStep
    BY <1>2, OpenRunFollows
  <1>3. ASSUME NEW w \in Workers, NEW m \in results, FailAi1Run(w, m) PROVE FollowsStep
    <2>1. job.run = m.run /\ m.run \in Runs /\ job.status \in InPipeline
      BY <1>3 DEF FailAi1Run, FailsRun, TransitionAllowed, Rank, InPipeline, TypeOK, Results
    <2> QED
      BY <1>3, <2>1, FollowsByFailure DEF FailAi1Run
  (* No result of a run arrives before the run has taken the job out of      *)
  (* UPLOADED.                                                               *)
  <1>4. ASSUME NEW w \in Workers, NEW m \in results, RecordAi1Result(w, m) PROVE FollowsStep
    <2>1. NoRowAppears
      BY <1>4 DEF RecordAi1Result, NoRowAppears, TypeOK, RunRows
    <2>2. job.run = m.run /\ m.run \in Runs
      BY <1>4 DEF RecordAi1Result, KeepsResult, TypeOK, Results
    <2>3. job.status # "uploaded"
      BY <2>2 DEF NotCommanded, Unstarted, Commanded
    <2>4. CASE job' = job
      BY <2>1, <2>4, NothingForTheJob
    <2>5. CASE job' # job
      <3>1. /\ TransitionAllowed(job.status, "extracted")
            /\ job'.run = job.run /\ job'.status \in {"extracted", "processing"}
            /\ TransitionAllowed(job.status, job'.status)
        BY <1>4, <2>5 DEF RecordAi1Result, KeepsResult, Late, Move, AfterResult, TypeOK, Jobs
      <3>2. /\ job.status \in {"processing", "extracted"}
            /\ job.status = "extracted" => job'.status = "extracted"
        BY <2>3, <3>1 DEF TransitionAllowed, Rank
      <3> QED
        BY <2>1, <2>2, <3>1, <3>2, RunsAssumption, AlongTheLifecycle
    <2> QED
      BY <2>4, <2>5
  <1>5. ASSUME NEW w \in Workers, NEW r \in Runs, TaskStart(w, r) PROVE FollowsStep
    <2>1. job' = job /\ job.run = r
      BY <1>5 DEF TaskStart, ReadyForAi2
    <2>2. NoRowAppears
      BY <1>5, <2>1, StatusAlone, RunsAssumption DEF TaskStart, CurrentRunExists
    <2> QED
      BY <2>1, <2>2, NothingForTheJob
  <1>6. ASSUME NEW w \in Workers, NEW r \in Runs, TaskFreeze(w, r) PROVE FollowsStep
    <2>1. runs[r].status # "absent"
      BY <1>6 DEF TaskFreeze, Engaged, FreshIsBlank
    <2> QED
      BY <1>6, <2>1, StatusAlone, NothingForTheJob DEF TaskFreeze
  <1>7. ASSUME NEW w \in Workers, NEW r \in Runs, TaskSucceeds(w, r) PROVE FollowsStep
    <2>1. /\ Engaged(task[w][r]) /\ job.run = r /\ r # NoRun
          /\ job'.run = r /\ job'.status = "pending_review"
      BY <1>7, RunsAssumption
      DEF TaskSucceeds, TakesAi2Result, Engaged, Move, TypeOK, Jobs
    <2>2. job.status = "extracted" /\ runs[r].result = 0 /\ runs[r].status # "absent"
      BY <2>1 DEF Agreed, EngagedIsExtracted, CurrentRunExists
    <2>3. \A q \in Runs :
            /\ runs'[q].status = IF q = r THEN "succeeded" ELSE runs[q].status
            /\ runs'[q].result = IF q = r THEN task[w][r].attempt ELSE runs[q].result
      BY <1>7 DEF TaskSucceeds, TypeOK, RunRows
    <2>4. task[w][r].attempt # 0
      BY <2>1 DEF EngagedIsWhole
    <2>5. (Runs \ Absent)' = Runs \ Absent
      BY <2>2, <2>3 DEF Absent
    <2>6. {q \in Runs : runs[q].result # 0}' = {q \in Runs : runs[q].result # 0} \cup {r}
      BY <2>3, <2>4
    <2>7. r \notin {q \in Runs : runs[q].result # 0}
      BY <2>2
    <2> QED
      BY <2>1, <2>2, <2>5, <2>6, <2>7
      DEF FollowsStep, Lifecycle!Next, Lifecycle!Deliver, Lifecycle!Step
  <1>8. ASSUME NEW w \in Workers, NEW r \in Runs, TaskBlocked(w, r) \/ TaskFails(w, r)
        PROVE  FollowsStep
    <2>1. Engaged(task[w][r])
      BY <1>8 DEF TaskBlocked, TaskFails, Engaged
    <2>2. CASE UNCHANGED <<job, runs>>
      BY <2>2, NothingForTheJob DEF NoRowAppears
    <2>3. CASE job.run = r /\ runs' = [runs EXCEPT ![r].status = "failed"] /\ \E e : FailJob(e)
      BY <2>1, <2>3, FollowsByFailure DEF Agreed, EngagedIsExtracted, InPipeline
    <2> QED
      BY <1>8, <2>2, <2>3 DEF TaskBlocked, TaskFails, EndByFailure
  <1>9. ASSUME NEW r \in Runs, DispatchFails(r) PROVE FollowsStep
    BY <1>9, StatusAlone, NothingForTheJob DEF DispatchFails, DispatchedExist
  <1>10. ASSUME NEW r \in Runs, Reprocess(r) PROVE FollowsStep
    BY <1>10, CreateRunFollows DEF Reprocess
  <1>11. ASSUME CloseLastReviewItem \/ Approve PROVE FollowsStep
    <2>1. NoRowAppears
      BY <1>11 DEF CloseLastReviewItem, Approve, NoRowAppears
    <2>2. CASE job' = job
      BY <2>1, <2>2, NothingForTheJob
    <2>3. CASE job' # job
      <3>1. /\ job'.run = job.run
            /\ \/ job.status = "pending_review" /\ job'.status = "reviewed"
               \/ job.status \in {"pending_review", "reviewed"} /\ job'.status = "approved"
        BY <1>11, <2>3 DEF CloseLastReviewItem, Approve, Advance, TypeOK, Jobs
      <3>2. job.run # NoRun
        BY <3>1 DEF Grounded
      <3> QED
        BY <2>1, <3>1, <3>2, AlongTheLifecycle
    <2> QED
      BY <2>2, <2>3
  <1> QED
    BY <1>1, <1>2, <1>3, <1>4, <1>5, <1>6, <1>7, <1>8, <1>9, <1>10, <1>11 DEF Acting

(* The job goes through its states as JobLifecycle says: forward along each  *)
(* run, an AI2 result with the step into review, back only to a new run or,  *)
(* with the same OCR, for a failed AI2 step.                                 *)
THEOREM JobFollowsLifecycle == Undisputed => (Spec => FollowsLifecycle)
  <1> SUFFICES ASSUME Undisputed PROVE Spec => FollowsLifecycle
    OBVIOUS
  <1>1. Init => Lifecycle!Init
    BY DEF Init, Lifecycle!Init, Absent, AbsentRun, NewRun
  <1>2. LifecycleIntegrity /\ [Next]_vars => FollowsStep
    <2> SUFFICES ASSUME LifecycleIntegrity, [Next]_vars PROVE FollowsStep
      OBVIOUS
    <2>1. ASSUME UNCHANGED <<job, runs>> PROVE FollowsStep
      BY <2>1, NothingForTheJob DEF NoRowAppears
    <2> QED
      BY <2>1, CommitFollows, ActingFollows, BystanderOrActing
      DEF Next, Bystander, vars, LifecycleIntegrity, RunIntegrity
  <1> QED
    BY <1>1, <1>2, LifecycleIntegrityHolds, PTL
    DEF Spec, FollowsLifecycle, FollowsStep, Lifecycle!Spec
-----------------------------------------------------------------------------
(* A hand-off is on the run of the job, and that run is running.             *)
EngagedIsRunning ==
  \A w \in Workers, r \in Runs :
    Engaged(task[w][r]) => job.run = r /\ runs[r].status = "running"

Single == EngagedIsRunning /\ ActiveRunIsCurrent

LEMMA SingleOnRun ==
  ASSUME Single, TasksKept, job'.run = job.run,
         \A r \in Runs : runs'[r].status \in {"queued", "running"} => Active(r) \/ r = job.run,
         \A w \in Workers, r \in Runs : Engaged(task'[w][r]) => runs'[r].status = "running"
  PROVE  Single'
  BY DEF Single, EngagedIsRunning, ActiveRunIsCurrent, Active, TasksKept

LEMMA SingleSameStatus ==
  ASSUME Single, TasksKept, job'.run = job.run,
         \A r \in Runs : runs'[r].status = runs[r].status
  PROVE  Single'
  BY RunsAssumption DEF Single, EngagedIsRunning, ActiveRunIsCurrent, Active, TasksKept

(* One row changes its status, to an end or for the run of the job.          *)
LEMMA SingleStatus ==
  ASSUME TypeOK, Single, TasksKept, job'.run = job.run, NEW r \in Runs, NEW s,
         runs' = [runs EXCEPT ![r].status = s],
         s \in {"queued", "running"} => r = job.run,
         s = "running" \/ \A w \in Workers : ~Engaged(task'[w][r])
  PROVE  Single'
  <1>1. \A q \in Runs : runs'[q].status = IF q = r THEN s ELSE runs[q].status
    BY DEF TypeOK, RunRows
  <1>2. \A q \in Runs : runs'[q].status \in {"queued", "running"} => Active(q) \/ q = job.run
    BY <1>1, RunsAssumption DEF Active
  <1>3. \A w \in Workers, q \in Runs : Engaged(task'[w][q]) => runs'[q].status = "running"
    BY <1>1 DEF Single, EngagedIsRunning, TasksKept
  <1> QED
    BY <1>2, <1>3, SingleOnRun

(* A new run while nothing is active, or that ends what is.                  *)
LEMMA SingleOnNewRun ==
  ASSUME NEW r \in Runs, job'.run = r,
         \A w \in Workers, q \in Runs : ~Engaged(task'[w][q]),
         \A q \in Runs \ {r} : runs'[q].status \notin {"queued", "running"}
  PROVE  Single'
  BY DEF Single, EngagedIsRunning, ActiveRunIsCurrent, Active

LEMMA CreateRunSingle ==
  ASSUME TypeOK, Single, ~AnyActive, NEW r \in Runs, NEW b, CreateRun(r, b), task' = task
  PROVE  Single'
  <1>1. \A w \in Workers, q \in Runs : ~Engaged(task'[w][q])
    BY RunsAssumption DEF AnyActive, Active, Single, EngagedIsRunning
  <1>2. \A q \in Runs \ {r} : runs'[q].status \notin {"queued", "running"}
    BY CreateRunIsNew, RunsAssumption DEF AnyActive, Active
  <1> QED
    BY <1>1, <1>2, CreateRunIsNew, SingleOnNewRun

LEMMA NobodyEngaged ==
  ASSUME LifecycleIntegrity, Single, job.status # "extracted"
  PROVE  \A w \in Workers, r \in Runs : ~Engaged(task[w][r])
  BY DEF LifecycleIntegrity, Agreed, EngagedIsExtracted, Single, EngagedIsRunning

LEMMA SingleByCommit ==
  ASSUME Undisputed, LifecycleIntegrity, Single, NEW p \in pending, Commit(p)
  PROVE  Single'
  <1> USE DEF LifecycleIntegrity, RunIntegrity
  <1>1. Decided(p) /\ p.kind # "cancel"
    BY DEF DecidedHolds, Decided, Undisputed
  <1>2. p.kind \in {"timeout", "carried", "reopen"} => job.run = p.run /\ p.run \in Runs
    BY <1>1 DEF Decided, MayReopen, Grounded, TypeOK, Jobs
  <1>3. CASE CommitTimeout(p)
    <2>1. \A w \in Workers, r \in Runs : ~Engaged(task'[w][r])
      BY <1>1, <1>3, NobodyEngaged DEF CommitTimeout, Decided
    <2>2. TasksKept /\ job'.run = job.run
      BY <1>3, FailJobDoes DEF CommitTimeout, TasksKept
    <2> QED
      BY <1>2, <1>3, <2>1, <2>2, SingleStatus DEF CommitTimeout
  <1>4. CASE CommitReopen(p)
    <2>1. TasksKept
      BY <1>4, ScheduleKept DEF CommitReopen, TypeOK
    <2>2. job'.run = job.run
      BY <1>4 DEF CommitReopen, Move, TypeOK, Jobs
    <2>3. \A r \in Runs : runs'[r].status = IF r = p.run THEN "running" ELSE runs[r].status
      BY <1>4 DEF CommitReopen, TypeOK, RunRows
    <2>4. \A r \in Runs : runs'[r].status \in {"queued", "running"} => Active(r) \/ r = job.run
      BY <1>2, <1>4, <2>3, RunsAssumption DEF CommitReopen, Active
    <2>5. \A w \in Workers, r \in Runs : Engaged(task'[w][r]) => runs'[r].status = "running"
      BY <2>1, <2>3 DEF TasksKept, Single, EngagedIsRunning
    <2> QED
      BY <2>1, <2>2, <2>4, <2>5, SingleOnRun
  <1>5. CASE CommitCarried(p)
    <2>1. TasksKept
      BY <1>5, ScheduleKept DEF CommitCarried, TypeOK
    <2>2. job'.run = job.run /\ runs' = runs
      BY <1>5 DEF CommitCarried, Move, TypeOK, Jobs
    <2> QED
      BY <2>1, <2>2, SingleSameStatus
  <1>6. CASE CommitTrigger(p)
    BY <1>1, <1>6, CreateRunSingle DEF CommitTrigger, Decided
  <1> QED
    BY <1>1, <1>3, <1>4, <1>5, <1>6 DEF Commit, CommitCancel

LEMMA SingleByActing ==
  ASSUME Undisputed, "dispatch" \notin Faults, LifecycleIntegrity, Single, Acting
  PROVE  Single'
  <1> USE DEF LifecycleIntegrity, RunIntegrity
  <1>1. ASSUME NEW w \in Workers, NEW ev \in events, ResumeRun(w, ev) PROVE Single'
    <2>1. job.run \in Runs
      BY <1>1 DEF ResumeRun, Resumes, Active, TypeOK, Jobs
    <2>2. TasksKept /\ job'.run = job.run
      BY <1>1 DEF ResumeRun, Move, TasksKept, TypeOK, Jobs
    <2>3. \A r \in Runs : runs'[r].status = IF r = job.run THEN "running" ELSE runs[r].status
      BY <1>1, <2>1 DEF ResumeRun, TypeOK, RunRows
    <2>4. \A r \in Runs : runs'[r].status \in {"queued", "running"} => Active(r) \/ r = job.run
      BY <2>3, RunsAssumption DEF Active
    <2>5. \A v \in Workers, r \in Runs : Engaged(task'[v][r]) => runs'[r].status = "running"
      BY <2>2, <2>3 DEF TasksKept, Single, EngagedIsRunning
    <2> QED
      BY <2>2, <2>4, <2>5, SingleOnRun
  (* The superseded run is cancelled and this worker forgets its hand-off.   *)
  <1>2. ASSUME NEW w \in Workers, NEW ev \in events, NEW r \in Runs, OpenRun(w, ev, r) PROVE Single'
    <2>1. TasksKept /\ job'.run = r
      BY <1>2, OpenRunIsNew
    <2>2. ASSUME NEW v \in Workers, NEW q \in Runs, Engaged(task'[v][q]) PROVE FALSE
      <3>1. q = job.run /\ v = w
        BY <2>1, <2>2 DEF TasksKept, Single, EngagedIsRunning, Undisputed, OneWorker
      <3>2. task'[w][q] = NoTask
        BY <1>2, <3>1, RunsAssumption DEF OpenRun, TypeOK
      <3> QED
        BY <2>2, <3>1, <3>2 DEF NoTask, Engaged
    <2>3. ASSUME NEW q \in Runs \ {r} PROVE runs'[q].status \notin {"queued", "running"}
      <3>1. Superseded(job.run) \in [Runs -> RunRows]
        BY RunStatusType DEF Superseded, TypeOK, RunStatuses
      <3>2. runs'[q] = Superseded(job.run)[q]
        BY <1>2, <3>1, OpenRunIsNew
      <3>3. CASE q = job.run
        BY <3>2, <3>3, RunsAssumption DEF Superseded, Active, TypeOK, RunRows
      <3>4. CASE q # job.run
        <4>1. runs'[q].status = runs[q].status
          BY <3>2, <3>4 DEF Superseded, TypeOK
        <4> QED
          BY <3>4, <4>1, RunsAssumption DEF Single, ActiveRunIsCurrent, Active
      <3> QED
        BY <3>3, <3>4
    <2> QED
      BY <2>1, <2>2, <2>3, SingleOnNewRun
  <1>3. ASSUME NEW w \in Workers, NEW m \in results, FailAi1Run(w, m) PROVE Single'
    <2>1. m.run \in Runs /\ TasksKept /\ job'.run = job.run
      BY <1>3, FailJobDoes DEF FailAi1Run, TasksKept, TypeOK, Results
    <2>2. \A v \in Workers : ~Engaged(task'[v][m.run])
      BY <1>3, EngagedRunNotFailed DEF FailAi1Run
    <2>3. runs' = [runs EXCEPT ![m.run].status = "failed"]
      BY <1>3 DEF FailAi1Run
    <2>4. "failed" \notin {"queued", "running"}
      OBVIOUS
    <2> QED
      BY <2>1, <2>2, <2>3, <2>4, SingleStatus
  <1>4. ASSUME NEW w \in Workers, NEW m \in results, RecordAi1Result(w, m) PROVE Single'
    <2>1. TasksKept
      BY <1>4, ScheduleKept DEF RecordAi1Result, TypeOK, TasksKept
    <2>2. job'.run = job.run
      BY <1>4 DEF RecordAi1Result, Move, AfterResult, TypeOK, Jobs
    <2>3. \A r \in Runs : runs'[r].status = runs[r].status
      BY <1>4 DEF RecordAi1Result, TypeOK, RunRows
    <2> QED
      BY <2>1, <2>2, <2>3, SingleSameStatus
  <1>5. ASSUME NEW w \in Workers, NEW r \in Runs, TaskStart(w, r) PROVE Single'
    <2>1. job' = job /\ job.run = r
      BY <1>5 DEF TaskStart, ReadyForAi2
    <2>2. \A q \in Runs : runs'[q].status = IF q = r THEN "running" ELSE runs[q].status
      BY <1>5 DEF TaskStart, TypeOK, RunRows
    <2>3. \A v \in Workers, q \in Runs : q # r => task'[v][q] = task[v][q]
      BY <1>5 DEF TaskStart, TypeOK
    <2> QED
      BY <2>1, <2>2, <2>3, RunsAssumption DEF Single, EngagedIsRunning, ActiveRunIsCurrent, Active
  <1>6. ASSUME NEW w \in Workers, NEW r \in Runs, TaskFreeze(w, r) PROVE Single'
    <2>1. TasksKept /\ job' = job
      BY <1>6 DEF TaskFreeze, TasksKept, Engaged, TypeOK, Tasks
    <2>2. r = job.run
      BY <1>6 DEF TaskFreeze, Engaged, Single, EngagedIsRunning
    <2> QED
      BY <1>6, <2>1, <2>2, SingleStatus DEF TaskFreeze
  <1>7. ASSUME NEW w \in Workers, NEW r \in Runs, TaskSucceeds(w, r) PROVE Single'
    <2>1. TasksKept /\ \A v \in Workers : ~Engaged(task'[v][r])
      BY <1>7, ClosingEnds, ClosingKept DEF TaskSucceeds, TypeOK, OneWorker, Undisputed
    <2>2. job'.run = job.run
      BY <1>7 DEF TaskSucceeds, Move, TypeOK, Jobs
    <2>3. \A q \in Runs : runs'[q].status = IF q = r THEN "succeeded" ELSE runs[q].status
      BY <1>7 DEF TaskSucceeds, TypeOK, RunRows
    <2>4. \A q \in Runs : runs'[q].status \in {"queued", "running"} => Active(q) \/ q = job.run
      BY <2>3, RunsAssumption DEF Active
    <2>5. \A v \in Workers, q \in Runs : Engaged(task'[v][q]) => runs'[q].status = "running"
      BY <2>1, <2>3 DEF TasksKept, Single, EngagedIsRunning
    <2> QED
      BY <2>1, <2>2, <2>4, <2>5, SingleOnRun
  <1>8. ASSUME NEW w \in Workers, NEW r \in Runs, TaskBlocked(w, r) \/ TaskFails(w, r) PROVE Single'
    <2>1. TasksKept /\ \A v \in Workers : ~Engaged(task'[v][r])
      BY <1>8, ClosingEnds, ClosingKept DEF TaskBlocked, TaskFails, TypeOK, OneWorker, Undisputed
    <2>2. CASE UNCHANGED <<job, runs>>
      BY <2>1, <2>2, SingleSameStatus
    <2>3. CASE runs' = [runs EXCEPT ![r].status = "failed"] /\ \E e : FailJob(e)
      BY <2>1, <2>3, FailJobDoes, SingleStatus
    <2> QED
      BY <1>8, <2>2, <2>3 DEF TaskBlocked, TaskFails, EndByFailure
  <1>9. ASSUME NEW r \in Runs, Reprocess(r) PROVE Single'
    BY <1>9, CreateRunSingle DEF Reprocess, Reprocessable
  <1>10. ASSUME CloseLastReviewItem \/ Approve PROVE Single'
    <2>1. TasksKept /\ runs' = runs
      BY <1>10 DEF CloseLastReviewItem, Approve, TasksKept
    <2>2. job'.run = job.run
      BY <1>10 DEF CloseLastReviewItem, Approve, Advance, TypeOK, Jobs
    <2> QED
      BY <2>1, <2>2, SingleSameStatus
  <1> QED
    BY <1>1, <1>2, <1>3, <1>4, <1>5, <1>6, <1>7, <1>8, <1>9, <1>10 DEF Acting, DispatchFails

(* At most one run is active, the one the job points at, if besides the      *)
(* publication of a queued run does not fail: closing that run may find the  *)
(* worker's hand-off of it between its two commits, and be undone.           *)
THEOREM OneActiveRun ==
  Undisputed /\ "dispatch" \notin Faults => (Spec => []ActiveRunIsCurrent)
  <1> SUFFICES ASSUME Undisputed, "dispatch" \notin Faults PROVE Spec => []ActiveRunIsCurrent
    OBVIOUS
  <1>1. Init => Single
    BY DEF Init, Single, EngagedIsRunning, ActiveRunIsCurrent, Active, Engaged, NoTask,
       AbsentRun, NewRun
  <1>2. LifecycleIntegrity /\ Single /\ [Next]_vars => Single'
    <2> SUFFICES ASSUME LifecycleIntegrity, Single, [Next]_vars PROVE Single'
      OBVIOUS
    <2>1. ASSUME UNCHANGED <<job, runs>>, TasksKept PROVE Single'
      BY <2>1, SingleSameStatus
    <2>2. UNCHANGED vars => UNCHANGED <<job, runs>> /\ TasksKept
      BY DEF vars, TasksKept
    <2> QED
      BY <2>1, <2>2, SingleByCommit, SingleByActing, BystanderOrActing
      DEF Next, Bystander, LifecycleIntegrity, RunIntegrity
  <1>3. Single => ActiveRunIsCurrent
    BY DEF Single
  <1> QED
    BY <1>1, <1>2, <1>3, LifecycleIntegrityHolds, PTL DEF Spec
-----------------------------------------------------------------------------
(* The OCR commands of the run in processing are out, or a handler is about  *)
(* to publish them.                                                          *)
CommandsOwed ==
  \E w \in Workers : hand[w].pc = "dispatch" /\ hand[w].run = job.run

CommandsOut == \A d \in Missing(job.run) : ocr[job.run][d] # "none"

ProcessingIsCommanded == job.status = "processing" => CommandsOwed \/ CommandsOut

CommandIntegrity ==
  RunIntegrity /\ HandHeld /\ Grounded /\ NotCommanded /\ ProcessingIsCommanded

LEMMA CommandsStay ==
  ASSUME TypeOK, [Next]_vars, NEW r \in Runs, NEW d \in Docs, ocr[r][d] # "none"
  PROVE  ocr'[r][d] # "none"
  <1>1. ASSUME NEW q \in Runs, NEW e \in Docs, Ai1Answers(q, e) \/ Ai1Garbles(q, e)
        PROVE  ocr'[r][d] # "none"
    BY <1>1 DEF Ai1Answers, Ai1Garbles, Ai1Sends, TypeOK
  <1> QED
    BY <1>1, Ai1Step DEF AtAi1

LEMMA StillProcessing ==
  ASSUME TypeOK, NotCommanded, [Next]_vars, job'.status = "processing"
  PROVE  \/ \E w \in Workers, ev \in events :
              ResumeRun(w, ev) \/ \E r \in Runs : OpenRun(w, ev, r)
         \/ /\ job.status = "processing" /\ job'.run = job.run
            /\ \A r \in Runs : runs[r].extracted \subseteq runs'[r].extracted
  <1> DEFINE Goes == /\ job.status = "processing" /\ job'.run = job.run
                     /\ \A r \in Runs : runs[r].extracted \subseteq runs'[r].extracted
  <1>1. ASSUME NEW e, FailJob(e) PROVE FALSE
    BY <1>1, FailJobDoes
  <1>2. ASSUME NEW r \in Runs, NEW b, CreateRun(r, b) PROVE FALSE
    BY <1>2 DEF CreateRun
  <1>3. ASSUME NEW p \in pending, Commit(p) PROVE Goes
    <2>1. ASSUME CommitReopen(p) \/ CommitCarried(p) PROVE FALSE
      BY <2>1 DEF CommitReopen, CommitCarried, Move, TypeOK, Jobs
    <2>2. ASSUME CommitCancel(p) PROVE Goes
      <3>1. job' = job
        BY <1>1, <2>2 DEF CommitCancel
      <3> QED
        BY <2>2, <3>1 DEF CommitCancel, TypeOK, RunRows
    <2> QED
      BY <1>1, <1>2, <1>3, <2>1, <2>2 DEF Commit, CommitTimeout, CommitTrigger
  <1>4. ASSUME NEW w \in Workers, NEW m \in results, RecordAi1Result(w, m) PROVE Goes
    <2>1. m \in results /\ m.run = job.run
      BY <1>4 DEF RecordAi1Result, ReceivesResult, KeepsResult
    <2>2. job.status # "uploaded"
      BY <2>1 DEF TypeOK, Results, NotCommanded, Unstarted, Commanded
    <2>3. \/ job' = job
          \/ TransitionAllowed(job.status, "processing") /\ job'.run = job.run
      BY <1>4 DEF RecordAi1Result, AfterResult, Move, TypeOK, Jobs
    <2>4. TransitionAllowed(job.status, "processing") => job.status \in {"uploaded", "processing"}
      BY DEF TransitionAllowed, Rank
    <2>5. job.status = "processing" /\ job'.run = job.run
      BY <2>2, <2>3, <2>4
    <2> QED
      BY <1>4, <2>5 DEF RecordAi1Result, TypeOK, RunRows
  <1>5. ASSUME NEW w \in Workers, NEW r \in Runs, TaskStart(w, r) \/ TaskFreeze(w, r) PROVE Goes
    <2>1. job' = job /\ runs' = [runs EXCEPT ![r].status = "running"]
      BY <1>5 DEF TaskStart, TaskFreeze
    <2> QED
      BY <2>1 DEF TypeOK, RunRows
  <1>6. ASSUME NEW w \in Workers, NEW r \in Runs, TaskSucceeds(w, r) PROVE FALSE
    BY <1>6 DEF TaskSucceeds, Move, TypeOK, Jobs
  <1>7. ASSUME NEW w \in Workers, NEW r \in Runs, TaskBlocked(w, r) \/ TaskFails(w, r) PROVE Goes
    <2>1. UNCHANGED <<job, runs>>
      BY <1>1, <1>7 DEF TaskBlocked, TaskFails, EndByFailure
    <2> QED
      BY <2>1
  <1>8. ASSUME NEW r \in Runs, DispatchFails(r) PROVE Goes
    <2>1. job' = job /\ \A q \in Runs : runs'[q].extracted = runs[q].extracted
      BY <1>8 DEF DispatchFails, TypeOK, RunRows
    <2> QED
      BY <2>1
  <1>9. ASSUME CloseLastReviewItem \/ Approve PROVE Goes
    <2>1. runs' = runs /\ (job' = job \/ job'.status \in {"reviewed", "approved"})
      BY <1>9 DEF CloseLastReviewItem, Approve, Advance, TypeOK, Jobs
    <2> QED
      BY <2>1
  <1>10. ASSUME UNCHANGED <<job, runs>> PROVE Goes
    BY <1>10
  <1> QED
    BY <1>1, <1>2, <1>3, <1>4, <1>5, <1>6, <1>7, <1>8, <1>9, <1>10, BystanderOrActing
    DEF Bystander, Acting, FailAi1Run, Reprocess, Next, vars

LEMMA LeavesDispatch ==
  ASSUME TypeOK, Other, NEW v \in Workers, hand[v].pc = "dispatch"
  PROVE  \/ hand'[v] = hand[v]
         \/ PublishCommands(v) \/ CompleteCarriedRun(v) \/ HandlerFails(v) \/ Crash(v)
  <1> DEFINE Stays == hand'[v] = hand[v]
  <1>1. ASSUME NEW w \in Workers, NEW ev \in events,
               \/ IgnoreStart(w, ev) \/ ResumeRun(w, ev) \/ (\E r \in Runs : OpenRun(w, ev, r))
               \/ HandleAi2Retry(w, ev) \/ HandleManifestConfirmed(w, ev)
        PROVE  Stays
    <2>1. Receives(w, ev) /\ \E pc, r : Hold(w, ev, pc, r)
      BY <1>1 DEF IgnoreStart, ResumeRun, OpenRun, HandleAi2Retry, HandleManifestConfirmed
    <2> QED
      BY <2>1 DEF Receives, Hold, TypeOK
  <1>2. ASSUME NEW w \in Workers,
               \/ w # v /\ (PublishCommands(w) \/ CompleteCarriedRun(w) \/ HandlerFails(w))
               \/ AckEvent(w) \/ DeadLetter(w) \/ Start(w) \/ (w # v /\ Crash(w))
        PROVE  Stays
    BY <1>2 DEF PublishCommands, CompleteCarriedRun, HandlerFails, AckEvent, DeadLetter, Start,
       WorkerUp, Crash, TypeOK
  <1>3. ASSUME NEW w \in Workers, ConsumeResult(w) \/ Ai1Overdue(w) PROVE Stays
    BY <1>3 DEF ConsumeResult, DropAi1Result, FailAi1Run, DuplicateAi1Result,
       RecordAi1Result, AckResult, Ai1Overdue
  <1>4. ASSUME NEW w \in Workers, NEW r \in Runs, RunTask(w, r) \/ TaskForgets(w, r)
        PROVE  Stays
    BY <1>4 DEF RunTask, TaskStart, TaskNotReady, TaskFreeze, TaskSucceeds, TaskRefused,
       TaskBlocked, TaskFails, TaskDone, TaskForgets
  <1>5. ASSUME \/ \E r \in Runs : DispatchRun(r)
               \/ \E r \in Runs, d \in Docs : Ai1Answers(r, d)
               \/ Request
        PROVE  Stays
    BY <1>5 DEF DispatchRun, Ai1Answers, Ai1Sends, Request, Trigger, Reprocess, Cancel, Restart,
       RetryFailed, Ai2Retry, ConfirmManifest, CloseLastReviewItem, Approve
  <1>6. ASSUME \/ \E w \in Workers, r \in Runs : TaskDies(w, r)
               \/ \E r \in Runs : DispatchFails(r) \/ ApiDies(r)
               \/ \E r \in Runs, d \in Docs : Ai1Garbles(r, d)
        PROVE  Stays
    BY <1>6 DEF TaskDies, DispatchFails, ApiDies, Ai1Garbles, Ai1Sends
  <1> QED
    BY <1>1, <1>2, <1>3, <1>4, <1>5, <1>6 DEF Other, Fault, ConsumeEvent

LEMMA CommandedOnceProcessing ==
  ASSUME "handler" \notin Faults, "crash" \notin Faults, CommandIntegrity, [Next]_vars
  PROVE  ProcessingIsCommanded'
  <1> USE DEF CommandIntegrity, RunIntegrity
  <1> SUFFICES ASSUME job'.status = "processing" PROVE CommandsOwed' \/ CommandsOut'
    BY DEF ProcessingIsCommanded
  <1>1. ASSUME NEW w \in Workers, NEW ev \in events, ResumeRun(w, ev) PROVE CommandsOwed'
    <2>1. job'.run = job.run
      BY <1>1 DEF ResumeRun, Move, TypeOK, Jobs
    <2> QED
      BY <1>1, <2>1 DEF ResumeRun, Hold, TypeOK, CommandsOwed
  <1>2. ASSUME NEW w \in Workers, NEW ev \in events, NEW r \in Runs, OpenRun(w, ev, r)
        PROVE  CommandsOwed'
    BY <1>2 DEF OpenRun, Move, Hold, TypeOK, CommandsOwed
  <1>3. ASSUME job.status = "processing", job'.run = job.run,
               \A r \in Runs : runs[r].extracted \subseteq runs'[r].extracted
        PROVE  CommandsOwed' \/ CommandsOut'
    <2>1. job.run \in Runs
      BY <1>3 DEF Grounded, TypeOK, Jobs
    <2>2. CASE CommandsOut
      BY <1>3, <2>1, <2>2, CommandsStay DEF CommandsOut, Missing
    <2>3. ASSUME NEW w \in Workers, hand[w].pc = "dispatch", hand[w].run = job.run
          PROVE  CommandsOwed' \/ CommandsOut'
      <3>1. CASE hand'[w] = hand[w]
        BY <1>3, <2>3, <3>1 DEF CommandsOwed
      <3>2. CASE PublishCommands(w)
        <4>1. \A d \in Missing(job.run) : ocr'[job.run][d] = "sent"
          BY <2>1, <2>3, <3>2 DEF PublishCommands, CommandsSent, Missing, TypeOK
        <4> QED
          BY <1>3, <2>1, <4>1 DEF CommandsOut, Missing
      <3>3. CASE CompleteCarriedRun(w)
        BY <1>3, <2>1, <2>3, <3>3 DEF CompleteCarriedRun, CommandsOut, Missing
      <3>4. CASE Other
        BY <2>3, <3>1, <3>2, <3>3, <3>4, LeavesDispatch DEF HandlerFails, Crash
      <3>5. ASSUME NEW p \in pending, Commit(p) PROVE hand'[w] = hand[w]
        BY <2>3, <3>5 DEF Commit, CommitTimeout, CommitReopen, CommitCarried, CommitCancel,
           CommitTrigger, HandHeld, Handling, TypeOK
      <3>6. CASE UNCHANGED vars
        BY <3>1, <3>6 DEF vars
      <3> QED
        BY <3>1, <3>4, <3>5, <3>6 DEF Next
    <2> QED
      BY <1>3, <2>2, <2>3 DEF ProcessingIsCommanded, CommandsOwed
  <1> QED
    BY <1>1, <1>2, <1>3, StillProcessing

(* An event leaves when its worker has handled it or given it up.            *)
LEMMA EventsLeave ==
  ASSUME TypeOK, [Next]_vars, NEW ev \in events \ events'
  PROVE  \E w \in Workers : hand[w].pc \in {"ack", "retry"}
  <1>1. ASSUME NEW w \in Workers, ConsumeEvent(w) PROVE AckEvent(w)
    BY <1>1 DEF ConsumeEvent, IgnoreStart, ResumeRun, OpenRun, HandleAi2Retry,
       HandleManifestConfirmed, PublishCommands, CompleteCarriedRun
  <1>2. ASSUME NEW w \in Workers, ConsumeResult(w) \/ Ai1Overdue(w) \/ Start(w) PROVE FALSE
    BY <1>2 DEF ConsumeResult, DropAi1Result, FailAi1Run, DuplicateAi1Result,
       RecordAi1Result, AckResult, Ai1Overdue, Start
  <1>3. ASSUME NEW w \in Workers, NEW r \in Runs, RunTask(w, r) \/ TaskForgets(w, r) PROVE FALSE
    BY <1>3 DEF RunTask, TaskStart, TaskNotReady, TaskFreeze, TaskSucceeds, TaskRefused,
       TaskBlocked, TaskFails, TaskDone, TaskForgets
  <1>4. ASSUME \/ \E r \in Runs : DispatchRun(r)
               \/ \E r \in Runs, d \in Docs : Ai1Answers(r, d)
               \/ Request
        PROVE  FALSE
    BY <1>4 DEF DispatchRun, Ai1Answers, Ai1Sends, Request, Trigger, Reprocess, Cancel, Restart,
       RetryFailed, Ai2Retry, ConfirmManifest, CloseLastReviewItem, Approve, Publish
  <1>5. ASSUME \/ \E w \in Workers : HandlerFails(w) \/ Crash(w)
               \/ \E w \in Workers, r \in Runs : TaskDies(w, r)
               \/ \E r \in Runs : DispatchFails(r) \/ ApiDies(r)
               \/ \E r \in Runs, d \in Docs : Ai1Garbles(r, d)
        PROVE  FALSE
    BY <1>5 DEF HandlerFails, Crash, TaskDies, DispatchFails, ApiDies, Ai1Garbles, Ai1Sends
  <1>6. ASSUME NEW p \in pending, Commit(p) PROVE FALSE
    BY <1>6 DEF Commit, CommitTimeout, CommitReopen, CommitCarried, CommitCancel, CommitTrigger
  <1>7. ASSUME UNCHANGED vars PROVE FALSE
    BY <1>7 DEF vars
  <1> QED
    BY <1>1, <1>2, <1>3, <1>4, <1>5, <1>6, <1>7
    DEF Next, Other, Fault, AckEvent, DeadLetter

(* A run that a restart opened has its OCR commanded before the event is     *)
(* acknowledged, unless the handler fails or its worker dies after it has    *)
(* committed the run: those two faults are what the command is lost by, with *)
(* one worker, whatever the requests, the races and the other faults.        *)
THEOREM OpenedRunsAreCommanded ==
  ASSUME OneWorker, "handler" \notin Faults, "crash" \notin Faults
  PROVE  Spec => OpenedRunIsCommanded
  <1>1. Init => CommandIntegrity
    <2> SUFFICES ASSUME Init PROVE CommandIntegrity
      OBVIOUS
    <2>1. HandHeld /\ Grounded /\ ProcessingIsCommanded
      BY DEF Init, HandHeld, Grounded, IdleHand, ProcessingIsCommanded
    <2>2. NotCommanded
      BY RunsAssumption DEF Init, NotCommanded, Commanded, IdleHand
    <2> QED
      BY <2>1, <2>2, IntegrityInit DEF CommandIntegrity
  <1>2. CommandIntegrity /\ [Next]_vars => CommandIntegrity'
    BY IntegrityStep, HandHeldStep, GroundedStep, NotCommandedStep, CommandedOnceProcessing
    DEF CommandIntegrity, RunIntegrity
  <1> DEFINE Told ==
        \A ev \in events \ events' :
          Restarting(ev) /\ job.status = "processing" /\ job.run # ev.run =>
            \A d \in Missing(job.run) : ocr[job.run][d] # "none"
  <1>3. CommandIntegrity /\ [Next]_vars => [Told]_vars
    <2> SUFFICES ASSUME CommandIntegrity, [Next]_vars, NEW ev \in events \ events',
                        job.status = "processing"
                 PROVE  CommandsOut
      BY DEF CommandsOut
    <2>1. \E w \in Workers : hand[w].pc \in {"ack", "retry"}
      BY EventsLeave DEF CommandIntegrity, RunIntegrity
    <2>2. ~CommandsOwed
      BY <2>1 DEF OneWorker, CommandsOwed
    <2> QED
      BY <2>2 DEF CommandIntegrity, ProcessingIsCommanded
  <1> QED
    BY <1>1, <1>2, <1>3, PTL DEF Spec, OpenedRunIsCommanded
=============================================================================
