------------------------- MODULE Ai2JobStoreProofs -------------------------
(***************************************************************************)
(* What a job's row, the query snapshot and a tombstone keep, for any      *)
(* jobs, executors, orphans, sweeps and purges.  The conditions of the     *)
(* updates compare tokens; Tokens says what a token stands for: the row    *)
(* has one exactly while it runs, and it is that of the last claim.        *)
(***************************************************************************)
EXTENDS Ai2JobStore, TLAPS

Tokens ==
  /\ \A j \in Jobs : /\ status[j] = "RUNNING" => token[j] = claims[j] /\ claims[j] > 0
                     /\ status[j] # "RUNNING" => token[j] = 0
  /\ \A e \in Executors : task[e].at \in {"report", "running"} => task[e].token > 0

(* A purge under way has its tombstone; it records its end without files.    *)
Purging ==
  \A p \in Purgers :
    /\ purge[p].at # "idle" => tombstone[purge[p].dossier] # "none"
    /\ purge[p].at = "record" => purge[p].dossier \notin files

JobIntegrity ==
  TypeOK /\ Tokens /\ Purging /\ AnswerOfLastClaim /\ SnapshotIsLatest /\ NothingAfterPurge

FinishedStep == \A j \in Jobs : status[j] \in Finished => status'[j] \in {status[j], "gone"}
-----------------------------------------------------------------------------
LEMMA FreeType ==
  /\ Free \in [at : {"idle", "wait"} \cup InSlot, job : Jobs, token : Nat, orphan : BOOLEAN]
  /\ Free.at = "idle" /\ Free.token = 0
  /\ NoPurge \in [at : {"idle", "files", "record"}, dossier : Dossiers]
  /\ NoPurge.at = "idle"
  <1>1. (CHOOSE j \in Jobs : TRUE) \in Jobs /\ (CHOOSE d \in Dossiers : TRUE) \in Dossiers
    BY SetsAssumption
  <1> QED
    BY <1>1 DEF Free, NoPurge

LEMMA InitIntegrity == Init => JobIntegrity
  BY FreeType, DossierOfAssumption
  DEF Init, JobIntegrity, TypeOK, Tokens, Purging, AnswerOfLastClaim, SnapshotIsLatest,
      NothingAfterPurge, Pending, Finished

(* Steps that only move jobs which are pending, to pending or failed.        *)
LEMMA PendingMoves ==
  ASSUME JobIntegrity, TypeOK', Tokens',
         \A j \in Jobs : status'[j] # status[j] =>
           /\ status[j] \in {"none"} \cup Pending /\ status'[j] \in Pending \cup {"FAILED"}
           /\ status[j] = "none" => ~Fenced(DossierOf[j]),
         \A j \in Jobs : status[j] = "SUCCEEDED" => claims'[j] = claims[j] /\ born'[j] = born[j],
         UNCHANGED <<answer, snapshot, tombstone, files>>,
         \A d \in Dossiers : d \in vectors' => d \in vectors \/ ~Fenced(d),
         \A p \in Purgers : purge'[p] \in {purge[p], NoPurge}
  PROVE  JobIntegrity' /\ FinishedStep
  <1> USE DEF JobIntegrity
  <1>1. FinishedStep
    BY DEF FinishedStep, Pending, Finished
  <1>2. \A j \in Jobs : status'[j] = "SUCCEEDED" <=> status[j] = "SUCCEEDED"
    BY DEF Pending
  <1>3. AnswerOfLastClaim'
    BY <1>2 DEF AnswerOfLastClaim
  <1>4. SnapshotIsLatest'
    BY <1>2 DEF SnapshotIsLatest
  <1>5. Purging'
    BY FreeType DEF Purging
  <1>6. NothingAfterPurge'
    BY DEF NothingAfterPurge, Fenced, Pending
  <1> QED
    BY <1>1, <1>3, <1>4, <1>5, <1>6

(* Ending an executor.                                                       *)
LEMMA EndKeeps ==
  ASSUME TypeOK, NEW e \in Executors, End(e)
  PROVE  /\ task' \in [Executors -> [at : {"idle", "wait"} \cup InSlot, job : Jobs, token : Nat,
                                     orphan : BOOLEAN]]
         /\ held' \in SUBSET Jobs
         /\ \A x \in Executors : task'[x].at \in {"report", "running"} => task'[x] = task[x]
  BY FreeType DEF End, TypeOK

LEMMA SubmitStep ==
  ASSUME JobIntegrity, NEW e \in Executors, NEW j \in Jobs, Submit(j, e)
  PROVE  JobIntegrity' /\ FinishedStep
  <1> DEFINE new == [Free EXCEPT !.at = "wait", !.job = j]
  <1>1. TypeOK /\ status[j] \in {"none"} \cup Pending /\ ~Fenced(DossierOf[j])
    BY DEF Submit, JobIntegrity
  <1>2. new \in [at : {"idle", "wait"} \cup InSlot, job : Jobs, token : Nat, orphan : BOOLEAN]
        /\ new.at = "wait"
    BY FreeType
  <1>3. /\ task' = [task EXCEPT ![e] = new] /\ held' = held \cup {j} /\ submits' = submits + 1
        /\ UNCHANGED <<token, lapsed, claims, answer, content, sweep, purge, faults>>
    BY DEF Submit
  <1> HIDE DEF new
  <1>4. \/ status[j] = "none" /\ status' = [status EXCEPT ![j] = "QUEUED"]
           /\ born' = [born EXCEPT ![j] = submits + 1]
        \/ status' = status /\ born' = born
    BY DEF Submit
  <1>5. TypeOK'
    BY <1>1, <1>2, <1>3, <1>4 DEF TypeOK, content, Pending
  <1>6. Tokens'
    BY <1>1, <1>2, <1>3, <1>4 DEF JobIntegrity, Tokens, TypeOK
  <1> QED
    BY <1>1, <1>3, <1>4, <1>5, <1>6, PendingMoves DEF content, Pending, TypeOK

(* An executor moves and no job does.                                        *)
LEMMA TaskMoves ==
  ASSUME JobIntegrity, UNCHANGED <<jobs, content, sweep, submits>>, TypeOK', faults' \in Nat,
         \A x \in Executors : task'[x].at \in {"report", "running"} =>
           task[x].at \in {"report", "running"} /\ task'[x].token = task[x].token,
         \A p \in Purgers : purge'[p] \in {purge[p], NoPurge}
  PROVE  JobIntegrity' /\ FinishedStep
  <1>1. Tokens'
    BY DEF JobIntegrity, Tokens, jobs
  <1> QED
    BY <1>1, PendingMoves DEF jobs, content

LEMMA ExecutorSteps ==
  ASSUME JobIntegrity, NEW e \in Executors,
         Start(e) \/ SpawnFails(e) \/ Report(e) \/ Kill(e)
  PROVE  JobIntegrity' /\ FinishedStep
  <1> DEFINE Tasks == [at : {"idle", "wait"} \cup InSlot, job : Jobs, token : Nat, orphan : BOOLEAN]
  <1>1. TypeOK /\ task \in [Executors -> Tasks] /\ task[e] \in Tasks
    BY DEF JobIntegrity, TypeOK
  <1>2. UNCHANGED <<jobs, content, sweep, purge, submits>>
    BY DEF Start, SpawnFails, Report, Kill
  <1>3. CASE Start(e) \/ Report(e)
    <2>1. PICK step \in {"claim", "running"} :
            /\ task' = [task EXCEPT ![e].at = step] /\ held' = held /\ faults' = faults
            /\ step = "running" => task[e].at = "report"
      BY <1>3 DEF Start, Report, To, At
    <2>2. [task[e] EXCEPT !.at = step] \in Tasks
      BY <1>1 DEF InSlot
    <2>3. task' \in [Executors -> Tasks]
      BY <1>1, <2>1, <2>2
    <2>4. TypeOK'
      BY <1>1, <1>2, <2>1, <2>3 DEF TypeOK, jobs, content
    <2> QED
      BY <1>1, <1>2, <2>1, <2>4, TaskMoves DEF TypeOK
  <1>4. CASE SpawnFails(e)
    <2>1. TypeOK'
      BY <1>1, <1>2, <1>4, EndKeeps DEF SpawnFails, TypeOK, jobs, content
    <2> QED
      BY <1>1, <1>2, <1>4, <2>1, EndKeeps, TaskMoves DEF SpawnFails, TypeOK
  <1>5. CASE Kill(e)
    <2> DEFINE known == IF At(e, "running") THEN task[e].token ELSE 0
               new == [task[e] EXCEPT !.at = "killed", !.token = known]
    <2>1. known \in Nat
      BY <1>1
    <2>2. new \in Tasks /\ new.at = "killed"
      BY <1>1, <2>1 DEF InSlot
    <2>3. task' = [task EXCEPT ![e] = new] /\ held' = held /\ faults' = faults
      BY <1>1, <1>5 DEF Kill
    <2> HIDE DEF new
    <2>4. TypeOK'
      BY <1>1, <1>2, <2>2, <2>3 DEF TypeOK, jobs, content
    <2> QED
      BY <1>1, <1>2, <2>2, <2>3, <2>4, TaskMoves DEF TypeOK
  <1> QED
    BY <1>3, <1>4, <1>5


LEMMA ClaimStep ==
  ASSUME JobIntegrity, NEW e \in Executors, Claim(e)
  PROVE  JobIntegrity' /\ FinishedStep
  <1> DEFINE Tasks == [at : {"idle", "wait"} \cup InSlot, job : Jobs, token : Nat, orphan : BOOLEAN]
             j == task[e].job
             new == [task[e] EXCEPT !.at = "report", !.token = claims[j] + 1]
  <1>1. TypeOK /\ task \in [Executors -> Tasks] /\ task[e] \in Tasks /\ j \in Jobs
    BY DEF JobIntegrity, TypeOK
  <1>2. UNCHANGED <<born, answer, content, sweep, purge, submits, faults>>
    BY DEF Claim
  <1>3. CASE Claimable(j)
    <2>1. /\ status' = [status EXCEPT ![j] = "RUNNING"] /\ claims' = [claims EXCEPT ![j] = @ + 1]
          /\ token' = [token EXCEPT ![j] = claims[j] + 1]
          /\ lapsed' = [lapsed EXCEPT ![j] = FALSE] /\ held' = held
          /\ task' = [task EXCEPT ![e] = new]
      BY <1>1, <1>3 DEF Claim
    <2>2. claims[j] \in Nat /\ claims[j] + 1 \in Nat /\ claims[j] + 1 > 0
      BY <1>1 DEF TypeOK
    <2>3. new \in Tasks /\ new.at = "report" /\ new.token = claims[j] + 1
      BY <1>1, <2>2 DEF InSlot
    <2> HIDE DEF new, j
    <2>4. TypeOK'
      BY <1>1, <1>2, <2>1, <2>2, <2>3 DEF TypeOK, content, Pending
    <2>5. Tokens'
      BY <1>1, <2>1, <2>2, <2>3 DEF JobIntegrity, Tokens, TypeOK
    <2> QED
      BY <1>1, <1>2, <1>3, <2>1, <2>4, <2>5, PendingMoves DEF content, Claimable, Pending, TypeOK
  <1>4. CASE ~Claimable(j)
    <2>1. End(e) /\ UNCHANGED <<status, claims, token, lapsed>>
      BY <1>4 DEF Claim
    <2>2. TypeOK'
      BY <1>1, <1>2, <2>1, EndKeeps DEF TypeOK, content
    <2> QED
      BY <1>1, <1>2, <2>1, <2>2, EndKeeps, TaskMoves DEF jobs, TypeOK
  <1> QED
    BY <1>3, <1>4

(* Only the holder of its token ends a running job.                          *)
LEMMA SetFailedMoves ==
  ASSUME JobIntegrity, NEW j \in Jobs, NEW t \in Nat,
         (t > 0 /\ SetFailed(j, t)) \/ FailUnclaimed(j)
  PROVE  /\ \A i \in Jobs : status'[i] # status[i] => status[i] \in Pending /\ status'[i] = "FAILED"
         /\ status' \in [Jobs -> {"none", "gone"} \cup Pending \cup Finished]
         /\ token' \in [Jobs -> Nat]
         /\ \A i \in Jobs : /\ status'[i] = "RUNNING" => status[i] = "RUNNING" /\ token'[i] = token[i]
                            /\ status'[i] # "RUNNING" => token'[i] = 0
  <1>1. TypeOK /\ (status[j] = "RUNNING" => token[j] = claims[j] /\ claims[j] > 0)
        /\ (status[j] # "RUNNING" => token[j] = 0)
    BY DEF JobIntegrity, Tokens
  <1>2. CASE FailUnclaimed(j)
    BY <1>1, <1>2 DEF FailUnclaimed, JobIntegrity, Tokens, TypeOK, Pending, Finished
  <1>3. CASE t > 0 /\ SetFailed(j, t)
    <2>1. Owns(j, t) => status[j] = "RUNNING"
      BY <1>1, <1>3 DEF Owns
    <2>2. CASE Owns(j, t)
      <3>1. /\ status' = [status EXCEPT ![j] = "FAILED"] /\ token' = [token EXCEPT ![j] = 0]
        BY <1>1, <1>3, <2>2 DEF SetFailed, TokenAfterEnd, TypeOK
      <3> QED
        BY <1>1, <2>1, <2>2, <3>1 DEF JobIntegrity, Tokens, TypeOK, Pending, Finished
    <2>3. CASE ~Owns(j, t)
      <3>1. status' = status /\ token' = token
        BY <1>1, <1>3, <2>3 DEF SetFailed, TypeOK
      <3> QED
        BY <1>1, <3>1 DEF JobIntegrity, Tokens, TypeOK
    <2> QED
      BY <2>2, <2>3
  <1> QED
    BY <1>2, <1>3

LEMMA FailSteps ==
  ASSUME JobIntegrity, NEW e \in Executors, FailRun(e) \/ RecordKilled(e)
  PROVE  JobIntegrity' /\ FinishedStep
  <1> DEFINE j == task[e].job
             t == task[e].token
  <1>1. TypeOK /\ j \in Jobs /\ t \in Nat
    BY DEF JobIntegrity, TypeOK
  <1>2. (t > 0 /\ SetFailed(j, t)) \/ FailUnclaimed(j)
    <2>1. task[e].at \in {"report", "running"} => t > 0
      BY DEF JobIntegrity, Tokens
    <2> QED
      BY <1>1, <2>1 DEF FailRun, RecordKilled, At
  <1>3. UNCHANGED <<lapsed, born, claims, answer, content, sweep, purge, submits, faults>> /\ End(e)
    BY DEF FailRun, RecordKilled
  <1> HIDE DEF j, t
  <1>4. /\ \A i \in Jobs : status'[i] # status[i] => status[i] \in Pending /\ status'[i] = "FAILED"
        /\ status' \in [Jobs -> {"none", "gone"} \cup Pending \cup Finished]
        /\ token' \in [Jobs -> Nat]
        /\ \A i \in Jobs : /\ status'[i] = "RUNNING" => status[i] = "RUNNING" /\ token'[i] = token[i]
                           /\ status'[i] # "RUNNING" => token'[i] = 0
    BY <1>1, <1>2, SetFailedMoves
  <1>5. TypeOK'
    BY <1>1, <1>3, <1>4, EndKeeps DEF TypeOK, content
  <1>6. Tokens'
    <2>1. ASSUME NEW i \in Jobs
          PROVE  /\ status'[i] = "RUNNING" => token'[i] = claims'[i] /\ claims'[i] > 0
                 /\ status'[i] # "RUNNING" => token'[i] = 0
      <3>1. claims'[i] = claims[i] /\ (status[i] = "RUNNING" => token[i] = claims[i] /\ claims[i] > 0)
        BY <1>3 DEF JobIntegrity, Tokens
      <3> QED
        BY <1>4, <3>1
    <2>2. ASSUME NEW x \in Executors, task'[x].at \in {"report", "running"}
          PROVE  task'[x].token > 0
      <3>1. task'[x] = task[x]
        BY <1>1, <1>3, <2>2, EndKeeps
      <3> QED
        BY <2>2, <3>1 DEF JobIntegrity, Tokens
    <2> QED
      BY <2>1, <2>2 DEF Tokens
  <1> QED
    BY <1>1, <1>3, <1>4, <1>5, <1>6, PendingMoves DEF content, Pending

LEMMA ProgressStep ==
  ASSUME JobIntegrity, NEW e \in Executors, Progress(e)
  PROVE  JobIntegrity' /\ FinishedStep
  <1> DEFINE j == task[e].job
             t == task[e].token
  <1>1. TypeOK /\ j \in Jobs /\ t \in Nat /\ t > 0
    BY DEF JobIntegrity, TypeOK, Tokens, Progress, At
  <1>2. Owns(j, t) => status[j] = "RUNNING"
    BY <1>1 DEF JobIntegrity, Tokens, Owns
  <1>3. status' = status
    BY <1>1, <1>2 DEF Progress, TypeOK
  <1>4. UNCHANGED <<jobs, content, task, held, sweep, purge, submits, faults>>
    BY <1>3 DEF Progress, jobs
  <1>5. TypeOK'
    BY <1>1, <1>4 DEF TypeOK, jobs, content
  <1> QED
    BY <1>1, <1>4, <1>5, TaskMoves DEF TypeOK

LEMMA WriteVectorsStep ==
  ASSUME JobIntegrity, NEW e \in Executors, WriteVectors(e)
  PROVE  JobIntegrity' /\ FinishedStep
  <1> DEFINE d == DossierOf[task[e].job]
  <1>1. TypeOK /\ d \in Dossiers
    BY DossierOfAssumption DEF JobIntegrity, TypeOK
  <1>2. UNCHANGED <<jobs, snapshot, tombstone, files, sweep, purge, submits, faults>>
    BY DEF WriteVectors
  <1>3. (Fenced(d) /\ End(e) /\ vectors' = vectors)
        \/ (~Fenced(d) /\ vectors' = vectors \cup {d} /\ task' = task /\ held' = held)
    BY DEF WriteVectors
  <1> HIDE DEF d
  <1>4. TypeOK'
    BY <1>1, <1>2, <1>3, EndKeeps DEF TypeOK, jobs
  <1>5. Tokens'
    BY <1>1, <1>2, <1>3, EndKeeps DEF JobIntegrity, Tokens, jobs
  <1> QED
    BY <1>1, <1>2, <1>3, <1>4, <1>5, PendingMoves DEF jobs

(* The transaction that answers a job: the last claim's, and the snapshot.   *)
LEMMA CompleteStep ==
  ASSUME JobIntegrity, NEW e \in Executors, NEW outcome \in Finished, Complete(e, outcome)
  PROVE  JobIntegrity' /\ FinishedStep
  <1> DEFINE j == task[e].job
             t == task[e].token
             d == DossierOf[j]
  <1>1. TypeOK /\ j \in Jobs /\ t \in Nat /\ d \in Dossiers
    BY DossierOfAssumption DEF JobIntegrity, TypeOK
  <1>2. End(e) /\ UNCHANGED <<lapsed, born, claims, vectors, tombstone, files, sweep, purge, submits, faults>>
    BY DEF Complete
  <1>3. CASE ~(status[j] = "RUNNING" /\ Owns(j, t))
    <2>1. UNCHANGED <<status, token, answer, snapshot>>
      BY <1>3 DEF Complete
    <2>2. TypeOK'
      BY <1>1, <1>2, <2>1, EndKeeps DEF TypeOK
    <2> HIDE DEF j, t, d
    <2> QED
      BY <1>1, <1>2, <2>1, <2>2, EndKeeps, TaskMoves DEF jobs, content, TypeOK
  <1>4. CASE status[j] = "RUNNING" /\ Owns(j, t)
    <2>1. /\ status' = [status EXCEPT ![j] = outcome] /\ token' = [token EXCEPT ![j] = 0]
          /\ answer' = [answer EXCEPT ![j] = t]
          /\ snapshot' = IF outcome = "SUCCEEDED" /\ Latest(j)
                         THEN [snapshot EXCEPT ![d] = born[j]] ELSE snapshot
      BY <1>4 DEF Complete, TokenAfterEnd
    <2>2. t = claims[j] /\ tombstone[d] = "none"
      <3>1. token[j] = claims[j]
        BY <1>1, <1>4 DEF JobIntegrity, Tokens
      <3>2. tombstone[d] = "none"
        BY <1>1, <1>4 DEF JobIntegrity, NothingAfterPurge
      <3> QED
        BY <1>4, <3>1, <3>2 DEF Owns
    <2> HIDE DEF t
    <2>3. TypeOK'
      <3>1. born[j] \in Nat
        BY <1>1 DEF TypeOK
      <3>2. snapshot' \in [Dossiers -> Nat]
        BY <1>1, <2>1, <3>1 DEF TypeOK
      <3>3. status' \in [Jobs -> {"none", "gone"} \cup Pending \cup Finished]
            /\ token' \in [Jobs -> Nat] /\ answer' \in [Jobs -> Nat]
        BY <1>1, <2>1 DEF TypeOK, Finished
      <3> HIDE DEF j, d
      <3> QED
        BY <1>1, <1>2, <3>2, <3>3, EndKeeps DEF TypeOK
    <2>4. Tokens'
      <3>1. \A i \in Jobs : (status'[i] = "RUNNING" => i # j) /\ (i # j => status'[i] = status[i] /\ token'[i] = token[i])
            /\ token'[j] = 0
        BY <1>1, <2>1 DEF Finished, TypeOK
      <3> HIDE DEF j
      <3> QED
        BY <1>1, <1>2, <3>1, EndKeeps DEF JobIntegrity, Tokens
    <2>5. AnswerOfLastClaim'
      BY <1>1, <1>2, <2>1, <2>2 DEF JobIntegrity, AnswerOfLastClaim, TypeOK
    <2>6. SnapshotIsLatest'
      <3> SUFFICES ASSUME NEW k \in Jobs, status'[k] = "SUCCEEDED"
                   PROVE  \E i \in Jobs : /\ DossierOf[i] = DossierOf[k] /\ status'[i] = "SUCCEEDED"
                                          /\ born[k] <= born[i] /\ snapshot'[DossierOf[k]] = born[i]
        BY <1>2 DEF SnapshotIsLatest
      <3>1. \A i \in Jobs : born[i] \in Nat /\ DossierOf[i] \in Dossiers
        BY <1>1, DossierOfAssumption DEF TypeOK
      <3>2. \A i \in Jobs : status'[i] = "SUCCEEDED" /\ i # j => status[i] = "SUCCEEDED"
        BY <1>1, <2>1 DEF TypeOK
      <3>3. \A i \in Jobs : status[i] = "SUCCEEDED" => i # j /\ status'[i] = "SUCCEEDED"
        BY <1>1, <1>4, <2>1 DEF TypeOK
      <3>4. CASE outcome = "SUCCEEDED" /\ Latest(j) /\ DossierOf[k] = d
        <4>1. born[k] <= born[j]
          BY <3>1, <3>2, <3>4, <1>1 DEF Latest
        <4>2. status'[j] = "SUCCEEDED" /\ snapshot'[DossierOf[k]] = born[j]
          BY <1>1, <2>1, <3>4 DEF TypeOK
        <4> QED
          BY <1>1, <3>4, <4>1, <4>2
      <3>5. CASE ~(outcome = "SUCCEEDED" /\ Latest(j)) \/ DossierOf[k] # d
        <4>1. snapshot'[DossierOf[k]] = snapshot[DossierOf[k]]
          BY <1>1, <2>1, <3>1, <3>5 DEF TypeOK
        <4>2. PICK m \in Jobs : /\ status[m] = "SUCCEEDED" /\ DossierOf[m] = DossierOf[k]
                                /\ born[k] <= born[m]
          <5>1. CASE k # j
            BY <3>1, <3>2, <5>1
          <5>2. CASE k = j
            <6>1. outcome = "SUCCEEDED" /\ ~Latest(j)
              BY <1>1, <2>1, <3>5, <5>2 DEF TypeOK
            <6> QED
              BY <3>1, <5>2, <6>1 DEF Latest
          <5> QED
            BY <5>1, <5>2
        <4>3. PICK i \in Jobs : /\ DossierOf[i] = DossierOf[m] /\ status[i] = "SUCCEEDED"
                                /\ born[m] <= born[i] /\ snapshot[DossierOf[m]] = born[i]
          BY <4>2 DEF JobIntegrity, SnapshotIsLatest
        <4> QED
          BY <3>1, <3>3, <4>1, <4>2, <4>3
      <3> QED
        BY <3>4, <3>5
    <2>7. NothingAfterPurge'
      <3>1. \A x \in Dossiers : x # d => snapshot'[x] = snapshot[x]
        BY <1>1, <2>1 DEF TypeOK
      <3>2. \A i \in Jobs : DossierOf[i] # d => status'[i] = status[i]
        BY <1>1, <2>1 DEF TypeOK
      <3> HIDE DEF j, d
      <3> QED
        BY <1>2, <2>2, <3>1, <3>2 DEF JobIntegrity, NothingAfterPurge
    <2>8. Purging'
      BY <1>2 DEF JobIntegrity, Purging
    <2>9. FinishedStep
      BY <1>1, <1>4, <2>1 DEF FinishedStep, TypeOK, Finished
    <2> QED
      BY <2>3, <2>4, <2>5, <2>6, <2>7, <2>8, <2>9 DEF JobIntegrity
  <1> QED
    BY <1>3, <1>4

(* The process dies: children that outlive it keep their claims.             *)
LEMMA RestartStep ==
  ASSUME JobIntegrity, Restart
  PROVE  JobIntegrity' /\ FinishedStep
  <1> DEFINE Tasks == [at : {"idle", "wait"} \cup InSlot, job : Jobs, token : Nat, orphan : BOOLEAN]
  <1>1. TypeOK /\ task \in [Executors -> Tasks]
    BY DEF JobIntegrity, TypeOK
  <1>2. PICK survivors \in SUBSET Executors :
          task' = [e \in Executors |->
                     IF e \in survivors THEN [task[e] EXCEPT !.orphan = TRUE]
                     ELSE IF task[e].orphan THEN task[e] ELSE Free]
    BY DEF Restart
  <1>3. /\ held' = {} /\ sweep' = "hold" /\ purge' = [p \in Purgers |-> NoPurge]
        /\ faults' = faults + 1 /\ UNCHANGED <<jobs, content, submits>>
    BY DEF Restart
  <1>4. \A e \in Executors :
          LET x == [task[e] EXCEPT !.orphan = TRUE]
          IN  x \in Tasks /\ x.at = task[e].at /\ x.token = task[e].token
    BY <1>1
  <1>5. /\ task' \in [Executors -> Tasks]
        /\ \A e \in Executors : task'[e].at \in {"report", "running"} =>
             task[e].at \in {"report", "running"} /\ task'[e].token = task[e].token
    BY <1>1, <1>2, <1>4, FreeType
  <1>6. TypeOK'
    BY <1>1, <1>3, <1>5, FreeType DEF TypeOK, jobs, content
  <1>7. Tokens'
    BY <1>3, <1>5 DEF JobIntegrity, Tokens, jobs
  <1>8. \A p \in Purgers : purge'[p] = NoPurge
    BY <1>3
  <1> QED
    BY <1>3, <1>6, <1>7, <1>8, PendingMoves DEF jobs, content

LEMMA ClockSteps ==
  ASSUME JobIntegrity, (\E j \in Jobs : Lapse(j)) \/ SweepHold
  PROVE  JobIntegrity' /\ FinishedStep
  <1>1. TypeOK /\ lapsed' \in [Jobs -> BOOLEAN] /\ sweep' \in {"hold", "fail"}
        /\ UNCHANGED <<status, token, born, claims, answer, content, task, held, purge, submits, faults>>
    BY DEF JobIntegrity, TypeOK, Lapse, SweepHold
  <1>2. TypeOK'
    BY <1>1 DEF TypeOK, content
  <1>3. Tokens'
    BY <1>1 DEF JobIntegrity, Tokens
  <1> QED
    BY <1>1, <1>2, <1>3, PendingMoves DEF content

LEMMA SweepFailStep ==
  ASSUME JobIntegrity, SweepFail
  PROVE  JobIntegrity' /\ FinishedStep
  <1>1. TypeOK /\ sweep' = "hold"
        /\ UNCHANGED <<lapsed, born, claims, answer, content, task, held, purge, submits, faults>>
    BY DEF JobIntegrity, SweepFail
  <1>2. \A j \in Jobs :
          /\ status'[j] = IF Stale(j) THEN "FAILED" ELSE status[j]
          /\ token'[j] = IF Stale(j) THEN 0 ELSE token[j]
    BY DEF SweepFail, TokenAfterEnd
  <1>3. /\ status' \in [Jobs -> {"none", "gone"} \cup Pending \cup Finished]
        /\ token' \in [Jobs -> Nat]
    BY <1>1, <1>2 DEF SweepFail, TokenAfterEnd, TypeOK, Finished
  <1>4. TypeOK'
    BY <1>1, <1>3 DEF TypeOK, content
  <1>5. Tokens'
    BY <1>1, <1>2 DEF JobIntegrity, Tokens
  <1> QED
    BY <1>1, <1>2, <1>4, <1>5, PendingMoves DEF content, Stale, Pending
-----------------------------------------------------------------------------
(* The erasing transaction leaves nothing of the dossier for any job, and    *)
(* what it leaves of the others is as it was.                                *)
LEMMA EraseStep ==
  ASSUME JobIntegrity, NEW p \in Purgers, NEW d \in Dossiers, Erase(p, d)
  PROVE  JobIntegrity' /\ FinishedStep
  <1>1. TypeOK /\ \A j \in Jobs : DossierOf[j] \in Dossiers
    BY DossierOfAssumption DEF JobIntegrity, TypeOK
  <1>2. /\ tombstone' = [tombstone EXCEPT ![d] = "pending"]
        /\ snapshot' = [snapshot EXCEPT ![d] = 0] /\ vectors' = vectors \ {d}
        /\ purge' = [purge EXCEPT ![p] = [at |-> "files", dossier |-> d]]
        /\ UNCHANGED <<lapsed, born, claims, answer, files, task, held, sweep, submits, faults>>
    BY DEF Erase
  <1>3. \A j \in Jobs :
          /\ DossierOf[j] = d => status'[j] \in {"none", "gone"} /\ token'[j] = 0
          /\ DossierOf[j] # d => status'[j] = status[j] /\ token'[j] = token[j]
          /\ status'[j] \in {status[j], "gone"}
    BY <1>1 DEF Erase, TypeOK
  <1>4. /\ status' \in [Jobs -> {"none", "gone"} \cup Pending \cup Finished]
        /\ token' \in [Jobs -> Nat]
    BY <1>1 DEF Erase, TypeOK
  <1>5. TypeOK'
    BY <1>1, <1>2, <1>4 DEF TypeOK
  <1>6. Tokens'
    BY <1>2, <1>3 DEF JobIntegrity, Tokens
  <1>7. \A x \in Dossiers : /\ x # d => tombstone'[x] = tombstone[x] /\ snapshot'[x] = snapshot[x]
                            /\ tombstone'[d] = "pending" /\ snapshot'[d] = 0
    BY <1>1, <1>2 DEF TypeOK
  <1>8. Purging'
    <2>1. \A x \in Purgers : purge[x].dossier \in Dossiers
      BY <1>1 DEF TypeOK
    <2>2. /\ purge'[p].at = "files" /\ purge'[p].dossier = d
          /\ \A x \in Purgers : x # p => purge'[x] = purge[x]
      BY <1>1, <1>2 DEF TypeOK
    <2> QED
      BY <1>2, <1>7, <2>1, <2>2 DEF JobIntegrity, Purging
  <1>9. AnswerOfLastClaim'
    BY <1>2, <1>3 DEF JobIntegrity, AnswerOfLastClaim
  <1>10. SnapshotIsLatest'
    BY <1>1, <1>2, <1>3, <1>7 DEF JobIntegrity, SnapshotIsLatest
  <1>11. NothingAfterPurge'
    BY <1>1, <1>2, <1>3, <1>7 DEF JobIntegrity, NothingAfterPurge
  <1>12. FinishedStep
    BY <1>3 DEF FinishedStep
  <1> QED
    BY <1>5, <1>6, <1>8, <1>9, <1>10, <1>11, <1>12 DEF JobIntegrity

LEMMA FileSteps ==
  ASSUME JobIntegrity, NEW p \in Purgers, RemoveFiles(p) \/ RecordPurge(p)
  PROVE  JobIntegrity' /\ FinishedStep
  <1> DEFINE d == purge[p].dossier
             Purges == [at : {"idle", "files", "record"}, dossier : Dossiers]
             Recording == [purge[p] EXCEPT !.at = "record"]
  <1>1. TypeOK /\ purge \in [Purgers -> Purges] /\ purge[p] \in Purges /\ d \in Dossiers
    BY DEF JobIntegrity, TypeOK
  <1>2. UNCHANGED <<jobs, snapshot, vectors, task, held, sweep, submits>> /\ purge[p].at # "idle"
    BY DEF RemoveFiles, RecordPurge
  <1>3. Recording \in Purges /\ Recording.at = "record" /\ Recording.dossier = d
    BY <1>1
  <1>4. tombstone[d] # "none" /\ (purge[p].at = "record" => d \notin files)
    BY <1>2 DEF JobIntegrity, Purging
  <1>5. PICK next \in Purges :
          /\ purge' = [purge EXCEPT ![p] = next]
          /\ (next.at = "idle") \/ (next.at = "record" /\ next.dossier = d /\ d \notin files')
    <2>1. RemoveFiles(p) => \/ purge' = [purge EXCEPT ![p] = Recording] /\ d \notin files'
                            \/ purge' = [purge EXCEPT ![p] = NoPurge]
      BY <1>1 DEF RemoveFiles
    <2>2. RecordPurge(p) => purge' = [purge EXCEPT ![p] = NoPurge]
      BY DEF RecordPurge
    <2> HIDE DEF Recording, d
    <2> QED
      BY <1>3, <2>1, <2>2, FreeType
  <1>6. /\ files' \in SUBSET files /\ faults' \in Nat
        /\ tombstone' \in [Dossiers -> {"none", "pending", "completed"}]
        /\ \A x \in Dossiers :
             /\ (tombstone'[x] # "none") <=> (tombstone[x] # "none")
             /\ (tombstone'[x] = "completed") => (tombstone[x] = "completed" \/ x \notin files)
    <2>1. CASE RemoveFiles(p)
      BY <1>1, <2>1 DEF RemoveFiles, TypeOK
    <2>2. CASE RecordPurge(p)
      <3>1. /\ files' = files /\ faults' = faults /\ d \notin files
            /\ tombstone' = [tombstone EXCEPT ![d] = "completed"]
        BY <1>4, <2>2 DEF RecordPurge
      <3> HIDE DEF d
      <3> QED
        BY <1>1, <1>4, <3>1 DEF TypeOK
    <2> QED
      BY <2>1, <2>2
  <1> HIDE DEF d, Recording
  <1>7. purge' \in [Purgers -> Purges] /\ purge'[p] = next
        /\ \A x \in Purgers : x # p => purge'[x] = purge[x]
    BY <1>1, <1>5
  <1>8. TypeOK'
    BY <1>1, <1>2, <1>6, <1>7 DEF TypeOK, jobs
  <1>9. Tokens'
    BY <1>2 DEF JobIntegrity, Tokens, jobs
  <1>10. Purging'
    <2> SUFFICES ASSUME NEW x \in Purgers
                 PROVE  /\ (purge'[x].at # "idle") => (tombstone'[purge'[x].dossier] # "none")
                        /\ (purge'[x].at = "record") => (purge'[x].dossier \notin files')
      BY DEF Purging
    <2>1. CASE x = p
      BY <1>1, <1>4, <1>5, <1>6, <1>7, <2>1
    <2>2. CASE x # p
      <3>1. purge[x].dossier \in Dossiers /\ purge'[x] = purge[x]
        BY <1>1, <1>7, <2>2
      <3> QED
        BY <1>6, <3>1 DEF JobIntegrity, Purging
    <2> QED
      BY <2>1, <2>2
  <1>11. AnswerOfLastClaim' /\ SnapshotIsLatest' /\ FinishedStep
    BY <1>2 DEF JobIntegrity, AnswerOfLastClaim, SnapshotIsLatest, FinishedStep, jobs
  <1>12. NothingAfterPurge'
    <2> SUFFICES ASSUME NEW x \in Dossiers, tombstone'[x] # "none"
                 PROVE  /\ snapshot'[x] = 0 /\ x \notin vectors'
                        /\ \A j \in Jobs : DossierOf[j] = x => status'[j] \in {"none", "gone"}
                        /\ tombstone'[x] = "completed" => x \notin files'
      BY DEF NothingAfterPurge
    <2>1. /\ snapshot[x] = 0 /\ x \notin vectors
          /\ \A j \in Jobs : DossierOf[j] = x => status[j] \in {"none", "gone"}
          /\ tombstone[x] = "completed" => x \notin files
      BY <1>6 DEF JobIntegrity, NothingAfterPurge
    <2> QED
      BY <1>2, <1>6, <2>1 DEF jobs
  <1> QED
    BY <1>8, <1>9, <1>10, <1>11, <1>12 DEF JobIntegrity
-----------------------------------------------------------------------------
LEMMA StepIntegrity == JobIntegrity /\ [Next]_vars => JobIntegrity' /\ FinishedStep
  <1> SUFFICES ASSUME JobIntegrity, [Next]_vars PROVE JobIntegrity' /\ FinishedStep
    OBVIOUS
  <1>1. ASSUME NEW e \in Executors, Runs(e) PROVE JobIntegrity' /\ FinishedStep
    BY <1>1, ExecutorSteps, ClaimStep, FailSteps, CompleteStep DEF Runs
  <1>2. ASSUME NEW e \in Executors, SpawnFails(e) \/ Progress(e) \/ WriteVectors(e)
        PROVE  JobIntegrity' /\ FinishedStep
    BY <1>2, ExecutorSteps, ProgressStep, WriteVectorsStep
  <1>3. ASSUME NEW e \in Executors, NEW j \in Jobs, Submit(j, e)
        PROVE  JobIntegrity' /\ FinishedStep
    BY <1>3, SubmitStep
  <1>4. CASE UNCHANGED vars
    <2>1. TypeOK'
      BY <1>4 DEF JobIntegrity, TypeOK, vars, jobs, content
    <2>2. Tokens'
      BY <1>4 DEF JobIntegrity, Tokens, vars, jobs
    <2> QED
      BY <1>4, <2>1, <2>2, PendingMoves DEF vars, jobs, content
  <1> QED
    BY <1>1, <1>2, <1>3, <1>4, RestartStep, ClockSteps, SweepFailStep, EraseStep, FileSteps DEF Next

(* The rows, the snapshot, the tombstones and the tokens agree in every      *)
(* state (tools/jobs.py, tools/dossier_deletion.py).                         *)
THEOREM JobIntegrityHolds == Spec => []JobIntegrity
  <1>1. Init => JobIntegrity
    BY InitIntegrity
  <1>2. JobIntegrity /\ [Next]_vars => JobIntegrity'
    BY StepIntegrity
  <1> QED
    BY <1>1, <1>2, PTL DEF Spec

(* jobs.py: the conditions on worker_token and status keep an ended job as   *)
(* it ended, until a purge.                                                  *)
THEOREM FinishedStaysHolds == Spec => FinishedStays
  <1>1. JobIntegrity /\ [Next]_vars => [FinishedStep]_vars
    BY StepIntegrity
  <1>2. FinishedStays <=> [][FinishedStep]_vars
    BY PTL DEF FinishedStays, FinishedStep
  <1> QED
    BY <1>1, <1>2, JobIntegrityHolds, PTL DEF Spec

(* complete_with_snapshot: only the claim that took a job last answers it.   *)
THEOREM AnswerOfLastClaimHolds == Spec => []AnswerOfLastClaim
  BY JobIntegrityHolds, PTL DEF JobIntegrity

(* complete_with_snapshot: the snapshot is that of the latest created job.   *)
THEOREM SnapshotIsLatestHolds == Spec => []SnapshotIsLatest
  BY JobIntegrityHolds, PTL DEF JobIntegrity

(* purge_dossier and its fence: a purged dossier stays empty.                *)
THEOREM NothingAfterPurgeHolds == Spec => []NothingAfterPurge
  BY JobIntegrityHolds, PTL DEF JobIntegrity
=============================================================================
