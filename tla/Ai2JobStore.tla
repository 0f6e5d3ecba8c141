---------------------------- MODULE Ai2JobStore ----------------------------
(***************************************************************************)
(* AI2's processing jobs (ai-service/app/tools/jobs.py, api/main.py): a    *)
(* job row per submission, executors that claim it under a token and a     *)
(* lease, a sweep that fails what a dead worker left behind, and the query *)
(* snapshot a completed job publishes; against the purge of a dossier      *)
(* (tools/dossier_deletion.py), whose tombstone fences every later write.  *)
(*                                                                         *)
(* Postgres store and AI2_JOB_ISOLATION=process, as deployed: the executor *)
(* of a job is a child process its parent kills when it is late.  A child  *)
(* may outlive a parent that was killed: an orphan.                        *)
(***************************************************************************)
EXTENDS Naturals, FiniteSets

CONSTANTS
  Dossiers,
  Jobs,
  DossierOf,   \* per job, the dossier it processes
  Executors,   \* background tasks of the API process, with their children
  Slots,       \* MAX_CONCURRENT_JOBS
  Purgers,     \* threads that run purge_dossier
  MaxSubmits,  \* bound on POST /jobs/idp that start an executor
  MaxFaults    \* bound on restarts, failed spawns, failed file removals

ASSUME DossierOfAssumption == DossierOf \in [Jobs -> Dossiers]
ASSUME SetsAssumption == Jobs # {} /\ Dossiers # {}
ASSUME BoundsAssumption == Slots \in Nat /\ MaxSubmits \in Nat /\ MaxFaults \in Nat

VARIABLES
  status,     \* jobs.status; "none" before the row, "gone" once purged
  token,      \* jobs.worker_token: the number of the claim, 0 without
  lapsed,     \* has the lease, or the grace of a job never held, run out?
  born,       \* jobs.created_ms: the submission that created the row
  claims,     \* claims made of the job so far
  answer,     \* the claim whose answer a finished job carries, 0 for a failure
  snapshot,   \* per dossier: the creation order of the job of its query snapshot, 0 without
  vectors,    \* dossiers with vector segments
  tombstone,  \* dossier_tombstones.status, "none" without a row
  files,      \* dossiers with session directories on disk
  task,       \* per executor: its step, job, claim, and whether its parent died
  held,       \* _HELD_JOB_IDS
  sweep,      \* step of _sweep_stale_jobs
  purge,      \* per purger: its step and dossier
  submits,
  faults

jobs == <<status, token, lapsed, born, claims, answer>>
content == <<snapshot, vectors, tombstone, files>>
vars == <<jobs, content, task, held, sweep, purge, submits, faults>>

Pending == {"QUEUED", "RUNNING"}
Finished == {"SUCCEEDED", "FAILED"}
InSlot == {"claim", "report", "running", "killed"}

Free == [at |-> "idle", job |-> CHOOSE j \in Jobs : TRUE, token |-> 0, orphan |-> FALSE]
NoPurge == [at |-> "idle", dossier |-> CHOOSE d \in Dossiers : TRUE]

At(e, step) == task[e].at = step
To(e, step) == task' = [task EXCEPT ![e].at = step]

(* An executor ends; its process stops holding the job, even if another     *)
(* executor of the same job still waits.                                    *)
End(e) ==
  /\ task' = [task EXCEPT ![e] = Free]
  /\ held' = IF task[e].orphan THEN held ELSE held \ {task[e].job}

\* Mutant: the fence of the tombstone is not checked.
NeverFenced(d) == FALSE
(* guard_dossier_write, guard_vector_write and create_or_get's own check.   *)
Fenced(d) == tombstone[d] # "none"

\* Mutant: a finished job keeps the token of its worker.
KeptToken(j) == token[j]
(* worker_token after a terminal status.                                    *)
TokenAfterEnd(j) == 0

Init ==
  /\ status = [j \in Jobs |-> "none"]
  /\ token = [j \in Jobs |-> 0]
  /\ lapsed = [j \in Jobs |-> FALSE]
  /\ born = [j \in Jobs |-> 0]
  /\ claims = [j \in Jobs |-> 0]
  /\ answer = [j \in Jobs |-> 0]
  /\ snapshot = [d \in Dossiers |-> 0]
  /\ vectors = {}
  /\ tombstone = [d \in Dossiers |-> "none"]
  /\ files = Dossiers
  /\ task = [e \in Executors |-> Free]
  /\ held = {}
  /\ sweep = "hold"
  /\ purge = [p \in Purgers |-> NoPurge]
  /\ submits = 0
  /\ faults = 0
-----------------------------------------------------------------------------
(* create_idp_job: create_or_get, and an executor for a job that is not     *)
(* finished - a second one when the submission is repeated.                 *)
Submit(j, e) ==
  /\ submits < MaxSubmits /\ ~Fenced(DossierOf[j])
  /\ status[j] \in {"none"} \cup Pending /\ At(e, "idle")
  /\ IF status[j] = "none"
     THEN /\ status' = [status EXCEPT ![j] = "QUEUED"]
          /\ born' = [born EXCEPT ![j] = submits + 1]
     ELSE UNCHANGED <<status, born>>
  /\ task' = [task EXCEPT ![e] = [Free EXCEPT !.at = "wait", !.job = j]]
  /\ held' = held \cup {j}
  /\ submits' = submits + 1
  /\ UNCHANGED <<token, lapsed, claims, answer, content, sweep, purge, faults>>

(* A slot is free: the child is spawned.                                    *)
Start(e) ==
  /\ At(e, "wait")
  /\ Cardinality({x \in Executors : task[x].at \in InSlot /\ ~task[x].orphan}) < Slots
  /\ To(e, "claim")
  /\ UNCHANGED <<jobs, content, held, sweep, purge, submits, faults>>

SpawnFails(e) ==
  /\ At(e, "claim") /\ ~task[e].orphan /\ faults < MaxFaults
  /\ End(e)
  /\ faults' = faults + 1
  /\ UNCHANGED <<jobs, content, sweep, purge, submits>>

Claimable(j) == status[j] = "QUEUED" \/ (status[j] = "RUNNING" /\ lapsed[j])

(* claim; a job that is not to be had is left alone.                        *)
Claim(e) ==
  LET j == task[e].job IN
  /\ At(e, "claim")
  /\ IF Claimable(j)
     THEN /\ status' = [status EXCEPT ![j] = "RUNNING"]
          /\ claims' = [claims EXCEPT ![j] = @ + 1]
          /\ token' = [token EXCEPT ![j] = claims[j] + 1]
          /\ lapsed' = [lapsed EXCEPT ![j] = FALSE]
          /\ task' = [task EXCEPT ![e].at = "report", ![e].token = claims[j] + 1]
          /\ UNCHANGED held
     ELSE End(e) /\ UNCHANGED <<status, claims, token, lapsed>>
  /\ UNCHANGED <<born, answer, content, sweep, purge, submits, faults>>

(* The child reports its claim to its parent; an orphan's pipe is broken.   *)
Report(e) ==
  /\ At(e, "report") /\ ~task[e].orphan
  /\ To(e, "running")
  /\ UNCHANGED <<jobs, content, held, sweep, purge, submits, faults>>
-----------------------------------------------------------------------------
\* Mutant: the token of the writer is not compared.
OwnsAny(j, t) == status[j] = "RUNNING"
(* The condition of set_wire and complete_with_snapshot.                    *)
Owns(j, t) == status[j] \notin {"none", "gone"} /\ token[j] = t

(* set_wire to FAILED, by the child or by its parent.                       *)
SetFailed(j, t) ==
  /\ status' = [status EXCEPT ![j] = IF Owns(j, t) THEN "FAILED" ELSE @]
  /\ token' = [token EXCEPT ![j] = IF Owns(j, t) THEN TokenAfterEnd(j) ELSE @]

FailUnclaimed(j) ==
  /\ status' = [status EXCEPT ![j] = IF @ = "QUEUED" THEN "FAILED" ELSE @]
  /\ UNCHANGED token

(* _progress_writer: set_wire to RUNNING.                                   *)
Progress(e) ==
  LET j == task[e].job IN
  /\ At(e, "running")
  /\ status' = [status EXCEPT ![j] = IF Owns(j, task[e].token) THEN "RUNNING" ELSE @]
  /\ UNCHANGED <<token, lapsed, born, claims, answer, content, task, held, sweep, purge, submits,
                 faults>>

(* The pipeline embeds the dossier's segments; the fence ends a run whose   *)
(* dossier was deleted, as does require_live_dossier between its stages.    *)
WriteVectors(e) ==
  LET d == DossierOf[task[e].job] IN
  /\ At(e, "running")
  /\ IF Fenced(d)
     THEN End(e) /\ UNCHANGED vectors
     ELSE vectors' = vectors \cup {d} /\ UNCHANGED <<task, held>>
  /\ UNCHANGED <<jobs, snapshot, tombstone, files, sweep, purge, submits, faults>>

\* Mutant: every completed job publishes its snapshot.
AnyIsLatest(j) == TRUE
(* No job of the dossier created later has succeeded.                       *)
Latest(j) ==
  \A i \in Jobs : DossierOf[i] = DossierOf[j] /\ status[i] = "SUCCEEDED" => born[i] < born[j]

(* complete_with_snapshot: the answer and, when it is the latest, the query *)
(* snapshot, in one transaction.                                            *)
Complete(e, outcome) ==
  LET j == task[e].job
      accepted == status[j] = "RUNNING" /\ Owns(j, task[e].token)
  IN
  /\ At(e, "running")
  /\ IF accepted
     THEN /\ status' = [status EXCEPT ![j] = outcome]
          /\ token' = [token EXCEPT ![j] = TokenAfterEnd(j)]
          /\ answer' = [answer EXCEPT ![j] = task[e].token]
          /\ snapshot' = IF outcome = "SUCCEEDED" /\ Latest(j)
                         THEN [snapshot EXCEPT ![DossierOf[j]] = born[j]] ELSE snapshot
     ELSE UNCHANGED <<status, token, answer, snapshot>>
  /\ End(e)
  /\ UNCHANGED <<lapsed, born, claims, vectors, tombstone, files, sweep, purge, submits, faults>>

(* An exception in the child ends the job: with its token once claimed.     *)
FailRun(e) ==
  LET j == task[e].job IN
  /\ \/ At(e, "claim") /\ FailUnclaimed(j)
     \/ (At(e, "report") \/ At(e, "running")) /\ SetFailed(j, task[e].token)
  /\ End(e)
  /\ UNCHANGED <<lapsed, born, claims, answer, content, sweep, purge, submits, faults>>

(* _run_isolated_job: the child died or is late and is killed.  The parent  *)
(* knows the claim only when it was reported.                               *)
Kill(e) ==
  /\ task[e].at \in {"claim", "report", "running"} /\ ~task[e].orphan
  /\ task' = [task EXCEPT ![e].at = "killed",
                          ![e].token = IF At(e, "running") THEN @ ELSE 0]
  /\ UNCHANGED <<jobs, content, held, sweep, purge, submits, faults>>

RecordKilled(e) ==
  LET j == task[e].job IN
  /\ At(e, "killed")
  /\ IF task[e].token = 0 THEN FailUnclaimed(j) ELSE SetFailed(j, task[e].token)
  /\ End(e)
  /\ UNCHANGED <<lapsed, born, claims, answer, content, sweep, purge, submits, faults>>

(* The API process dies: its memory, the threads and most children with it. *)
Restart ==
  /\ faults < MaxFaults
  /\ \E survivors \in SUBSET {e \in Executors : task[e].at \in {"claim", "report", "running"}} :
       task' = [e \in Executors |->
                  IF e \in survivors THEN [task[e] EXCEPT !.orphan = TRUE]
                  ELSE IF task[e].orphan THEN task[e] ELSE Free]
  /\ held' = {}
  /\ sweep' = "hold"
  /\ purge' = [p \in Purgers |-> NoPurge]
  /\ faults' = faults + 1
  /\ UNCHANGED <<jobs, content, submits>>
-----------------------------------------------------------------------------
(* Time.  A queued job the process holds is renewed every second, long      *)
(* before its lease of a minute ends.                                       *)
Lapse(j) ==
  /\ ~lapsed[j]
  /\ status[j] = "RUNNING" \/ (status[j] = "QUEUED" /\ j \notin held)
  /\ lapsed' = [lapsed EXCEPT ![j] = TRUE]
  /\ UNCHANGED <<status, token, born, claims, answer, content, task, held, sweep, purge, submits,
                 faults>>

(* _sweep_stale_jobs: renew the queued jobs held when it looked, then fail  *)
(* every job whose lease is over.                                           *)
SweepHold ==
  /\ sweep = "hold" /\ \E j \in Jobs : lapsed[j] /\ status[j] \in Pending
  /\ lapsed' = [j \in Jobs |-> lapsed[j] /\ ~(j \in held /\ status[j] = "QUEUED")]
  /\ sweep' = "fail"
  /\ UNCHANGED <<status, token, born, claims, answer, content, task, held, purge, submits, faults>>

\* Mutant: a queued job nobody executes is not swept.
StaleRunning(j) == lapsed[j] /\ status[j] = "RUNNING"
(* The condition of sweep_stale.                                            *)
Stale(j) == lapsed[j] /\ status[j] \in Pending

SweepFail ==
  /\ sweep = "fail"
  /\ status' = [j \in Jobs |-> IF Stale(j) THEN "FAILED" ELSE status[j]]
  /\ token' = [j \in Jobs |-> IF Stale(j) THEN TokenAfterEnd(j) ELSE token[j]]
  /\ sweep' = "hold"
  /\ UNCHANGED <<lapsed, born, claims, answer, content, task, held, purge, submits, faults>>
-----------------------------------------------------------------------------
(* purge_dossier, asked by the Backend, asked again by it, or resumed by    *)
(* retry_pending_purges: erase the rows, remove the files, record the end.  *)
Erase(p, d) ==
  /\ purge[p].at = "idle"
  /\ tombstone' = [tombstone EXCEPT ![d] = "pending"]
  /\ status' = [j \in Jobs |->
                  IF DossierOf[j] = d /\ status[j] # "none" THEN "gone" ELSE status[j]]
  /\ token' = [j \in Jobs |-> IF DossierOf[j] = d THEN 0 ELSE token[j]]
  /\ snapshot' = [snapshot EXCEPT ![d] = 0]
  /\ vectors' = vectors \ {d}
  /\ purge' = [purge EXCEPT ![p] = [at |-> "files", dossier |-> d]]
  /\ UNCHANGED <<lapsed, born, claims, answer, files, task, held, sweep, submits, faults>>

RemoveFiles(p) ==
  /\ purge[p].at = "files"
  /\ \/ /\ files' = files \ {purge[p].dossier}
        /\ purge' = [purge EXCEPT ![p].at = "record"]
        /\ UNCHANGED faults
     \/ /\ faults < MaxFaults /\ faults' = faults + 1
        /\ purge' = [purge EXCEPT ![p] = NoPurge]
        /\ UNCHANGED files
  /\ UNCHANGED <<jobs, snapshot, vectors, tombstone, task, held, sweep, submits>>

RecordPurge(p) ==
  /\ purge[p].at = "record"
  /\ tombstone' = [tombstone EXCEPT ![purge[p].dossier] = "completed"]
  /\ purge' = [purge EXCEPT ![p] = NoPurge]
  /\ UNCHANGED <<jobs, snapshot, vectors, files, task, held, sweep, submits, faults>>

Runs(e) ==
  \/ Start(e) \/ Claim(e) \/ Report(e) \/ FailRun(e) \/ Kill(e) \/ RecordKilled(e)
  \/ \E outcome \in Finished : Complete(e, outcome)
Resumes(p) ==
  RemoveFiles(p) \/ RecordPurge(p) \/ \E d \in Dossiers : tombstone[d] = "pending" /\ Erase(p, d)

Next ==
  \/ \E e \in Executors :
       Runs(e) \/ SpawnFails(e) \/ Progress(e) \/ WriteVectors(e) \/ \E j \in Jobs : Submit(j, e)
  \/ Restart \/ SweepHold \/ SweepFail
  \/ \E j \in Jobs : Lapse(j)
  \/ \E p \in Purgers : RemoveFiles(p) \/ RecordPurge(p) \/ \E d \in Dossiers : Erase(p, d)

Spec == Init /\ [][Next]_vars

(* Executors run or are killed in the end, leases run out, the sweep of     *)
(* every second goes on and resumes pending purges.                         *)
FairSpec ==
  /\ Spec
  /\ \A e \in Executors : WF_vars(Runs(e))
  /\ \A j \in Jobs : WF_vars(Lapse(j))
  /\ WF_vars(SweepHold \/ SweepFail)
  /\ \A p \in Purgers : WF_vars(Resumes(p))
-----------------------------------------------------------------------------
TypeOK ==
  /\ status \in [Jobs -> {"none", "gone"} \cup Pending \cup Finished]
  /\ token \in [Jobs -> Nat] /\ lapsed \in [Jobs -> BOOLEAN]
  /\ born \in [Jobs -> Nat] /\ claims \in [Jobs -> Nat] /\ answer \in [Jobs -> Nat]
  /\ snapshot \in [Dossiers -> Nat] /\ vectors \in SUBSET Dossiers
  /\ tombstone \in [Dossiers -> {"none", "pending", "completed"}]
  /\ files \in SUBSET Dossiers
  /\ task \in [Executors -> [at : {"idle", "wait"} \cup InSlot, job : Jobs, token : Nat,
                             orphan : BOOLEAN]]
  /\ held \in SUBSET Jobs /\ sweep \in {"hold", "fail"}
  /\ purge \in [Purgers -> [at : {"idle", "files", "record"}, dossier : Dossiers]]
  /\ submits \in Nat /\ faults \in Nat

(* A job that ended stays as it ended, until its dossier is purged: no late *)
(* progress report, answer, kill or sweep of another executor reopens it or *)
(* turns an answer into a failure.                                          *)
FinishedStays ==
  [][\A j \in Jobs : status[j] \in Finished => status'[j] \in {status[j], "gone"}]_vars

(* A succeeded job carries the answer of the execution that claimed it      *)
(* last: one that was given up for dead and replaced never answers for it.  *)
AnswerOfLastClaim ==
  \A j \in Jobs : status[j] = "SUCCEEDED" => answer[j] = claims[j]

(* What /query reads is the snapshot of the latest created of the jobs of   *)
(* the dossier that succeeded, in whatever order they ended.                *)
SnapshotIsLatest ==
  \A j \in Jobs : status[j] = "SUCCEEDED" =>
    \E i \in Jobs : /\ DossierOf[i] = DossierOf[j] /\ status[i] = "SUCCEEDED"
                    /\ born[j] <= born[i] /\ snapshot[DossierOf[j]] = born[i]

(* Nothing of a purged dossier is written again - by a run still in flight, *)
(* an orphan or a new submission - and its purge is not recorded completed  *)
(* while its files are there.                                               *)
NothingAfterPurge ==
  \A d \in Dossiers : tombstone[d] # "none" =>
    /\ snapshot[d] = 0 /\ d \notin vectors
    /\ \A j \in Jobs : DossierOf[j] = d => status[j] \in {"none", "gone"}
    /\ tombstone[d] = "completed" => d \notin files

(* Every job ends: executor dead, never started or hung, job queued behind  *)
(* another or left by a restart (ST-067: a poll always ends).               *)
EveryJobEnds == \A j \in Jobs : status[j] \in Pending ~> status[j] \notin Pending
=============================================================================
