--------------------------- MODULE UploadSessions ---------------------------
(***************************************************************************)
(* Chunked upload of a dossier (backend/.../upload_session_router.py and   *)
(* upload_session_store.py): a user opens a session, sends the chunks of   *)
(* its files and completes it, which joins the chunks and creates the      *)
(* dossier.  Requests run in several API processes; the session row in     *)
(* PostgreSQL, changed by conditional UPDATEs, is all that orders them.    *)
(* The sweep of the maintenance loop removes what is over.                 *)
(*                                                                         *)
(* One user's sessions; a chunk object is the number of the send that      *)
(* stored it, its key being new for every send.                            *)
(***************************************************************************)
EXTENDS Naturals, FiniteSets

CONSTANTS
  Uploads,    \* session ids
  Slots,      \* the (file, chunk) pairs every session declares
  Requests,   \* requests in flight at once
  Cap,        \* upload_sessions_per_user
  Slow,       \* may building a dossier take COMPLETING_STALE_AFTER?
  MaxSends,   \* bound on chunks sent
  MaxFaults   \* bound on crashes and failures

ASSUME SetsAssumption == Uploads # {} /\ IsFiniteSet(Uploads) /\ Slots # {}
ASSUME CapAssumption == Cap \in Nat \ {0}
ASSUME SlowAssumption == Slow \in BOOLEAN
ASSUME BoundsAssumption == MaxSends \in Nat /\ MaxFaults \in Nat

VARIABLES
  status,    \* upload_session.status; "none" before it is opened, "gone" once swept
  age,       \* since updated_at: 0, 1 (EVICT_IDLE_AFTER), 2 (COMPLETING_STALE_AFTER)
  life,      \* since created_at: 0, 1 (past expires_at), 2 (COMPLETED_KEEP)
  chunks,    \* upload_session_chunk: the object of each slot, 0 without a row
  acked,     \* the send last acknowledged for each slot
  built,     \* dossiers committed for a session
  contents,  \* the chunks the last of them was joined from
  objects,   \* chunk objects in MinIO
  request,   \* per request in flight: its step and its local variables
  lock,      \* requests that hold the user's advisory lock
  sweep,     \* the sweep: its step, the ids it selected and their objects
  sends,
  faults

store == <<status, age, life, chunks, acked, built, contents>>
vars == <<store, objects, request, lock, sweep, sends, faults>>

Statuses == {"none", "open", "completing", "completed", "cancelled", "gone"}
Building == {"claimed", "join", "finish"}
NoRows == [c \in Slots |-> 0]
Objects(row) == {row[c] : c \in Slots} \ {0}

Idle == [at |-> "idle", upload |-> CHOOSE u \in Uploads : TRUE,
         slot |-> CHOOSE c \in Slots : TRUE, object |-> 0, rows |-> NoRows,
         counted |-> 0, doomed |-> {}]
NotSweeping == [at |-> "idle", ids |-> {}, paths |-> {}]

At(r, step) == request[r].at = step
Leave(r) == request' = [request EXCEPT ![r] = Idle]
To(r, step) == request' = [request EXCEPT ![r].at = step]
ThenDelete(r, paths) ==
  request' = [request EXCEPT ![r] = IF paths = {} THEN Idle
                                    ELSE [Idle EXCEPT !.at = "delete", !.doomed = paths]]
BuiltFor(u) == {r \in Requests : request[r].at \in Building /\ request[r].upload = u}

\* Mutant: a completing session is never found stale.
NeverStale(u) == FALSE
(* stale_completing: the request that held the session died.               *)
Stale(u) == status[u] = "completing" /\ age[u] = 2

\* Mutant: any completing session may be claimed again.
ClaimableAlways(u) == status[u] \in {"open", "completing"}
(* The condition of claim_for_completion.                                  *)
Claimable(u) == status[u] = "open" \/ Stale(u)

Init ==
  /\ status = [u \in Uploads |-> "none"]
  /\ age = [u \in Uploads |-> 0]
  /\ life = [u \in Uploads |-> 0]
  /\ chunks = [u \in Uploads |-> NoRows]
  /\ acked = [u \in Uploads |-> NoRows]
  /\ built = [u \in Uploads |-> 0]
  /\ contents = [u \in Uploads |-> NoRows]
  /\ objects = {}
  /\ request = [r \in Requests |-> Idle]
  /\ lock = {}
  /\ sweep = NotSweeping
  /\ sends = 0
  /\ faults = 0
-----------------------------------------------------------------------------
(* POST /uploads: count, evict and create under the user's lock, one commit *)
(* at the end.  A session past expires_at is not counted.                   *)
CountOpen ==
  Cardinality({u \in Uploads : status[u] \in {"open", "completing"} /\ life[u] = 0})
Evictable == {u \in Uploads : status[u] = "open" /\ life[u] = 0 /\ age[u] >= 1}

\* Mutant: no lock around count, evict and create.
OwnerLockSkipped(r) == TRUE
OwnerLockFree(r) == lock = {}

OpenCount(r) ==
  /\ At(r, "idle") /\ OwnerLockFree(r)
  /\ Cardinality({u \in Uploads : status[u] = "none"})
       > Cardinality(lock)
  /\ lock' = lock \cup {r}
  /\ request' = [request EXCEPT ![r] = [Idle EXCEPT !.at = "open", !.counted = CountOpen]]
  /\ UNCHANGED <<store, objects, sweep, sends, faults>>

Excess(r) == IF request[r].counted >= Cap THEN request[r].counted + 1 - Cap ELSE 0
Room(r) == Excess(r) <= Cardinality(Evictable)

(* Which of the idle sessions go is left open: the code takes the oldest.   *)
(* Without room for one more the answer is 429.                             *)
OpenCommit(r) ==
  /\ At(r, "open")
  /\ \E evicted \in SUBSET Evictable, opened \in SUBSET {u \in Uploads : status[u] = "none"} :
       /\ Cardinality(evicted) = IF Room(r) THEN Excess(r) ELSE Cardinality(Evictable)
       /\ Cardinality(opened) = IF Room(r) THEN 1 ELSE 0
       /\ status' = [u \in Uploads |->
                       IF u \in evicted THEN "cancelled"
                       ELSE IF u \in opened THEN "open" ELSE status[u]]
       /\ chunks' = [u \in Uploads |-> IF u \in evicted THEN NoRows ELSE chunks[u]]
       /\ age' = [u \in Uploads |-> IF u \in evicted THEN 0 ELSE age[u]]
       /\ ThenDelete(r, UNION {Objects(chunks[u]) : u \in evicted})
  /\ lock' = lock \ {r}
  /\ UNCHANGED <<life, acked, built, contents, objects, sweep, sends, faults>>
-----------------------------------------------------------------------------
\* Mutant: a chunk sent again overwrites its object.
SlotKey(u, c) == IF chunks[u][c] = 0 THEN sends + 1 ELSE chunks[u][c]
(* chunk_key: new for every send.                                           *)
ChunkKey(u, c) == sends + 1

(* PUT chunk: the session was open when read; the body goes to its key.     *)
PutStore(r, u, c) ==
  /\ At(r, "idle") /\ sends < MaxSends
  /\ status[u] = "open" /\ life[u] = 0
  /\ sends' = sends + 1
  /\ objects' = objects \cup {ChunkKey(u, c)}
  /\ request' = [request EXCEPT ![r] =
                   [Idle EXCEPT !.at = "save", !.upload = u, !.slot = c,
                         !.object = ChunkKey(u, c)]]
  /\ UNCHANGED <<store, lock, sweep, faults>>

(* touch_open: a conditional UPDATE that holds the row until the commit.    *)
TouchOpen(u) == status[u] = "open"

(* touch_open, save_chunk and commit; the send this one replaces, or the    *)
(* object of a refused send, is deleted after it.                           *)
PutSave(r) ==
  LET u == request[r].upload
      c == request[r].slot
      o == request[r].object
  IN
  /\ At(r, "save")
  /\ IF TouchOpen(u)
     THEN /\ chunks' = [chunks EXCEPT ![u][c] = o]
          /\ acked' = [acked EXCEPT ![u][c] = o]
          /\ age' = [age EXCEPT ![u] = 0]
          /\ ThenDelete(r, {chunks[u][c]} \ {0, o})
     ELSE ThenDelete(r, {o}) /\ UNCHANGED <<chunks, acked, age>>
  /\ UNCHANGED <<status, life, built, contents, objects, lock, sweep, sends, faults>>

(* delete_objects_quietly.                                                  *)
DeleteObjects(r) ==
  /\ At(r, "delete")
  /\ objects' = objects \ request[r].doomed
  /\ Leave(r)
  /\ UNCHANGED <<store, lock, sweep, sends, faults>>
-----------------------------------------------------------------------------
(* POST complete, up to the claim: the session read is open or stale, not   *)
(* expired, and has a row for every chunk.                                  *)
CompleteRead(r, u) ==
  /\ At(r, "idle")
  /\ Claimable(u) /\ life[u] = 0
  /\ \A c \in Slots : chunks[u][c] # 0
  /\ request' = [request EXCEPT ![r] =
                   [Idle EXCEPT !.at = "claim", !.upload = u, !.rows = chunks[u]]]
  /\ UNCHANGED <<store, objects, lock, sweep, sends, faults>>

(* claim_for_completion and its commit; else the answer is 409, or the      *)
(* dossier of a session completed meanwhile.                                *)
Claim(r) ==
  LET u == request[r].upload IN
  /\ At(r, "claim")
  /\ IF Claimable(u)
     THEN /\ status' = [status EXCEPT ![u] = "completing"]
          /\ age' = [age EXCEPT ![u] = 0]
          /\ To(r, "claimed")
     ELSE Leave(r) /\ UNCHANGED <<status, age>>
  /\ UNCHANGED <<life, chunks, acked, built, contents, objects, lock, sweep, sends, faults>>

\* Mutant: the rows read before the claim are used.
RowsBeforeClaim(r) == request[r].rows
(* The chunk rows, read again now that no chunk can be added.               *)
RowsToJoin(r) == chunks[request[r].upload]

ReadChunks(r) ==
  /\ At(r, "claimed")
  /\ request' = [request EXCEPT ![r].rows = RowsToJoin(r), ![r].at = "join"]
  /\ UNCHANGED <<store, objects, lock, sweep, sends, faults>>

(* Download and join: a chunk without a row makes the sizes differ, one     *)
(* without an object fails its download.                                    *)
Whole(r) == \A c \in Slots : request[r].rows[c] \in objects

Join(r) ==
  /\ At(r, "join") /\ Whole(r)
  /\ To(r, "finish")
  /\ UNCHANGED <<store, objects, lock, sweep, sends, faults>>

(* stage_new_dossier and finish, in one commit.  finish updates the row by  *)
(* its primary key, whatever its status; a row that was swept fails it.     *)
Finish(r) ==
  LET u == request[r].upload IN
  /\ At(r, "finish") /\ status[u] # "gone"
  /\ status' = [status EXCEPT ![u] = "completed"]
  /\ age' = [age EXCEPT ![u] = 0]
  /\ chunks' = [chunks EXCEPT ![u] = NoRows]
  /\ built' = [built EXCEPT ![u] = @ + 1]
  /\ contents' = [contents EXCEPT ![u] = request[r].rows]
  /\ ThenDelete(r, Objects(chunks[u]))
  /\ UNCHANGED <<life, acked, objects, lock, sweep, sends, faults>>

(* The condition of reopen.                                                 *)
Reopenable(u) == status[u] = "completing"

(* Building failed: rollback, then reopen and its commit.                   *)
FailBuilding(r) ==
  LET u == request[r].upload IN
  /\ At(r, "join") \/ At(r, "finish")
  /\ IF (At(r, "join") /\ ~Whole(r)) \/ (At(r, "finish") /\ status[u] = "gone")
     THEN UNCHANGED faults
     ELSE faults < MaxFaults /\ faults' = faults + 1
  /\ IF Reopenable(u)
     THEN status' = [status EXCEPT ![u] = "open"] /\ age' = [age EXCEPT ![u] = 0]
     ELSE UNCHANGED <<status, age>>
  /\ Leave(r)
  /\ UNCHANGED <<life, chunks, acked, built, contents, objects, lock, sweep, sends>>

(* DELETE an upload: cancel_if_open, and its chunk rows.                    *)
Cancel(r, u) ==
  /\ At(r, "idle") /\ status[u] = "open"
  /\ status' = [status EXCEPT ![u] = "cancelled"]
  /\ age' = [age EXCEPT ![u] = 0]
  /\ chunks' = [chunks EXCEPT ![u] = NoRows]
  /\ ThenDelete(r, Objects(chunks[u]))
  /\ UNCHANGED <<life, acked, built, contents, objects, lock, sweep, sends, faults>>

(* The process of a request dies, or the client goes away: what it had not  *)
(* committed is rolled back, the objects it would have deleted are left.    *)
Crash(r) ==
  /\ ~At(r, "idle") /\ faults < MaxFaults
  /\ Leave(r)
  /\ lock' = lock \ {r}
  /\ faults' = faults + 1
  /\ UNCHANGED <<store, objects, sweep, sends>>
-----------------------------------------------------------------------------
(* What sweep_expired_sessions selects.                                     *)
Over(u) ==
  \/ life[u] >= 1 /\ (status[u] \in {"open", "cancelled"} \/ Stale(u))
  \/ life[u] = 2 /\ status[u] = "completed"

SweepSelect ==
  LET over == {u \in Uploads : Over(u)} IN
  /\ sweep.at = "idle" /\ over # {}
  /\ sweep' = [at |-> "delete", ids |-> over,
               paths |-> UNION {Objects(chunks[u]) : u \in over}]
  /\ UNCHANGED <<store, objects, request, lock, sends, faults>>

(* The rows of the selected ids go, whatever happened to them since.        *)
SweepDelete ==
  /\ sweep.at = "delete"
  /\ status' = [u \in Uploads |-> IF u \in sweep.ids THEN "gone" ELSE status[u]]
  /\ chunks' = [u \in Uploads |-> IF u \in sweep.ids THEN NoRows ELSE chunks[u]]
  /\ age' = [u \in Uploads |-> IF u \in sweep.ids THEN 0 ELSE age[u]]
  /\ life' = [u \in Uploads |-> IF u \in sweep.ids THEN 0 ELSE life[u]]
  /\ sweep' = [sweep EXCEPT !.at = "objects", !.ids = {}]
  /\ UNCHANGED <<acked, built, contents, objects, request, lock, sends, faults>>

SweepObjects ==
  /\ sweep.at = "objects"
  /\ objects' = objects \ sweep.paths
  /\ sweep' = NotSweeping
  /\ UNCHANGED <<store, request, lock, sends, faults>>

CrashSweep ==
  /\ sweep.at # "idle" /\ faults < MaxFaults
  /\ sweep' = NotSweeping
  /\ faults' = faults + 1
  /\ UNCHANGED <<store, objects, request, lock, sends>>
-----------------------------------------------------------------------------
(* Time.  Unless Slow, a dossier is built well within                       *)
(* COMPLETING_STALE_AFTER of the claim (the answer is due in 100 seconds).  *)
Tick(u) ==
  /\ status[u] \in {"open", "completing"} /\ age[u] < 2
  /\ age[u] = 1 /\ BuiltFor(u) # {} => Slow
  /\ age' = [age EXCEPT ![u] = @ + 1]
  /\ UNCHANGED <<status, life, chunks, acked, built, contents, objects, request, lock, sweep,
                 sends, faults>>

(* Only a completed row is kept past expires_at.                            *)
Pass(u) ==
  /\ status[u] \notin {"none", "gone"} /\ life[u] < 2
  /\ life[u] = 1 => status[u] = "completed"
  /\ life' = [life EXCEPT ![u] = @ + 1]
  /\ UNCHANGED <<status, age, chunks, acked, built, contents, objects, request, lock, sweep,
                 sends, faults>>

Steps(r) ==
  \/ OpenCommit(r) \/ PutSave(r) \/ DeleteObjects(r) \/ Claim(r) \/ ReadChunks(r)
  \/ Join(r) \/ Finish(r) \/ FailBuilding(r)

Sweep == SweepSelect \/ SweepDelete \/ SweepObjects

Next ==
  \/ \E r \in Requests :
       \/ OpenCount(r) \/ Steps(r) \/ Crash(r)
       \/ \E u \in Uploads, c \in Slots : PutStore(r, u, c)
       \/ \E u \in Uploads : CompleteRead(r, u) \/ Cancel(r, u)
  \/ Sweep \/ CrashSweep
  \/ \E u \in Uploads : Tick(u) \/ Pass(u)

Spec == Init /\ [][Next]_vars

(* Requests run on, the maintenance loop sweeps, time passes.               *)
FairSpec ==
  /\ Spec
  /\ \A r \in Requests : WF_vars(Steps(r))
  /\ WF_vars(Sweep)
  /\ \A u \in Uploads : WF_vars(Tick(u)) /\ WF_vars(Pass(u))
-----------------------------------------------------------------------------
Calls == [at : {"idle", "open", "save", "claim", "delete"} \cup Building,
          upload : Uploads, slot : Slots, object : Nat, rows : [Slots -> Nat],
          counted : Nat, doomed : SUBSET Nat]

TypeOK ==
  /\ status \in [Uploads -> Statuses]
  /\ age \in [Uploads -> 0..2] /\ life \in [Uploads -> 0..2]
  /\ chunks \in [Uploads -> [Slots -> Nat]]
  /\ acked \in [Uploads -> [Slots -> Nat]]
  /\ built \in [Uploads -> Nat]
  /\ contents \in [Uploads -> [Slots -> Nat]]
  /\ objects \in SUBSET (Nat \ {0})
  /\ request \in [Requests -> Calls]
  /\ lock \in SUBSET Requests
  /\ sweep \in [at : {"idle", "delete", "objects"}, ids : SUBSET Uploads, paths : SUBSET Nat]
  /\ sends \in Nat /\ faults \in Nat

(* A session gives at most one dossier, whatever completions, retries of a  *)
(* lost answer, takeovers of an abandoned completion and sweeps race for it *)
(* (claim_for_completion: only one dossier per session).                    *)
OneDossier == \A u \in Uploads : built[u] <= 1

(* The dossier's files are joined from the send last acknowledged for every *)
(* chunk: a chunk sent again just before the claim is not lost, and no      *)
(* chunk is accepted once the bytes are being joined.                       *)
DossierIsLastSent ==
  \A u \in Uploads : built[u] > 0 => contents[u] = acked[u] /\ \A c \in Slots : acked[u][c] # 0

(* A chunk row never points to an object that was deleted: a send that was  *)
(* refused, replaced or cancelled takes only its own object with it.        *)
RowsHaveObjects ==
  \A u \in Uploads : Objects(chunks[u]) \subseteq objects

(* A user never has more than upload_sessions_per_user unfinished sessions  *)
(* that count, however many are opened at once.                             *)
CapHolds == CountOpen <= Cap

(* Whatever became of it - abandoned, cancelled, completed, its completion  *)
(* dead half-way - a session is gone in the end: no user is locked out.     *)
EverySessionEnds == \A u \in Uploads : status[u] # "none" ~> status[u] = "gone"
=============================================================================
