------------------------- MODULE UploadStoreProofs --------------------------
(***************************************************************************)
(* What the chunk rows of an upload session point to, and how many         *)
(* sessions a user has open, for any number of sessions, requests, chunks  *)
(* and faults, and however long a dossier takes to build: none of it needs *)
(* the assumption of UploadSessionsProofs that Slow is false.              *)
(*                                                                         *)
(* Objects are deleted after the commit that drops their rows, by requests *)
(* that remember which: RowsHaveObjects is inductive only with who may     *)
(* still mention an object.  An object is in one row at most (RowsOwn), or *)
(* is a send whose row is yet to be written (SavesOwn), or is waiting to   *)
(* be deleted (DoomedUnused, SweptUnused), and a key is never given twice  *)
(* (Numbered).                                                             *)
(***************************************************************************)
EXTENDS UploadSessionsProofs

InRow(o) == o # 0 /\ \E u \in Uploads, c \in Slots : chunks[u][c] = o
InSave(o) == \E r \in Requests : At(r, "save") /\ request[r].object = o

Numbered ==
  /\ \A u \in Uploads, c \in Slots : chunks[u][c] <= sends
  /\ \A r \in Requests :
       /\ At(r, "save") => request[r].object \in 1..sends
       /\ \A o \in request[r].doomed : o <= sends
  /\ \A o \in sweep.paths : o <= sends

RowsOwn ==
  \A u, v \in Uploads, c, d \in Slots :
    chunks[u][c] = chunks[v][d] /\ chunks[u][c] # 0 => u = v /\ c = d

SavesOwn ==
  \A r \in Requests : At(r, "save") =>
    /\ request[r].object \in objects /\ ~InRow(request[r].object)
    /\ \A q \in Requests : At(q, "save") /\ request[q].object = request[r].object => q = r

DoomedUnused ==
  \A r \in Requests : \A o \in request[r].doomed : ~InRow(o) /\ ~InSave(o)

(* The sweep selects objects before their rows go: until then they are in    *)
(* rows of the sessions it selected.                                         *)
SweptUnused ==
  /\ sweep.at # "delete" => sweep.ids = {}
  /\ \A o \in sweep.paths :
       /\ ~InSave(o)
       /\ \A u \in Uploads \ sweep.ids, c \in Slots : o # 0 => chunks[u][c] # o

StoreIntegrity ==
  TypeOK /\ Numbered /\ RowsHaveObjects /\ RowsOwn /\ SavesOwn /\ DoomedUnused /\ SweptUnused

(* The request that holds the user's lock has counted all the open sessions: *)
(* until it commits their number can only fall.                              *)
OneOpener ==
  /\ \A r, q \in lock : r = q
  /\ \A r \in Requests : At(r, "open") => r \in lock /\ CountOpen <= request[r].counted

CapIntegrity == TypeOK /\ OneOpener /\ CapHolds
-----------------------------------------------------------------------------
(* Types, without the assumption that no dossier takes long.                 *)
LEMMA CountOpenType == CountOpen \in Nat
  <1>1. IsFiniteSet({u \in Uploads : status[u] \in {"open", "completing"} /\ life[u] = 0})
    BY SetsAssumption, FS_Subset
  <1> QED
    BY <1>1, FS_CardinalityType DEF CountOpen

LEMMA OpenTypes ==
  ASSUME TypeOK, NEW r \in Requests
  PROVE  OpenCount(r) \/ OpenCommit(r) => TypeOK'
  <1>1. ASSUME OpenCount(r) PROVE TypeOK'
    <2> DEFINE call == [Idle EXCEPT !.at = "open", !.counted = CountOpen]
    <2>1. call \in Calls
      BY IdleType, CountOpenType DEF Calls
    <2>2. request' = [request EXCEPT ![r] = call]
      BY <1>1 DEF OpenCount
    <2> HIDE DEF call
    <2> QED
      BY <1>1, <2>1, <2>2 DEF OpenCount, TypeOK, store
  <1>2. ASSUME OpenCommit(r) PROVE TypeOK'
    <2>1. PICK evicted \in SUBSET Evictable, opened \in SUBSET {u \in Uploads : status[u] = "none"} :
            /\ status' = [u \in Uploads |->
                            IF u \in evicted THEN "cancelled"
                            ELSE IF u \in opened THEN "open" ELSE status[u]]
            /\ chunks' = [u \in Uploads |-> IF u \in evicted THEN NoRows ELSE chunks[u]]
            /\ age' = [u \in Uploads |-> IF u \in evicted THEN 0 ELSE age[u]]
            /\ ThenDelete(r, UNION {Objects(chunks[u]) : u \in evicted})
      BY <1>2 DEF OpenCommit
    <2>2. UNION {Objects(chunks[u]) : u \in evicted} \in SUBSET Nat
      <3>1. \A u \in evicted : Objects(chunks[u]) \in SUBSET Nat
        BY ObjectsType DEF Evictable, TypeOK
      <3> QED
        BY <3>1
    <2> HIDE DEF ThenDelete
    <2>3. request' \in [Requests -> Calls]
      BY <2>1, <2>2, EndsCall
    <2>4. /\ status' \in [Uploads -> Statuses] /\ age' \in [Uploads -> 0..2]
          /\ chunks' \in [Uploads -> [Slots -> Nat]]
      BY <2>1, IdleType DEF TypeOK, Statuses
    <2> QED
      BY <1>2, <2>3, <2>4 DEF OpenCommit, TypeOK
  <1> QED
    BY <1>1, <1>2

LEMMA PutTypes ==
  ASSUME TypeOK, NEW r \in Requests
  PROVE  PutSave(r) \/ DeleteObjects(r) \/ (\E u \in Uploads, c \in Slots : PutStore(r, u, c))
           => TypeOK'
  <1>1. ASSUME NEW u \in Uploads, NEW c \in Slots, PutStore(r, u, c) PROVE TypeOK'
    <2> DEFINE call == [Idle EXCEPT !.at = "save", !.upload = u, !.slot = c,
                                    !.object = ChunkKey(u, c)]
    <2>1. ChunkKey(u, c) \in Nat \ {0}
      BY DEF ChunkKey, TypeOK
    <2>2. call \in Calls
      BY <2>1, IdleType DEF Calls
    <2>3. request' = [request EXCEPT ![r] = call]
      BY <1>1 DEF PutStore
    <2>4. /\ objects' = objects \cup {ChunkKey(u, c)} /\ sends' = sends + 1
          /\ UNCHANGED <<store, lock, sweep, faults>>
      BY <1>1 DEF PutStore
    <2> HIDE DEF call
    <2>5. request' \in [Requests -> Calls]
      BY <2>2, <2>3 DEF TypeOK
    <2>6. objects' \in SUBSET (Nat \ {0}) /\ sends' \in Nat
      <3>1. objects \subseteq Nat \ {0} /\ sends \in Nat
        BY DEF TypeOK
      <3>2. objects' = objects \cup {sends + 1} /\ sends' = sends + 1
        BY <2>4 DEF ChunkKey
      <3> QED
        BY <3>1, <3>2
    <2> QED
      BY <2>4, <2>5, <2>6 DEF TypeOK, store
  <1>2. ASSUME PutSave(r) PROVE TypeOK'
    <2> DEFINE u == request[r].upload
               c == request[r].slot
               o == request[r].object
    <2>1. u \in Uploads /\ c \in Slots /\ o \in Nat /\ chunks[u][c] \in Nat
      BY DEF TypeOK, Calls
    <2>2. \E paths \in SUBSET Nat : ThenDelete(r, paths)
      <3>1. {chunks[u][c]} \ {0, o} \in SUBSET Nat /\ {o} \in SUBSET Nat
        BY <2>1
      <3> HIDE DEF ThenDelete
      <3> QED
        BY <1>2, <3>1 DEF PutSave
    <2>3. request' \in [Requests -> Calls]
      BY <2>2, EndsCall
    <2>4. /\ chunks' \in [Uploads -> [Slots -> Nat]] /\ acked' \in [Uploads -> [Slots -> Nat]]
          /\ age' \in [Uploads -> 0..2]
      <3>1. CASE TouchOpen(u)
        <4>1. /\ chunks' = [chunks EXCEPT ![u][c] = o] /\ acked' = [acked EXCEPT ![u][c] = o]
              /\ age' = [age EXCEPT ![u] = 0]
          BY <1>2, <3>1 DEF PutSave
        <4> HIDE DEF u, c, o
        <4> QED
          BY <2>1, <4>1 DEF TypeOK
      <3>2. CASE ~TouchOpen(u)
        BY <1>2, <3>2 DEF PutSave, TypeOK
      <3> QED
        BY <3>1, <3>2
    <2>5. UNCHANGED <<status, life, built, contents, objects, lock, sweep, sends, faults>>
      BY <1>2 DEF PutSave
    <2> QED
      BY <2>3, <2>4, <2>5 DEF TypeOK
  <1>3. ASSUME DeleteObjects(r) PROVE TypeOK'
    BY <1>3, EndsCall DEF DeleteObjects, TypeOK, store
  <1> QED
    BY <1>1, <1>2, <1>3

LEMMA CompletionTypes ==
  ASSUME TypeOK, NEW r \in Requests
  PROVE  Claim(r) \/ ReadChunks(r) \/ Join(r) \/ FailBuilding(r)
         \/ (\E u \in Uploads : CompleteRead(r, u)) => TypeOK'
  <1>1. ASSUME NEW u \in Uploads, CompleteRead(r, u) PROVE TypeOK'
    <2> DEFINE call == [Idle EXCEPT !.at = "claim", !.upload = u, !.rows = chunks[u]]
    <2>1. call \in Calls
      BY IdleType DEF Calls, TypeOK
    <2>2. request' = [request EXCEPT ![r] = call]
      BY <1>1 DEF CompleteRead
    <2>3. UNCHANGED <<store, objects, lock, sweep, sends, faults>>
      BY <1>1 DEF CompleteRead
    <2> HIDE DEF call
    <2> QED
      BY <2>1, <2>2, <2>3 DEF TypeOK, store
  <1>2. /\ request[r] \in Calls /\ request[r].upload \in Uploads
        /\ chunks[request[r].upload] \in [Slots -> Nat]
    BY DEF TypeOK, Calls
  <1>3. ASSUME Claim(r) PROVE TypeOK'
    <2>1. request' \in [Requests -> Calls]
      <3>1. CASE Leave(r)
        BY <3>1, EndsCall
      <3>2. CASE To(r, "claimed")
        <4>1. [request[r] EXCEPT !.at = "claimed"] \in Calls
          BY <1>2 DEF Calls, Building
        <4> QED
          BY <3>2, <4>1 DEF To, TypeOK
      <3> QED
        BY <1>3, <3>1, <3>2 DEF Claim
    <2>2. status' \in [Uploads -> Statuses] /\ age' \in [Uploads -> 0..2]
      <3>1. CASE Claimable(request[r].upload)
        <4>1. /\ status' = [status EXCEPT ![request[r].upload] = "completing"]
              /\ age' = [age EXCEPT ![request[r].upload] = 0]
          BY <1>3, <3>1 DEF Claim
        <4> QED
          BY <1>2, <4>1 DEF TypeOK, Statuses
      <3>2. CASE ~Claimable(request[r].upload)
        BY <1>3, <3>2 DEF Claim, TypeOK
      <3> QED
        BY <3>1, <3>2
    <2>3. UNCHANGED <<life, chunks, acked, built, contents, objects, lock, sweep, sends, faults>>
      BY <1>3 DEF Claim
    <2> QED
      BY <2>1, <2>2, <2>3 DEF TypeOK
  <1>4. ASSUME ReadChunks(r) PROVE TypeOK'
    <2>1. [request[r] EXCEPT !.rows = RowsToJoin(r), !.at = "join"] \in Calls
      BY <1>2 DEF Calls, Building, RowsToJoin
    <2>2. request' = [request EXCEPT ![r] = [request[r] EXCEPT !.rows = RowsToJoin(r), !.at = "join"]]
      BY <1>4 DEF ReadChunks, TypeOK, RowsToJoin, Calls
    <2>3. request' \in [Requests -> Calls]
      BY <2>1, <2>2 DEF TypeOK
    <2> QED
      BY <1>4, <2>3 DEF ReadChunks, TypeOK, store
  <1>5. ASSUME Join(r) PROVE TypeOK'
    <2>1. [request[r] EXCEPT !.at = "finish"] \in Calls
      BY <1>2 DEF Calls, Building
    <2>2. request' \in [Requests -> Calls]
      BY <1>5, <2>1 DEF Join, To, TypeOK
    <2> QED
      BY <1>5, <2>2 DEF Join, TypeOK, store
  <1>6. ASSUME FailBuilding(r) PROVE TypeOK'
    <2>1. request' \in [Requests -> Calls]
      BY <1>6, EndsCall DEF FailBuilding
    <2>2. /\ status' \in [Uploads -> Statuses] /\ age' \in [Uploads -> 0..2]
      <3>1. CASE Reopenable(request[r].upload)
        <4>1. /\ status' = [status EXCEPT ![request[r].upload] = "open"]
              /\ age' = [age EXCEPT ![request[r].upload] = 0]
          BY <1>6, <3>1 DEF FailBuilding
        <4> QED
          BY <1>2, <4>1 DEF TypeOK, Statuses
      <3>2. CASE ~Reopenable(request[r].upload)
        BY <1>6, <3>2 DEF FailBuilding, TypeOK
      <3> QED
        BY <3>1, <3>2
    <2>3. /\ UNCHANGED <<life, chunks, acked, built, contents, objects, lock, sweep, sends>>
          /\ faults' \in Nat
      BY <1>6 DEF FailBuilding, TypeOK
    <2> QED
      BY <2>1, <2>2, <2>3 DEF TypeOK
  <1> QED
    BY <1>1, <1>3, <1>4, <1>5, <1>6

LEMMA EndTypes ==
  ASSUME TypeOK, NEW r \in Requests
  PROVE  Finish(r) \/ Crash(r) \/ (\E u \in Uploads : Cancel(r, u)) => TypeOK'
  <1>1. ASSUME Finish(r) PROVE TypeOK'
    <2>1. /\ request[r].upload \in Uploads /\ request[r].rows \in [Slots -> Nat]
          /\ Objects(chunks[request[r].upload]) \in SUBSET Nat
      <3>1. request[r].upload \in Uploads /\ request[r].rows \in [Slots -> Nat]
        BY DEF TypeOK, Calls
      <3> QED
        BY <3>1, ObjectsType DEF TypeOK
    <2>2. request' \in [Requests -> Calls]
      BY <1>1, <2>1, EndsCall DEF Finish
    <2>3. /\ status' \in [Uploads -> Statuses] /\ age' \in [Uploads -> 0..2]
          /\ chunks' \in [Uploads -> [Slots -> Nat]] /\ built' \in [Uploads -> Nat]
          /\ contents' \in [Uploads -> [Slots -> Nat]]
      BY <1>1, <2>1, IdleType DEF Finish, TypeOK, Statuses
    <2> QED
      BY <1>1, <2>2, <2>3 DEF Finish, TypeOK
  <1>2. ASSUME NEW u \in Uploads, Cancel(r, u) PROVE TypeOK'
    <2>1. Objects(chunks[u]) \in SUBSET Nat
      BY ObjectsType DEF TypeOK
    <2>2. request' \in [Requests -> Calls]
      BY <1>2, <2>1, EndsCall DEF Cancel
    <2> QED
      BY <1>2, <2>2, IdleType DEF Cancel, TypeOK, Statuses
  <1>3. ASSUME Crash(r) PROVE TypeOK'
    <2>1. request' \in [Requests -> Calls]
      BY <1>3, EndsCall DEF Crash
    <2> QED
      BY <1>3, <2>1 DEF Crash, TypeOK, store
  <1> QED
    BY <1>1, <1>2, <1>3

LEMMA SweepTypes ==
  ASSUME TypeOK
  PROVE  Sweep \/ CrashSweep => TypeOK'
  <1>1. ASSUME SweepSelect PROVE TypeOK'
    <2>1. UNION {Objects(chunks[u]) : u \in {v \in Uploads : Over(v)}} \in SUBSET Nat
      <3>1. \A u \in {v \in Uploads : Over(v)} : Objects(chunks[u]) \in SUBSET Nat
        BY ObjectsType DEF TypeOK
      <3> QED
        BY <3>1
    <2> QED
      BY <1>1, <2>1 DEF SweepSelect, TypeOK, store
  <1>2. ASSUME SweepDelete PROVE TypeOK'
    <2>1. status' \in [Uploads -> Statuses] /\ age' \in [Uploads -> 0..2]
          /\ life' \in [Uploads -> 0..2] /\ chunks' \in [Uploads -> [Slots -> Nat]]
      BY <1>2, IdleType DEF SweepDelete, TypeOK, Statuses
    <2> QED
      BY <1>2, <2>1 DEF SweepDelete, TypeOK
  <1>3. ASSUME SweepObjects \/ CrashSweep PROVE TypeOK'
    <2>1. /\ sweep' = NotSweeping /\ objects' \in SUBSET (Nat \ {0}) /\ faults' \in Nat
          /\ UNCHANGED <<store, request, lock, sends>>
      <3>1. CASE SweepObjects
        BY <3>1 DEF SweepObjects, TypeOK
      <3>2. CASE CrashSweep
        BY <3>2 DEF CrashSweep, TypeOK, store
      <3> QED
        BY <1>3, <3>1, <3>2
    <2> QED
      BY <2>1, IdleType DEF TypeOK, store
  <1> QED
    BY <1>1, <1>2, <1>3 DEF Sweep

LEMMA TimeTypes ==
  ASSUME TypeOK, NEW u \in Uploads
  PROVE  Tick(u) \/ Pass(u) => TypeOK'
  <1>1. age[u] \in 0..2 /\ life[u] \in 0..2
    BY DEF TypeOK
  <1>2. ASSUME Tick(u) PROVE TypeOK'
    <2>1. age' = [age EXCEPT ![u] = @ + 1] /\ age[u] + 1 \in 0..2 /\ life' = life
      BY <1>1, <1>2 DEF Tick
    <2> QED
      BY <1>2, <2>1 DEF Tick, TypeOK
  <1>3. ASSUME Pass(u) PROVE TypeOK'
    <2>1. life' = [life EXCEPT ![u] = @ + 1] /\ life[u] + 1 \in 0..2 /\ age' = age
      BY <1>1, <1>3 DEF Pass
    <2> QED
      BY <1>3, <2>1 DEF Pass, TypeOK
  <1> QED
    BY <1>2, <1>3

LEMMA TypeStep ==
  ASSUME TypeOK, [Next]_vars
  PROVE  TypeOK'
  <1>1. CASE UNCHANGED vars
    BY <1>1 DEF vars, store, TypeOK
  <1>2. ASSUME NEW r \in Requests, Steps(r) PROVE TypeOK'
    BY <1>2, OpenTypes, PutTypes, CompletionTypes, EndTypes DEF Steps
  <1>3. ASSUME NEW r \in Requests, OpenCount(r) \/ Crash(r) PROVE TypeOK'
    BY <1>3, OpenTypes, EndTypes
  <1>4. ASSUME NEW r \in Requests, NEW u \in Uploads, CompleteRead(r, u) \/ Cancel(r, u)
        PROVE  TypeOK'
    BY <1>4, CompletionTypes, EndTypes
  <1>5. ASSUME NEW r \in Requests, NEW u \in Uploads, NEW c \in Slots, PutStore(r, u, c)
        PROVE  TypeOK'
    BY <1>5, PutTypes
  <1> QED
    BY <1>1, <1>2, <1>3, <1>4, <1>5, SweepTypes, TimeTypes DEF Next
-----------------------------------------------------------------------------
(* Steps that store nothing new: rows stay or go, sends in flight stay or    *)
(* end, and what is to be deleted was so before or has just lost its row.    *)
Dropped(o) ==
  o # 0 /\ \E u \in Uploads, c \in Slots : chunks[u][c] = o /\ chunks'[u][c] # o

Awaited(o) ==
  \/ /\ o \in sweep.paths
     /\ \A u \in Uploads \ sweep'.ids : u \notin sweep.ids \/ chunks'[u] = NoRows
  \/ o # 0 /\ \E v \in sweep'.ids \cap Uploads, c \in Slots : chunks[v][c] = o

NothingStored ==
  /\ \A u \in Uploads, c \in Slots : chunks'[u][c] \in {chunks[u][c], 0}
  /\ \A r \in Requests : request'[r].at = "save" => request'[r] = request[r]
  /\ \A r \in Requests : \A o \in request'[r].doomed : o \in request[r].doomed \/ Dropped(o)
  /\ sweep'.at # "delete" => sweep'.ids = {}
  /\ \A o \in sweep'.paths : Awaited(o)
  /\ objects' \subseteq objects
  /\ \A o \in objects \ objects' :
       \/ \E r \in Requests : o \in request[r].doomed
       \/ o \in sweep.paths /\ sweep.ids = {}
  /\ sends' = sends

LEMMA RowsFall ==
  ASSUME StoreIntegrity, TypeOK', NothingStored
  PROVE  StoreIntegrity'
  <1>1. /\ chunks \in [Uploads -> [Slots -> Nat]] /\ chunks' \in [Uploads -> [Slots -> Nat]]
        /\ sends \in Nat /\ sends' = sends /\ sweep.ids \subseteq Uploads
    BY DEF StoreIntegrity, TypeOK, NothingStored
  <1>2. \A o : InRow(o)' => InRow(o)
    BY <1>1 DEF InRow, NothingStored
  <1>3. \A o : InSave(o)' => InSave(o)
    BY DEF InSave, At, NothingStored
  <1>4. \A o : Dropped(o) => InRow(o) /\ ~InRow(o)' /\ o <= sends
    <2> SUFFICES ASSUME NEW o, Dropped(o) PROVE InRow(o) /\ ~InRow(o)' /\ o <= sends
      OBVIOUS
    <2>1. PICK u \in Uploads, c \in Slots : o # 0 /\ chunks[u][c] = o /\ chunks'[u][c] # o
      BY DEF Dropped
    <2>2. InRow(o) /\ o <= sends
      BY <2>1 DEF InRow, StoreIntegrity, Numbered
    <2>3. ASSUME NEW v \in Uploads, NEW d \in Slots, chunks'[v][d] = o PROVE FALSE
      <3>1. chunks[v][d] = o
        BY <2>1, <2>3 DEF NothingStored
      <3> QED
        BY <2>1, <2>3, <3>1 DEF StoreIntegrity, RowsOwn
    <2> QED
      BY <2>2, <2>3 DEF InRow
  <1>5. \A o : InRow(o) => ~InSave(o)
    BY DEF InSave, StoreIntegrity, SavesOwn
  <1>6. \A o \in objects : InRow(o)' \/ InSave(o)' => o \in objects'
    <2> SUFFICES ASSUME NEW o \in objects, InRow(o)' \/ InSave(o)', o \notin objects' PROVE FALSE
      OBVIOUS
    <2>1. InRow(o) \/ InSave(o)
      BY <1>2, <1>3
    <2>2. ASSUME NEW r \in Requests, o \in request[r].doomed PROVE FALSE
      BY <2>1, <2>2 DEF StoreIntegrity, DoomedUnused
    <2>3. o \in sweep.paths /\ sweep.ids = {}
      BY <2>2 DEF NothingStored
    <2> QED
      BY <2>1, <2>3 DEF StoreIntegrity, SweptUnused, InRow
  <1>7. Numbered'
    <2>1. \A u \in Uploads, c \in Slots : chunks'[u][c] <= sends'
      BY <1>1 DEF NothingStored, StoreIntegrity, Numbered
    <2>2. \A r \in Requests : At(r, "save")' => request'[r].object \in 1..sends'
      BY <1>1 DEF NothingStored, StoreIntegrity, Numbered, At
    <2>3. \A r \in Requests : \A o \in request'[r].doomed : o <= sends'
      BY <1>1, <1>4 DEF NothingStored, StoreIntegrity, Numbered
    <2>4. \A o \in sweep'.paths : o <= sends'
      BY <1>1 DEF NothingStored, Awaited, StoreIntegrity, Numbered
    <2> QED
      BY <2>1, <2>2, <2>3, <2>4 DEF Numbered
  <1>8. RowsHaveObjects'
    <2> SUFFICES ASSUME NEW u \in Uploads, NEW c \in Slots, chunks'[u][c] # 0
                 PROVE  chunks'[u][c] \in objects'
      BY DEF RowsHaveObjects, Objects
    <2>1. chunks'[u][c] = chunks[u][c]
      BY <1>1 DEF NothingStored
    <2>2. chunks[u][c] \in objects
      BY <2>1 DEF StoreIntegrity, RowsHaveObjects, Objects
    <2> QED
      BY <1>6, <2>1, <2>2 DEF InRow
  <1>9. RowsOwn'
    <2> SUFFICES ASSUME NEW u \in Uploads, NEW v \in Uploads, NEW c \in Slots, NEW d \in Slots,
                        chunks'[u][c] = chunks'[v][d], chunks'[u][c] # 0
                 PROVE  u = v /\ c = d
      BY DEF RowsOwn
    <2>1. chunks[u][c] = chunks'[u][c] /\ chunks[v][d] = chunks'[v][d]
      BY DEF NothingStored
    <2> QED
      BY <2>1 DEF StoreIntegrity, RowsOwn
  <1>10. SavesOwn'
    <2> SUFFICES ASSUME NEW r \in Requests, request'[r].at = "save"
                 PROVE  /\ request'[r].object \in objects' /\ ~InRow(request[r].object)'
                        /\ request'[r] = request[r]
                        /\ \A q \in Requests : request'[q].at = "save"
                              /\ request'[q].object = request'[r].object => q = r
      BY DEF SavesOwn, At, InRow
    <2>1. request'[r] = request[r] /\ At(r, "save")
      BY DEF NothingStored, At
    <2>2. request[r].object \in objects /\ ~InRow(request[r].object)
      BY <2>1 DEF StoreIntegrity, SavesOwn
    <2>3. InSave(request[r].object)'
      BY <2>1 DEF InSave, At
    <2>4. request'[r].object \in objects'
      BY <1>6, <2>1, <2>2, <2>3
    <2>5. ASSUME NEW q \in Requests, request'[q].at = "save",
                 request'[q].object = request'[r].object
          PROVE  q = r
      BY <2>1, <2>5 DEF NothingStored, StoreIntegrity, SavesOwn, At
    <2> QED
      BY <1>2, <2>1, <2>2, <2>4, <2>5
  <1>11. DoomedUnused'
    <2> SUFFICES ASSUME NEW r \in Requests, NEW o \in request'[r].doomed
                 PROVE  ~InRow(o)' /\ ~InSave(o)'
      BY DEF DoomedUnused, InRow, InSave, At
    <2>1. CASE o \in request[r].doomed
      BY <1>2, <1>3, <2>1 DEF StoreIntegrity, DoomedUnused
    <2>2. CASE Dropped(o)
      BY <1>3, <1>4, <1>5, <2>2
    <2> QED
      BY <2>1, <2>2 DEF NothingStored
  <1>12. SweptUnused'
    <2>1. ASSUME NEW o \in sweep'.paths
          PROVE  ~InSave(o)' /\ \A u \in Uploads \ sweep'.ids, c \in Slots :
                                  o # 0 => chunks'[u][c] # o
      <3>1. CASE /\ o \in sweep.paths
                 /\ \A u \in Uploads \ sweep'.ids : u \notin sweep.ids \/ chunks'[u] = NoRows
        <4>1. ~InSave(o)'
          BY <1>3, <3>1 DEF StoreIntegrity, SweptUnused
        <4>2. ASSUME NEW u \in Uploads \ sweep'.ids, NEW c \in Slots, o # 0 PROVE chunks'[u][c] # o
          <5>1. CASE chunks'[u] = NoRows
            BY <4>2, <5>1 DEF NoRows
          <5>2. CASE u \notin sweep.ids
            BY <3>1, <4>2, <5>2 DEF NothingStored, StoreIntegrity, SweptUnused
          <5> QED
            BY <3>1, <5>1, <5>2
        <4> QED
          BY <4>1, <4>2
      <3>2. CASE o # 0 /\ \E v \in sweep'.ids \cap Uploads, c \in Slots : chunks[v][c] = o
        <4>1. PICK v \in sweep'.ids \cap Uploads, d \in Slots : o # 0 /\ chunks[v][d] = o
          BY <3>2
        <4>2. ~InSave(o)'
          BY <1>3, <1>5, <4>1 DEF InRow
        <4>3. ASSUME NEW u \in Uploads \ sweep'.ids, NEW c \in Slots, chunks'[u][c] = o PROVE FALSE
          BY <4>1, <4>3 DEF NothingStored, StoreIntegrity, RowsOwn
        <4> QED
          BY <4>2, <4>3
      <3> QED
        BY <3>1, <3>2 DEF NothingStored, Awaited
    <2> QED
      BY <2>1 DEF SweptUnused, NothingStored, InSave, At
  <1> QED
    BY <1>7, <1>8, <1>9, <1>10, <1>11, <1>12 DEF StoreIntegrity
-----------------------------------------------------------------------------
(* What a request that ends, or goes on to delete paths, leaves behind.      *)
LEMMA EndsSend ==
  ASSUME TypeOK, NEW r \in Requests, NEW paths \in SUBSET Nat,
         ThenDelete(r, paths) \/ Leave(r)
  PROVE  /\ \A q \in Requests : request'[q].at = "save" => q # r /\ request'[q] = request[q]
         /\ \A q \in Requests : \A o \in request'[q].doomed : o \in request[q].doomed \/ o \in paths
  <1>1. \A q \in Requests \ {r} : request'[q] = request[q]
    BY EndsCall
  <1>2. request'[r].at # "save" /\ \A o \in request'[r].doomed : o \in paths
    <2>1. Idle.at = "idle" /\ Idle.doomed = {}
      BY DEF Idle
    <2>2. CASE Leave(r) \/ (ThenDelete(r, paths) /\ paths = {})
      <3>1. request'[r] = Idle
        BY <2>2 DEF Leave, ThenDelete, TypeOK
      <3> QED
        BY <2>1, <3>1
    <2>3. CASE ThenDelete(r, paths) /\ paths # {}
      <3>1. request'[r] = [Idle EXCEPT !.at = "delete", !.doomed = paths]
        BY <2>3 DEF ThenDelete, TypeOK
      <3>2. request'[r].at = "delete" /\ request'[r].doomed = paths
        BY <3>1 DEF Idle
      <3> QED
        BY <3>2
    <2> QED
      BY <2>2, <2>3
  <1> QED
    BY <1>1, <1>2

LEMMA LeaveSend ==
  ASSUME TypeOK, NEW r \in Requests, Leave(r)
  PROVE  /\ \A q \in Requests : request'[q].at = "save" => q # r /\ request'[q] = request[q]
         /\ \A q \in Requests : request'[q].doomed \subseteq request[q].doomed
  <1>1. Idle.at = "idle" /\ Idle.doomed = {}
    BY DEF Idle
  <1>2. request'[r] = Idle /\ \A q \in Requests \ {r} : request'[q] = request[q]
    BY DEF Leave, TypeOK
  <1> QED
    BY <1>1, <1>2

(* Neither the rows nor the sweep change: the sweep waits for what it did.   *)
LEMMA SweepWaits ==
  ASSUME StoreIntegrity, sweep' = sweep
  PROVE  /\ sweep'.at # "delete" => sweep'.ids = {}
         /\ \A o \in sweep'.paths : Awaited(o)
  BY DEF StoreIntegrity, SweptUnused, Awaited

(* A request that neither sends nor drops a chunk.                           *)
LEMMA RowsUntouched ==
  ASSUME StoreIntegrity, TypeOK', UNCHANGED <<chunks, objects, sweep, sends>>,
         \A r \in Requests : request'[r].at = "save" => request'[r] = request[r],
         \A r \in Requests : request'[r].doomed \subseteq request[r].doomed
  PROVE  StoreIntegrity'
  <1>1. NothingStored
    BY SweepWaits DEF NothingStored
  <1> QED
    BY <1>1, RowsFall

LEMMA OpenStored ==
  ASSUME StoreIntegrity, TypeOK', NEW r \in Requests
  PROVE  OpenCount(r) \/ OpenCommit(r) => StoreIntegrity'
  <1>0. TypeOK
    BY DEF StoreIntegrity
  <1>1. ASSUME OpenCount(r) PROVE StoreIntegrity'
    <2> DEFINE call == [Idle EXCEPT !.at = "open", !.counted = CountOpen]
    <2>1. request' = [request EXCEPT ![r] = call] /\ UNCHANGED <<chunks, objects, sweep, sends>>
      BY <1>1 DEF OpenCount, store
    <2>2. call.at = "open" /\ call.doomed = {}
      BY DEF Idle
    <2> HIDE DEF call
    <2> QED
      BY <1>0, <2>1, <2>2, RowsUntouched DEF TypeOK
  <1>2. ASSUME OpenCommit(r) PROVE StoreIntegrity'
    <2>1. PICK evicted \in SUBSET Evictable :
            /\ chunks' = [u \in Uploads |-> IF u \in evicted THEN NoRows ELSE chunks[u]]
            /\ ThenDelete(r, UNION {Objects(chunks[u]) : u \in evicted})
      BY <1>2 DEF OpenCommit
    <2>2. /\ UNCHANGED <<objects, sweep, sends>> /\ evicted \subseteq Uploads
      BY <1>2 DEF OpenCommit, Evictable
    <2> DEFINE paths == UNION {Objects(chunks[u]) : u \in evicted}
    <2>3. paths \in SUBSET Nat
      <3>1. \A u \in evicted : Objects(chunks[u]) \in SUBSET Nat
        BY <1>0, <2>2, ObjectsType DEF TypeOK
      <3> QED
        BY <3>1
    <2>4. \A o \in paths : Dropped(o)
      <3> SUFFICES ASSUME NEW u \in evicted, NEW o \in Objects(chunks[u]) PROVE Dropped(o)
        OBVIOUS
      <3>1. PICK c \in Slots : o = chunks[u][c] /\ o # 0
        BY DEF Objects
      <3>2. chunks'[u][c] = 0 /\ u \in Uploads
        BY <2>1, <2>2 DEF NoRows
      <3> QED
        BY <3>1, <3>2 DEF Dropped
    <2>5. \A u \in Uploads, c \in Slots : chunks'[u][c] \in {chunks[u][c], 0}
      BY <2>1 DEF NoRows
    <2>6. ThenDelete(r, paths)
      BY <2>1
    <2> HIDE DEF paths
    <2>7. NothingStored
      BY <1>0, <2>2, <2>3, <2>4, <2>5, <2>6, EndsSend, SweepWaits DEF NothingStored
    <2> QED
      BY <2>7, RowsFall
  <1> QED
    BY <1>1, <1>2

(* A new send has a key above all others: nothing mentions it yet.           *)
LEMMA PutStoreStored ==
  ASSUME StoreIntegrity, TypeOK', NEW r \in Requests, NEW u \in Uploads, NEW c \in Slots
  PROVE  PutStore(r, u, c) => StoreIntegrity'
  <1> SUFFICES ASSUME PutStore(r, u, c) PROVE StoreIntegrity'
    OBVIOUS
  <1> DEFINE new == sends + 1
             call == [Idle EXCEPT !.at = "save", !.upload = u, !.slot = c, !.object = new]
  <1>1. /\ request' = [request EXCEPT ![r] = call] /\ objects' = objects \cup {new}
        /\ sends' = new /\ UNCHANGED <<chunks, sweep>>
    BY DEF PutStore, ChunkKey, store
  <1>2. TypeOK /\ sends \in Nat /\ new \in 1..new /\ new # 0 /\ \A o \in Nat : o <= sends => o # new /\ o <= new
    BY DEF StoreIntegrity, TypeOK
  <1>3. call.at = "save" /\ call.object = new /\ call.doomed = {}
    BY DEF Idle
  <1> HIDE DEF call
  <1>4. request'[r] = call /\ \A q \in Requests \ {r} : request'[q] = request[q]
    BY <1>1, <1>2 DEF TypeOK
  <1>5. /\ \A v \in Uploads, d \in Slots : chunks[v][d] \in Nat
        /\ \A q \in Requests : request[q].object \in Nat /\ request[q].doomed \subseteq Nat
        /\ sweep.paths \subseteq Nat /\ request[r].at = "idle"
    BY <1>2 DEF TypeOK, Calls, PutStore, At
  <1>6. /\ \A v \in Uploads, d \in Slots : chunks[v][d] # new
        /\ \A q \in Requests : At(q, "save") => request[q].object # new
        /\ \A q \in Requests : new \notin request[q].doomed
        /\ new \notin sweep.paths
    BY <1>2, <1>5 DEF StoreIntegrity, Numbered, new
  <1>7. Numbered'
    <2>1. \A v \in Uploads, d \in Slots : chunks'[v][d] <= new
      BY <1>1, <1>2, <1>5 DEF StoreIntegrity, Numbered
    <2>2. ASSUME NEW q \in Requests
          PROVE  /\ request'[q].at = "save" => request'[q].object \in 1..new
                 /\ \A o \in request'[q].doomed : o <= new
      <3>1. CASE q = r
        BY <1>2, <1>3, <1>4, <3>1
      <3>2. CASE q # r
        <4>1. request'[q] = request[q]
          BY <1>4, <3>2
        <4> QED
          BY <1>2, <1>5, <4>1 DEF StoreIntegrity, Numbered, At
      <3> QED
        BY <3>1, <3>2
    <2>3. \A o \in sweep'.paths : o <= new
      BY <1>1, <1>2, <1>5 DEF StoreIntegrity, Numbered
    <2> QED
      BY <1>1, <2>1, <2>2, <2>3 DEF Numbered, At
  <1> HIDE DEF new
  <1>8. \A o : InRow(o)' <=> InRow(o)
    BY <1>1 DEF InRow
  <1>9. \A o : o # new /\ InSave(o)' => InSave(o)
    BY <1>3, <1>4 DEF InSave, At
  <1>10. RowsHaveObjects' /\ RowsOwn'
    BY <1>1 DEF StoreIntegrity, RowsHaveObjects, RowsOwn
  <1>11. SavesOwn'
    <2> SUFFICES ASSUME NEW q \in Requests, request'[q].at = "save"
                 PROVE  /\ request'[q].object \in objects' /\ ~InRow(request'[q].object)
                        /\ \A p \in Requests : request'[p].at = "save"
                              /\ request'[p].object = request'[q].object => p = q
      BY <1>1 DEF SavesOwn, At, InRow
    <2>1. CASE q = r
      BY <1>1, <1>3, <1>4, <1>6, <2>1 DEF InRow, At
    <2>2. CASE q # r
      <3>1. request'[q] = request[q]
        BY <1>4, <2>2
      <3> QED
        BY <1>1, <1>3, <1>4, <1>6, <3>1 DEF StoreIntegrity, SavesOwn, At
    <2> QED
      BY <2>1, <2>2
  <1>12. DoomedUnused'
    <2> SUFFICES ASSUME NEW q \in Requests, NEW o \in request'[q].doomed
                 PROVE  ~InRow(o) /\ ~InSave(o)'
      BY <1>8 DEF DoomedUnused
    <2>1. o \in request[q].doomed
      BY <1>3, <1>4
    <2> QED
      BY <1>6, <1>9, <2>1 DEF StoreIntegrity, DoomedUnused
  <1>13. SweptUnused'
    <2>1. \A o \in sweep.paths : ~InSave(o)'
      BY <1>6, <1>9 DEF StoreIntegrity, SweptUnused
    <2> QED
      BY <1>1, <2>1 DEF StoreIntegrity, SweptUnused
  <1> QED
    BY <1>7, <1>10, <1>11, <1>12, <1>13 DEF StoreIntegrity

(* The send of a PUT moves from the request to its row; what the row pointed *)
(* to before is no one else's.                                               *)
LEMMA PutSaveStored ==
  ASSUME StoreIntegrity, TypeOK', NEW r \in Requests
  PROVE  PutSave(r) => StoreIntegrity'
  <1> SUFFICES ASSUME PutSave(r) PROVE StoreIntegrity'
    OBVIOUS
  <1> DEFINE u == request[r].upload
             c == request[r].slot
             o == request[r].object
  <1>1. /\ TypeOK /\ u \in Uploads /\ c \in Slots /\ o \in Nat /\ chunks[u][c] \in Nat
        /\ request[r].at = "save" /\ UNCHANGED <<objects, sweep, sends>>
    BY DEF StoreIntegrity, TypeOK, Calls, PutSave, At
  <1>2. /\ o \in 1..sends /\ o \in objects /\ ~InRow(o) /\ sends \in Nat
        /\ \A q \in Requests : request[q].at = "save" /\ request[q].object = o => q = r
        /\ \A q \in Requests : o \notin request[q].doomed
        /\ o \notin sweep.paths
    <2>1. InSave(o)
      BY <1>1 DEF InSave, At
    <2> QED
      BY <1>1, <2>1
      DEF StoreIntegrity, Numbered, SavesOwn, DoomedUnused, SweptUnused, At, TypeOK
  <1>3. CASE ~TouchOpen(u)
    <2>1. ThenDelete(r, {o}) /\ chunks' = chunks
      BY <1>3 DEF PutSave
    <2> HIDE DEF u, c, o
    <2>2. /\ \A q \in Requests : request'[q].at = "save" => q # r /\ request'[q] = request[q]
          /\ \A q \in Requests : \A p \in request'[q].doomed : p \in request[q].doomed \/ p = o
      BY <1>1, <2>1, EndsSend
    <2>3. \A p : InRow(p)' <=> InRow(p)
      BY <2>1 DEF InRow
    <2>4. \A p : InSave(p)' => InSave(p) /\ p # o
      BY <1>2, <2>2 DEF InSave, At
    <2>5. Numbered' /\ RowsHaveObjects' /\ RowsOwn'
      BY <1>1, <1>2, <2>1, <2>2
      DEF StoreIntegrity, Numbered, RowsHaveObjects, RowsOwn, At
    <2>6. SavesOwn'
      BY <1>1, <2>2, <2>3 DEF StoreIntegrity, SavesOwn, At
    <2>7. DoomedUnused'
      BY <1>2, <2>2, <2>3, <2>4 DEF StoreIntegrity, DoomedUnused
    <2>8. SweptUnused'
      BY <1>1, <2>1, <2>4 DEF StoreIntegrity, SweptUnused
    <2> QED
      BY <2>5, <2>6, <2>7, <2>8 DEF StoreIntegrity
  <1>4. CASE TouchOpen(u)
    <2> DEFINE old == chunks[u][c]
    <2>1. chunks' = [chunks EXCEPT ![u][c] = o] /\ ThenDelete(r, {old} \ {0, o})
      BY <1>4 DEF PutSave
    <2> HIDE DEF u, c, o
    <2>2. chunks'[u][c] = o /\ o # 0
          /\ \A v \in Uploads, d \in Slots : <<v, d>> # <<u, c>> => chunks'[v][d] = chunks[v][d]
      BY <1>1, <1>2, <2>1 DEF TypeOK
    <2>3. old # o /\ (old # 0 => InRow(old) /\ old <= sends)
      BY <1>1, <1>2, <2>2 DEF InRow, StoreIntegrity, Numbered
    <2>4. /\ \A q \in Requests : request'[q].at = "save" => q # r /\ request'[q] = request[q]
          /\ \A q \in Requests : \A p \in request'[q].doomed :
               p \in request[q].doomed \/ (p = old /\ p # 0)
      <3>1. {old} \ {0, o} \in SUBSET Nat
        BY <1>1
      <3> QED
        BY <1>1, <2>1, <3>1, EndsSend
    <2>5. \A p : InRow(p)' => (InRow(p) /\ p # old) \/ p = o
      <3> SUFFICES ASSUME NEW p, InRow(p)', p # o PROVE InRow(p) /\ p # old
        OBVIOUS
      <3>1. PICK v \in Uploads, d \in Slots : p # 0 /\ chunks'[v][d] = p
        BY DEF InRow
      <3>2. <<v, d>> # <<u, c>> /\ chunks[v][d] = p
        BY <2>2, <3>1
      <3>3. p # old
        BY <1>1, <3>1, <3>2 DEF StoreIntegrity, RowsOwn
      <3> QED
        BY <3>1, <3>2, <3>3 DEF InRow
    <2>6. \A p : InSave(p)' => InSave(p) /\ p # o
      BY <1>2, <2>4 DEF InSave, At
    <2> HIDE DEF old
    <2>7. Numbered'
      <3>1. \A v \in Uploads, d \in Slots : chunks'[v][d] <= sends'
        BY <1>1, <1>2, <2>2 DEF StoreIntegrity, Numbered
      <3>2. \A q \in Requests : /\ At(q, "save")' => request'[q].object \in 1..sends'
                                /\ \A p \in request'[q].doomed : p <= sends'
        BY <1>1, <2>3, <2>4 DEF StoreIntegrity, Numbered, At
      <3> QED
        BY <1>1, <3>1, <3>2 DEF StoreIntegrity, Numbered
    <2>8. RowsHaveObjects'
      BY <1>1, <1>2, <2>2 DEF StoreIntegrity, RowsHaveObjects, Objects
    <2>9. RowsOwn'
      <3> SUFFICES ASSUME NEW v \in Uploads, NEW w \in Uploads, NEW d \in Slots, NEW e \in Slots,
                          chunks'[v][d] = chunks'[w][e], chunks'[v][d] # 0
                   PROVE  v = w /\ d = e
        BY DEF RowsOwn
      <3>1. CASE <<v, d>> = <<u, c>> \/ <<w, e>> = <<u, c>>
        BY <1>2, <2>2, <3>1 DEF InRow
      <3>2. CASE <<v, d>> # <<u, c>> /\ <<w, e>> # <<u, c>>
        BY <2>2, <3>2 DEF StoreIntegrity, RowsOwn
      <3> QED
        BY <3>1, <3>2
    <2>10. SavesOwn'
      <3> SUFFICES ASSUME NEW q \in Requests, request'[q].at = "save"
                   PROVE  /\ request'[q].object \in objects' /\ ~InRow(request[q].object)'
                          /\ request'[q] = request[q]
                          /\ \A p \in Requests : request'[p].at = "save"
                                /\ request'[p].object = request'[q].object => p = q
        BY DEF SavesOwn, At, InRow
      <3>1. request'[q] = request[q] /\ q # r /\ At(q, "save")
        BY <2>4 DEF At
      <3>2. /\ request[q].object \in objects /\ ~InRow(request[q].object) /\ request[q].object # o
            /\ \A p \in Requests : At(p, "save") /\ request[p].object = request[q].object => p = q
        BY <1>2, <3>1 DEF StoreIntegrity, SavesOwn, At
      <3> QED
        BY <1>1, <2>4, <2>5, <3>1, <3>2 DEF At
    <2>11. DoomedUnused'
      <3> SUFFICES ASSUME NEW q \in Requests, NEW p \in request'[q].doomed
                   PROVE  ~InRow(p)' /\ ~InSave(p)'
        BY DEF DoomedUnused
      <3>1. CASE p \in request[q].doomed
        BY <1>2, <2>5, <2>6, <3>1 DEF StoreIntegrity, DoomedUnused
      <3>2. CASE p = old /\ p # 0
        <4>1. ~InSave(p)
          BY <2>3, <3>2 DEF InSave, StoreIntegrity, SavesOwn
        <4> QED
          BY <2>3, <2>5, <2>6, <3>2, <4>1
      <3> QED
        BY <2>4, <3>1, <3>2
    <2>12. SweptUnused'
      <3>1. \A p \in sweep.paths : ~InSave(p)'
        BY <2>6 DEF StoreIntegrity, SweptUnused
      <3>2. ASSUME NEW p \in sweep.paths, NEW v \in Uploads \ sweep.ids, NEW d \in Slots, p # 0
            PROVE  chunks'[v][d] # p
        BY <1>2, <2>2, <3>2 DEF StoreIntegrity, SweptUnused
      <3> QED
        BY <1>1, <3>1, <3>2 DEF StoreIntegrity, SweptUnused
    <2> QED
      BY <2>7, <2>8, <2>9, <2>10, <2>11, <2>12 DEF StoreIntegrity
  <1> QED
    BY <1>3, <1>4

LEMMA CompletionStored ==
  ASSUME StoreIntegrity, TypeOK', NEW r \in Requests
  PROVE  Claim(r) \/ ReadChunks(r) \/ Join(r) \/ FailBuilding(r) \/ Crash(r)
         \/ (\E u \in Uploads : CompleteRead(r, u)) => StoreIntegrity'
  <1>0. TypeOK /\ request[r] \in Calls
    BY DEF StoreIntegrity, TypeOK
  <1>1. ASSUME NEW u \in Uploads, CompleteRead(r, u) PROVE StoreIntegrity'
    <2> DEFINE call == [Idle EXCEPT !.at = "claim", !.upload = u, !.rows = chunks[u]]
    <2>1. request' = [request EXCEPT ![r] = call] /\ UNCHANGED <<chunks, objects, sweep, sends>>
      BY <1>1 DEF CompleteRead, store
    <2>2. call.at = "claim" /\ call.doomed = {}
      BY DEF Idle
    <2> HIDE DEF call
    <2> QED
      BY <1>0, <2>1, <2>2, RowsUntouched DEF TypeOK
  <1>2. ASSUME NEW step \in {"claimed", "join", "finish"}, To(r, step),
               UNCHANGED <<chunks, objects, sweep, sends>>
        PROVE  StoreIntegrity'
    <2>1. /\ request'[r].at = step /\ request'[r].doomed = request[r].doomed
          /\ \A q \in Requests \ {r} : request'[q] = request[q]
      BY <1>0, <1>2 DEF To, TypeOK, Calls
    <2> QED
      BY <1>2, <2>1, RowsUntouched
  <1>3. ASSUME Leave(r), UNCHANGED <<chunks, objects, sweep, sends>> PROVE StoreIntegrity'
    BY <1>0, <1>3, LeaveSend, RowsUntouched
  <1>4. ASSUME Claim(r) PROVE StoreIntegrity'
    BY <1>2, <1>3, <1>4 DEF Claim
  <1>5. ASSUME ReadChunks(r) PROVE StoreIntegrity'
    <2>1. /\ request'[r].at = "join" /\ request'[r].doomed = request[r].doomed
          /\ \A q \in Requests \ {r} : request'[q] = request[q]
          /\ UNCHANGED <<chunks, objects, sweep, sends>>
      BY <1>0, <1>5 DEF ReadChunks, TypeOK, Calls, store
    <2> QED
      BY <2>1, RowsUntouched
  <1>6. ASSUME Join(r) PROVE StoreIntegrity'
    BY <1>2, <1>6 DEF Join, store
  <1>7. ASSUME FailBuilding(r) \/ Crash(r) PROVE StoreIntegrity'
    BY <1>3, <1>7 DEF FailBuilding, Crash, store
  <1> QED
    BY <1>1, <1>4, <1>5, <1>6, <1>7

(* A session that ends drops its rows in the commit that lets the request    *)
(* delete their objects.                                                     *)
LEMMA EndStored ==
  ASSUME StoreIntegrity, TypeOK', NEW r \in Requests, NEW u \in Uploads,
         chunks' = [chunks EXCEPT ![u] = NoRows], ThenDelete(r, Objects(chunks[u])),
         UNCHANGED <<objects, sweep, sends>>
  PROVE  StoreIntegrity'
  <1>1. TypeOK /\ Objects(chunks[u]) \in SUBSET Nat
    BY ObjectsType DEF StoreIntegrity, TypeOK
  <1>2. chunks'[u] = NoRows /\ \A v \in Uploads \ {u} : chunks'[v] = chunks[v]
    BY <1>1 DEF TypeOK
  <1>3. \A o \in Objects(chunks[u]) : Dropped(o)
    BY <1>2 DEF Objects, Dropped, NoRows
  <1>4. NothingStored
    <2>1. \A v \in Uploads, c \in Slots : chunks'[v][c] \in {chunks[v][c], 0}
      BY <1>2 DEF NoRows
    <2> QED
      BY <1>1, <1>3, <2>1, EndsSend, SweepWaits DEF NothingStored
  <1> QED
    BY <1>4, RowsFall

LEMMA DeleteStored ==
  ASSUME StoreIntegrity, TypeOK', NEW r \in Requests, DeleteObjects(r)
  PROVE  StoreIntegrity'
  <1>1. /\ TypeOK /\ objects' = objects \ request[r].doomed /\ Leave(r)
        /\ UNCHANGED <<chunks, sweep, sends>>
    BY DEF DeleteObjects, StoreIntegrity, store
  <1>2. /\ \A q \in Requests : request'[q].at = "save" => request'[q] = request[q]
        /\ \A q \in Requests : request'[q].doomed \subseteq request[q].doomed
    BY <1>1, LeaveSend
  <1>3. NothingStored
    BY <1>1, <1>2, SweepWaits DEF NothingStored
  <1> QED
    BY <1>3, RowsFall

LEMMA SweepStored ==
  ASSUME StoreIntegrity, TypeOK', Sweep \/ CrashSweep
  PROVE  StoreIntegrity'
  <1>1. /\ TypeOK /\ request' = request /\ sends' = sends
        /\ NotSweeping.ids = {} /\ NotSweeping.paths = {}
    BY DEF Sweep, SweepSelect, SweepDelete, SweepObjects, CrashSweep, StoreIntegrity, NotSweeping
  <1>2. CASE SweepSelect
    <2> DEFINE over == {u \in Uploads : Over(u)}
    <2>1. /\ sweep'.at = "delete" /\ sweep'.ids = over
          /\ sweep'.paths = UNION {Objects(chunks[u]) : u \in over}
          /\ UNCHANGED <<chunks, objects>>
      BY <1>2 DEF SweepSelect, store
    <2>2. \A o \in sweep'.paths : Awaited(o)
      <3> SUFFICES ASSUME NEW u \in over, NEW o \in Objects(chunks[u]) PROVE Awaited(o)
        BY <2>1
      <3>1. u \in sweep'.ids \cap Uploads
        BY <2>1
      <3> QED
        BY <3>1 DEF Objects, Awaited
    <2> HIDE DEF over
    <2>3. NothingStored
      BY <1>1, <2>1, <2>2 DEF NothingStored
    <2> QED
      BY <2>3, RowsFall
  <1>3. CASE SweepDelete
    <2>1. /\ chunks' = [u \in Uploads |-> IF u \in sweep.ids THEN NoRows ELSE chunks[u]]
          /\ objects' = objects /\ sweep'.ids = {} /\ sweep'.paths = sweep.paths
      BY <1>1, <1>3 DEF SweepDelete, TypeOK
    <2>2. \A u \in Uploads, c \in Slots : chunks'[u][c] \in {chunks[u][c], 0}
      BY <2>1 DEF NoRows
    <2>3. \A o \in sweep'.paths : Awaited(o)
      BY <2>1 DEF Awaited
    <2>4. NothingStored
      BY <1>1, <2>1, <2>2, <2>3 DEF NothingStored
    <2> QED
      BY <2>4, RowsFall
  <1>4. CASE SweepObjects \/ CrashSweep
    <2>1. /\ sweep' = NotSweeping /\ chunks' = chunks
          /\ objects' = objects \/ (objects' = objects \ sweep.paths /\ sweep.ids = {})
      BY <1>4 DEF SweepObjects, CrashSweep, store, StoreIntegrity, SweptUnused
    <2>2. NothingStored
      BY <1>1, <2>1 DEF NothingStored
    <2> QED
      BY <2>2, RowsFall
  <1> QED
    BY <1>2, <1>3, <1>4 DEF Sweep

LEMMA InitStored == Init => StoreIntegrity
  <1> SUFFICES ASSUME Init PROVE StoreIntegrity
    OBVIOUS
  <1>1. TypeOK
    BY InitIntegrity DEF SessionIntegrity
  <1>2. /\ \A u \in Uploads, c \in Slots : chunks[u][c] = 0
        /\ \A r \in Requests : request[r].at = "idle" /\ request[r].doomed = {}
        /\ sweep.ids = {} /\ sweep.paths = {} /\ sends = 0
    BY DEF Init, NoRows, Idle, NotSweeping
  <1> QED
    BY <1>1, <1>2 DEF StoreIntegrity, Numbered, RowsHaveObjects, Objects, RowsOwn, SavesOwn,
                      DoomedUnused, SweptUnused, At

LEMMA StoreStep ==
  ASSUME StoreIntegrity, [Next]_vars
  PROVE  StoreIntegrity'
  <1>1. TypeOK'
    BY TypeStep DEF StoreIntegrity
  <1>2. ASSUME UNCHANGED <<chunks, objects, request, sweep, sends>> PROVE StoreIntegrity'
    BY <1>1, <1>2, RowsUntouched
  <1>3. ASSUME NEW r \in Requests, Steps(r) PROVE StoreIntegrity'
    <2>1. ASSUME Finish(r) PROVE StoreIntegrity'
      <3>1. request[r].upload \in Uploads
        BY DEF StoreIntegrity, TypeOK, Calls
      <3> QED
        BY <1>1, <2>1, <3>1, EndStored DEF Finish
    <2> QED
      BY <1>1, <1>3, <2>1, OpenStored, PutSaveStored, CompletionStored, DeleteStored DEF Steps
  <1>4. ASSUME NEW r \in Requests, OpenCount(r) \/ Crash(r) PROVE StoreIntegrity'
    BY <1>1, <1>4, OpenStored, CompletionStored
  <1>5. ASSUME NEW r \in Requests, NEW u \in Uploads, CompleteRead(r, u) PROVE StoreIntegrity'
    BY <1>1, <1>5, CompletionStored
  <1>6. ASSUME NEW r \in Requests, NEW u \in Uploads, Cancel(r, u) PROVE StoreIntegrity'
    BY <1>1, <1>6, EndStored DEF Cancel
  <1>7. ASSUME NEW r \in Requests, NEW u \in Uploads, NEW c \in Slots, PutStore(r, u, c)
        PROVE  StoreIntegrity'
    BY <1>1, <1>7, PutStoreStored
  <1>8. ASSUME NEW u \in Uploads, Tick(u) \/ Pass(u) PROVE StoreIntegrity'
    BY <1>2, <1>8 DEF Tick, Pass
  <1>9. CASE UNCHANGED vars
    BY <1>2, <1>9 DEF vars, store
  <1> QED
    BY <1>1, <1>3, <1>4, <1>5, <1>6, <1>7, <1>8, <1>9, SweepStored DEF Next
-----------------------------------------------------------------------------
Counted == {u \in Uploads : status[u] \in {"open", "completing"} /\ life[u] = 0}

LEMMA CountedFinite ==
  IsFiniteSet(Counted) /\ CountOpen = Cardinality(Counted) /\ Cardinality(Counted) \in Nat
  <1>1. IsFiniteSet(Counted)
    BY SetsAssumption, FS_Subset DEF Counted
  <1> QED
    BY <1>1, FS_CardinalityType DEF CountOpen, Counted

(* A step that opens no session and lets no one else in.                     *)
LEMMA CountFalls ==
  ASSUME CapIntegrity, TypeOK', Counted' \subseteq Counted, lock' \subseteq lock,
         \A r \in Requests : request'[r].at = "open" => request'[r] = request[r] /\ (r \in lock => r \in lock')
  PROVE  CapIntegrity'
  <1>1. CountOpen' <= CountOpen /\ CountOpen \in Nat /\ CountOpen' \in Nat
    <2>1. /\ IsFiniteSet(Counted) /\ CountOpen = Cardinality(Counted)
          /\ CountOpen' = Cardinality(Counted') /\ CountOpen \in Nat /\ CountOpen' \in Nat
      <3>1. CountOpen' = Cardinality(Counted')
        BY DEF CountOpen, Counted
      <3>2. IsFiniteSet(Counted')
        BY CountedFinite, FS_Subset
      <3> QED
        BY <3>1, <3>2, CountedFinite, FS_CardinalityType
    <2> QED
      BY <2>1, FS_Subset
  <1>2. OneOpener'
    <2>1. \A r, q \in lock' : r = q
      BY DEF CapIntegrity, OneOpener
    <2>2. ASSUME NEW r \in Requests, request'[r].at = "open"
          PROVE  r \in lock' /\ CountOpen' <= request'[r].counted
      <3>1. request'[r] = request[r] /\ request[r].counted \in Nat
        BY <2>2 DEF CapIntegrity, TypeOK, Calls
      <3>2. r \in lock /\ CountOpen <= request[r].counted
        BY <2>2, <3>1 DEF CapIntegrity, OneOpener, At
      <3> QED
        BY <1>1, <2>2, <3>1, <3>2
    <2> QED
      BY <2>1, <2>2 DEF OneOpener, At
  <1>3. CapHolds'
    BY <1>1, CapAssumption DEF CapIntegrity, CapHolds
  <1> QED
    BY <1>2, <1>3 DEF CapIntegrity

(* The request that enters the lock counts; no one else is inside.           *)
LEMMA OpenCountCap ==
  ASSUME CapIntegrity, TypeOK', NEW r \in Requests, OpenCount(r)
  PROVE  CapIntegrity'
  <1> DEFINE call == [Idle EXCEPT !.at = "open", !.counted = CountOpen]
  <1>1. /\ request' = [request EXCEPT ![r] = call] /\ lock = {} /\ lock' = {r}
        /\ UNCHANGED <<status, life>>
    BY DEF OpenCount, OwnerLockFree, store
  <1>2. call.at = "open" /\ call.counted = CountOpen
    BY DEF Idle
  <1> HIDE DEF call
  <1>3. request'[r] = call /\ \A q \in Requests \ {r} : request'[q] = request[q]
    BY <1>1 DEF CapIntegrity, TypeOK
  <1>4. CountOpen' = CountOpen /\ CountOpen \in Nat
    BY <1>1, CountOpenType DEF CountOpen
  <1>5. \A q \in Requests \ {r} : request[q].at # "open"
    BY <1>1 DEF CapIntegrity, OneOpener, At
  <1>6. OneOpener'
    BY <1>1, <1>2, <1>3, <1>4, <1>5 DEF OneOpener, At
  <1> QED
    BY <1>4, <1>6 DEF CapIntegrity, CapHolds

(* What it evicts makes room for the one it opens: with fewer than Excess    *)
(* idle sessions it opens none.                                              *)
LEMMA OpenCommitCap ==
  ASSUME CapIntegrity, TypeOK', NEW r \in Requests, OpenCommit(r)
  PROVE  CapIntegrity'
  <1>1. PICK evicted \in SUBSET Evictable, opened \in SUBSET {u \in Uploads : status[u] = "none"} :
          /\ Cardinality(evicted) = IF Room(r) THEN Excess(r) ELSE Cardinality(Evictable)
          /\ Cardinality(opened) = IF Room(r) THEN 1 ELSE 0
          /\ status' = [u \in Uploads |->
                          IF u \in evicted THEN "cancelled"
                          ELSE IF u \in opened THEN "open" ELSE status[u]]
          /\ ThenDelete(r, UNION {Objects(chunks[u]) : u \in evicted})
    BY DEF OpenCommit
  <1>2. TypeOK /\ At(r, "open") /\ lock' = lock \ {r} /\ life' = life
    BY DEF CapIntegrity, OpenCommit
  <1>3. /\ \A q \in Requests \ {r} : request'[q] = request[q]
        /\ request'[r].at # "open"
    <2>1. UNION {Objects(chunks[u]) : u \in evicted} \in SUBSET Nat
      <3>1. \A u \in evicted : Objects(chunks[u]) \in SUBSET Nat
        BY <1>2, ObjectsType DEF Evictable, TypeOK
      <3> QED
        BY <3>1
    <2> QED
      BY <1>1, <1>2, <2>1, EndsCall
  <1>4. /\ r \in lock /\ CountOpen <= request[r].counted
        /\ request[r].counted \in Nat /\ CountOpen \in Nat
        /\ \A q \in Requests : request'[q].at # "open"
    <2>1. /\ r \in lock /\ CountOpen <= request[r].counted
          /\ request[r].counted \in Nat /\ CountOpen \in Nat
      BY <1>2, CountOpenType DEF CapIntegrity, OneOpener, TypeOK, Calls
    <2>2. \A q \in Requests \ {r} : request[q].at # "open"
      BY <2>1 DEF CapIntegrity, OneOpener, At
    <2> QED
      BY <1>3, <2>1, <2>2
  <1>5. OneOpener'
    BY <1>2, <1>4 DEF CapIntegrity, OneOpener, At
  <1>6. /\ evicted \subseteq Counted /\ Counted' \subseteq (Counted \ evicted) \cup opened
    BY <1>1, <1>2 DEF Counted, Evictable
  <1>7. /\ IsFiniteSet(evicted) /\ IsFiniteSet(Counted \ evicted)
        /\ Cardinality(Counted \ evicted) = CountOpen - Cardinality(evicted)
        /\ Cardinality(evicted) \in Nat
    <2>1. Counted \cap evicted = evicted
      BY <1>6
    <2>2. IsFiniteSet(evicted) /\ Cardinality(evicted) \in Nat
      BY <1>6, CountedFinite, FS_Subset, FS_CardinalityType
    <2>3. /\ IsFiniteSet(Counted \ evicted)
          /\ Cardinality(Counted \ evicted) = Cardinality(Counted) - Cardinality(Counted \cap evicted)
      BY CountedFinite, FS_Difference
    <2> QED
      BY <2>1, <2>2, <2>3, CountedFinite
  <1>8. CASE ~Room(r)
    <2>1. opened = {}
      <3>1. IsFiniteSet(opened)
        BY SetsAssumption, FS_Subset
      <3> QED
        BY <1>1, <1>8, <3>1, FS_EmptySet
    <2>2. Counted' \subseteq Counted
      BY <1>6, <2>1
    <2> QED
      BY <1>2, <1>3, <1>4, <2>2, CountFalls
  <1>9. CASE Room(r)
    <2>1. PICK u : opened = {u}
      <3>1. IsFiniteSet(opened)
        BY SetsAssumption, FS_Subset
      <3> QED
        BY <1>1, <1>9, <3>1, FS_Singleton
    <2>2. /\ IsFiniteSet((Counted \ evicted) \cup {u})
          /\ Cardinality((Counted \ evicted) \cup {u}) <= CountOpen - Cardinality(evicted) + 1
      <3>1. /\ IsFiniteSet((Counted \ evicted) \cup {u})
            /\ Cardinality((Counted \ evicted) \cup {u})
                 = IF u \in Counted \ evicted THEN Cardinality(Counted \ evicted)
                   ELSE Cardinality(Counted \ evicted) + 1
        BY <1>7, FS_AddElement
      <3> QED
        BY <1>4, <1>7, <3>1
    <2>3. CountOpen' <= CountOpen - Cardinality(evicted) + 1
      <3>1. /\ IsFiniteSet(Counted')
            /\ Cardinality(Counted') <= Cardinality((Counted \ evicted) \cup {u})
        BY <1>6, <2>1, <2>2, FS_Subset
      <3>2. /\ CountOpen' = Cardinality(Counted') /\ Cardinality(Counted') \in Nat
            /\ Cardinality((Counted \ evicted) \cup {u}) \in Nat
        BY <2>2, <3>1, FS_CardinalityType DEF CountOpen, Counted
      <3> QED
        BY <1>4, <1>7, <2>2, <3>1, <3>2
    <2>4. CountOpen' <= Cap
      <3>1. CountOpen' \in Nat
        BY CountedFinite, <1>6, <2>1, <2>2, FS_Subset, FS_CardinalityType DEF CountOpen, Counted
      <3>2. Cardinality(evicted) = IF request[r].counted >= Cap THEN request[r].counted + 1 - Cap
                                   ELSE 0
        BY <1>1, <1>9 DEF Excess
      <3> QED
        BY <1>4, <2>3, <3>1, <3>2, CapAssumption
    <2> QED
      BY <1>5, <2>4 DEF CapIntegrity, CapHolds
  <1> QED
    BY <1>8, <1>9

LEMMA InitCap == Init => CapIntegrity
  <1> SUFFICES ASSUME Init PROVE CapIntegrity
    OBVIOUS
  <1>1. TypeOK
    BY InitIntegrity DEF SessionIntegrity
  <1>2. Counted = {} /\ lock = {} /\ \A r \in Requests : request[r].at = "idle"
    BY DEF Init, Counted, Idle
  <1>3. CountOpen = 0
    BY <1>2, CountedFinite, FS_EmptySet
  <1> QED
    BY <1>1, <1>2, <1>3, CapAssumption DEF CapIntegrity, OneOpener, CapHolds, At

(* No other step of a request enters the lock, and none opens a session that *)
(* was over.                                                                 *)
LEMMA RequestCap ==
  ASSUME CapIntegrity, TypeOK', NEW r \in Requests,
         PutSave(r) \/ DeleteObjects(r) \/ Claim(r) \/ ReadChunks(r) \/ Join(r)
         \/ Finish(r) \/ FailBuilding(r) \/ Crash(r)
  PROVE  CapIntegrity'
  <1>1. TypeOK /\ request[r] \in Calls /\ request[r].upload \in Uploads
    BY DEF CapIntegrity, TypeOK, Calls
  <1>2. Counted' \subseteq Counted
    <2>1. ASSUME UNCHANGED <<status, life>> PROVE Counted' = Counted
      BY <2>1 DEF Counted
    <2>2. ASSUME NEW u \in Uploads, life' = life,
                 \/ status[u] \in {"open", "completing"}
                      /\ status' = [status EXCEPT ![u] = "completing"]
                 \/ status[u] \in {"open", "completing"} /\ status' = [status EXCEPT ![u] = "open"]
                 \/ status' = [status EXCEPT ![u] = "completed"]
          PROVE  Counted' \subseteq Counted
      <3>1. /\ \A v \in Uploads \ {u} : status'[v] = status[v]
            /\ status'[u] \in {"open", "completing"} => status[u] \in {"open", "completing"}
        BY <1>1, <2>2 DEF TypeOK
      <3> QED
        BY <2>2, <3>1 DEF Counted
    <2>3. CASE PutSave(r) \/ DeleteObjects(r) \/ ReadChunks(r) \/ Join(r) \/ Crash(r)
      BY <2>1, <2>3 DEF PutSave, DeleteObjects, ReadChunks, Join, Crash, store
    <2>4. CASE Claim(r)
      BY <1>1, <2>1, <2>2, <2>4 DEF Claim, Claimable, Stale
    <2>5. CASE FailBuilding(r)
      BY <1>1, <2>1, <2>2, <2>5 DEF FailBuilding, Reopenable
    <2>6. CASE Finish(r)
      BY <1>1, <2>2, <2>6 DEF Finish
    <2> QED
      BY <2>3, <2>4, <2>5, <2>6
  <1>3. \A q \in Requests : request'[q].at = "open" => q # r /\ request'[q] = request[q]
    <2>1. ASSUME NEW paths \in SUBSET Nat, ThenDelete(r, paths) \/ Leave(r)
          PROVE  \A q \in Requests : request'[q].at = "open" => q # r /\ request'[q] = request[q]
      BY <1>1, <2>1, EndsCall
    <2>2. ASSUME Leave(r)
          PROVE  \A q \in Requests : request'[q].at = "open" => q # r /\ request'[q] = request[q]
      <3>1. {} \in SUBSET Nat
        OBVIOUS
      <3> HIDE DEF Leave
      <3> QED
        BY <2>1, <2>2, <3>1
    <2>3. ASSUME NEW step \in {"claimed", "join", "finish"}, To(r, step)
          PROVE  \A q \in Requests : request'[q].at = "open" => q # r /\ request'[q] = request[q]
      BY <1>1, <2>3 DEF To, TypeOK, Calls
    <2>4. CASE PutSave(r)
      <3>1. /\ {chunks[request[r].upload][request[r].slot]} \ {0, request[r].object} \in SUBSET Nat
            /\ {request[r].object} \in SUBSET Nat
        BY <1>1 DEF TypeOK, Calls
      <3> HIDE DEF ThenDelete
      <3> QED
        BY <2>1, <2>4, <3>1 DEF PutSave
    <2>5. CASE Finish(r)
      <3>1. Objects(chunks[request[r].upload]) \in SUBSET Nat
        BY <1>1, ObjectsType DEF TypeOK
      <3> QED
        BY <2>1, <2>5, <3>1 DEF Finish
    <2>6. CASE ReadChunks(r)
      BY <1>1, <2>6 DEF ReadChunks, TypeOK, Calls
    <2>7. CASE DeleteObjects(r) \/ Claim(r) \/ Join(r) \/ FailBuilding(r) \/ Crash(r)
      BY <2>2, <2>3, <2>7 DEF DeleteObjects, Claim, Join, FailBuilding, Crash
    <2> QED
      BY <2>4, <2>5, <2>6, <2>7
  <1>4. lock' = lock \/ lock' = lock \ {r}
    BY DEF PutSave, DeleteObjects, Claim, ReadChunks, Join, Finish, FailBuilding, Crash
  <1> QED
    BY <1>2, <1>3, <1>4, CountFalls

LEMMA OtherCap ==
  ASSUME CapIntegrity, TypeOK', lock' = lock, Counted' \subseteq Counted,
         \A r \in Requests : request'[r].at = "open" => request'[r] = request[r]
  PROVE  CapIntegrity'
  BY CountFalls

LEMMA CapStep ==
  ASSUME CapIntegrity, [Next]_vars
  PROVE  CapIntegrity'
  <1>1. TypeOK /\ TypeOK'
    BY TypeStep DEF CapIntegrity
  <1>2. ASSUME UNCHANGED <<status, life, request, lock>> PROVE CapIntegrity'
    BY <1>1, <1>2, OtherCap DEF Counted
  <1>3. ASSUME NEW r \in Requests, Steps(r) \/ OpenCount(r) \/ Crash(r) PROVE CapIntegrity'
    BY <1>1, <1>3, RequestCap, OpenCountCap, OpenCommitCap DEF Steps
  <1>4. ASSUME NEW r \in Requests, NEW u \in Uploads, NEW c \in Slots, PutStore(r, u, c)
        PROVE  CapIntegrity'
    <2> DEFINE call == [Idle EXCEPT !.at = "save", !.upload = u, !.slot = c,
                                    !.object = ChunkKey(u, c)]
    <2>1. request' = [request EXCEPT ![r] = call] /\ UNCHANGED <<status, life, lock>>
      BY <1>4 DEF PutStore, store
    <2>2. call.at = "save"
      BY DEF Idle
    <2> HIDE DEF call
    <2> QED
      BY <1>1, <2>1, <2>2, OtherCap DEF Counted, TypeOK
  <1>5. ASSUME NEW r \in Requests, NEW u \in Uploads, CompleteRead(r, u) PROVE CapIntegrity'
    <2> DEFINE call == [Idle EXCEPT !.at = "claim", !.upload = u, !.rows = chunks[u]]
    <2>1. request' = [request EXCEPT ![r] = call] /\ UNCHANGED <<status, life, lock>>
      BY <1>5 DEF CompleteRead, store
    <2>2. call.at = "claim"
      BY DEF Idle
    <2> HIDE DEF call
    <2> QED
      BY <1>1, <2>1, <2>2, OtherCap DEF Counted, TypeOK
  <1>6. ASSUME NEW r \in Requests, NEW u \in Uploads, Cancel(r, u) PROVE CapIntegrity'
    <2>1. /\ status' = [status EXCEPT ![u] = "cancelled"] /\ life' = life /\ lock' = lock
          /\ ThenDelete(r, Objects(chunks[u]))
      BY <1>6 DEF Cancel
    <2>2. \A q \in Requests : request'[q].at = "open" => request'[q] = request[q]
      <3>1. Objects(chunks[u]) \in SUBSET Nat
        BY <1>1, ObjectsType DEF TypeOK
      <3> QED
        BY <1>1, <2>1, <3>1, EndsCall
    <2>3. Counted' \subseteq Counted
      BY <1>1, <2>1 DEF Counted, TypeOK
    <2> QED
      BY <1>1, <2>1, <2>2, <2>3, OtherCap
  <1>7. ASSUME SweepDelete PROVE CapIntegrity'
    <2>1. UNCHANGED <<request, lock>> /\ Counted' \subseteq Counted
      BY <1>7 DEF SweepDelete, Counted
    <2> QED
      BY <1>1, <2>1, OtherCap
  <1>8. ASSUME NEW u \in Uploads, Pass(u) PROVE CapIntegrity'
    <2>1. UNCHANGED <<status, request, lock>> /\ life' = [life EXCEPT ![u] = @ + 1]
      BY <1>8 DEF Pass
    <2>2. /\ \A v \in Uploads \ {u} : life'[v] = life[v]
          /\ life[u] \in 0..2 /\ life'[u] = life[u] + 1
      BY <1>1, <2>1 DEF TypeOK
    <2>3. life'[u] # 0
      BY <2>2
    <2>4. Counted' \subseteq Counted
      BY <2>1, <2>2, <2>3 DEF Counted
    <2> QED
      BY <1>1, <2>1, <2>4, OtherCap
  <1>9. CASE SweepSelect \/ SweepObjects \/ CrashSweep \/ UNCHANGED vars
    BY <1>2, <1>9 DEF SweepSelect, SweepObjects, CrashSweep, vars, store
  <1>10. ASSUME NEW u \in Uploads, Tick(u) PROVE CapIntegrity'
    BY <1>2, <1>10 DEF Tick
  <1> QED
    BY <1>3, <1>4, <1>5, <1>6, <1>7, <1>8, <1>9, <1>10 DEF Next, Sweep
-----------------------------------------------------------------------------
(* The variables stay in their types, a dossier that is slow to build and    *)
(* its session taken over included.                                          *)
THEOREM TypeCorrect == Spec => []TypeOK
  <1>1. Init => TypeOK
    BY InitIntegrity DEF SessionIntegrity
  <1>2. TypeOK /\ [Next]_vars => TypeOK'
    BY TypeStep
  <1> QED
    BY <1>1, <1>2, PTL DEF Spec

(* Objects, rows, sends under way and what is to be deleted stay told apart, *)
(* whatever requests, sweeps and faults interleave.                          *)
THEOREM StoreIntegrityHolds == Spec => []StoreIntegrity
  <1>1. StoreIntegrity /\ [Next]_vars => StoreIntegrity'
    BY StoreStep
  <1> QED
    BY <1>1, InitStored, PTL DEF Spec

(* A chunk row never points to a deleted object: the sends replaced, refused *)
(* or cancelled (save_chunk, delete_objects_quietly), the sessions evicted   *)
(* and completed and the sweep delete only objects no row points to.         *)
THEOREM RowsHaveObjectsHolds == Spec => []RowsHaveObjects
  <1>1. StoreIntegrity => RowsHaveObjects
    BY DEF StoreIntegrity
  <1> QED
    BY <1>1, StoreIntegrityHolds, PTL

(* No user has more than upload_sessions_per_user unfinished sessions, for   *)
(* any number of requests that open one at once, some of which die.          *)
THEOREM CapHoldsAlways == Spec => []CapHolds
  <1>1. CapIntegrity /\ [Next]_vars => CapIntegrity'
    BY CapStep
  <1>2. CapIntegrity => CapHolds
    BY DEF CapIntegrity
  <1> QED
    BY <1>1, <1>2, InitCap, PTL DEF Spec
=============================================================================
