------------------------ MODULE UploadSessionsProofs ------------------------
(***************************************************************************)
(* One dossier per session, joined from the last acknowledged chunks, for  *)
(* any number of sessions, requests, chunks and faults, as long as a       *)
(* dossier is built within COMPLETING_STALE_AFTER of its claim.            *)
(*                                                                         *)
(* The status column alone does not say who completes a session: Alone     *)
(* ties it to the one request that does, Held keeps that request's session *)
(* completing and fresh until it is done or the row is swept.              *)
(***************************************************************************)
EXTENDS UploadSessions, FiniteSetTheorems, TLAPS

IsBuilding(r) == request[r].at \in Building

Held ==
  \A r \in Requests : IsBuilding(r) =>
    status[request[r].upload] \in {"completing", "gone"} /\ age[request[r].upload] # 2

Alone ==
  \A r, q \in Requests :
    IsBuilding(r) /\ IsBuilding(q) /\ request[r].upload = request[q].upload => r = q

(* A session that gave its dossier never becomes claimable again.            *)
Once == \A u \in Uploads :
          built[u] = 0 \/ (built[u] = 1 /\ status[u] \in {"completed", "gone"})

(* As long as a session may be completed, its rows are the sends that were   *)
(* acknowledged, and they are what the request that joins them has read.     *)
RowsAreAcked ==
  \A u \in Uploads : status[u] \in {"none", "open", "completing"} => chunks[u] = acked[u]

JoinsAcked ==
  \A r \in Requests :
    /\ request[r].at \in {"join", "finish"} /\ status[request[r].upload] = "completing"
         => request[r].rows = acked[request[r].upload]
    /\ At(r, "finish") => \A c \in Slots : request[r].rows[c] # 0

SessionIntegrity ==
  TypeOK /\ Held /\ Alone /\ Once /\ RowsAreAcked /\ JoinsAcked /\ DossierIsLastSent
-----------------------------------------------------------------------------
LEMMA IdleType ==
  /\ Idle \in Calls /\ Idle.at = "idle"
  /\ NoRows \in [Slots -> Nat] /\ NotSweeping.ids = {} /\ NotSweeping.at = "idle"
  /\ NotSweeping \in [at : {"idle", "delete", "objects"}, ids : SUBSET Uploads,
                      paths : SUBSET Nat]
  <1>1. (CHOOSE u \in Uploads : TRUE) \in Uploads /\ (CHOOSE c \in Slots : TRUE) \in Slots
    BY SetsAssumption
  <1> QED
    BY <1>1 DEF Idle, Calls, NoRows, NotSweeping

LEMMA ObjectsType == ASSUME NEW row \in [Slots -> Nat] PROVE Objects(row) \in SUBSET Nat
  BY DEF Objects

(* The requests that ThenDelete and Leave do not end are as they were.       *)
LEMMA EndsCall ==
  ASSUME TypeOK, NEW r \in Requests, NEW paths \in SUBSET Nat,
         ThenDelete(r, paths) \/ Leave(r)
  PROVE  /\ request' \in [Requests -> Calls]
         /\ request'[r].at \in {"idle", "delete"}
         /\ \A q \in Requests \ {r} : request'[q] = request[q]
  <1>1. CASE Leave(r)
    BY <1>1, IdleType DEF Leave, TypeOK
  <1>2. CASE ThenDelete(r, paths)
    <2> DEFINE next == IF paths = {} THEN Idle ELSE [Idle EXCEPT !.at = "delete", !.doomed = paths]
    <2>1. next \in Calls /\ next.at \in {"idle", "delete"}
      BY IdleType DEF Calls
    <2>2. request' = [request EXCEPT ![r] = next]
      BY <1>2 DEF ThenDelete
    <2> HIDE DEF next
    <2> QED
      BY <2>1, <2>2 DEF TypeOK
  <1> QED
    BY <1>1, <1>2

LEMMA InitIntegrity == Init => SessionIntegrity
  BY IdleType, BoundsAssumption
  DEF Init, SessionIntegrity, TypeOK, Held, Alone, Once, RowsAreAcked, JoinsAcked,
      DossierIsLastSent, IsBuilding, Building, At, Statuses

(* Steps that leave the builders and what they hold alone.                   *)
LEMMA BuildersKept ==
  ASSUME SessionIntegrity, TypeOK',
         \A r \in Requests : request'[r] = request[r] \/ request'[r].at \notin Building,
         \A u \in Uploads : status'[u] # status[u] =>
           status'[u] = "gone" \/ (status[u] \in {"none", "open"} /\ status'[u] \in {"open", "cancelled"}),
         \A u \in Uploads : age'[u] = age[u] \/ age'[u] = 0 \/ status[u] \notin {"completing", "gone"},
         \A u \in Uploads : status'[u] \in {"none", "open", "completing"} =>
           chunks'[u] = acked'[u],
         \A u \in Uploads : acked'[u] # acked[u] => status[u] = "open",
         UNCHANGED <<built, contents>>
  PROVE  SessionIntegrity'
  <1> USE DEF SessionIntegrity
  <1>1. Held'
    <2> SUFFICES ASSUME NEW r \in Requests, IsBuilding(r)'
                 PROVE  (status[request[r].upload] \in {"completing", "gone"}
                          /\ age[request[r].upload] # 2)'
      BY DEF Held
    <2> DEFINE u == request[r].upload
    <2>1. request'[r] = request[r] /\ IsBuilding(r) /\ u \in Uploads
      BY DEF IsBuilding, TypeOK, Calls
    <2>2. status[u] \in {"completing", "gone"} /\ age[u] # 2
      BY <2>1 DEF Held
    <2>3. status'[u] \in {"completing", "gone"} /\ age'[u] # 2
      BY <2>1, <2>2
    <2> QED
      BY <2>1, <2>3
  <1>2. Alone'
    BY DEF Alone, IsBuilding, TypeOK
  <1>3. Once'
    BY DEF Once
  <1>4. RowsAreAcked'
    BY DEF RowsAreAcked
  <1>5. JoinsAcked'
    <2> SUFFICES ASSUME NEW r \in Requests, request'[r].at \in {"join", "finish"}
                 PROVE  /\ status'[request'[r].upload] = "completing"
                             => request'[r].rows = acked'[request'[r].upload]
                        /\ request'[r].at = "finish" => \A c \in Slots : request'[r].rows[c] # 0
      BY DEF JoinsAcked, At
    <2> DEFINE u == request[r].upload
    <2>1. request'[r] = request[r] /\ u \in Uploads
      BY DEF Building, TypeOK, Calls
    <2>2. status'[u] = "completing" => status[u] = "completing" /\ acked'[u] = acked[u]
      BY <2>1
    <2> QED
      BY <2>1, <2>2 DEF JoinsAcked, At
  <1>6. DossierIsLastSent'
    <2> SUFFICES ASSUME NEW u \in Uploads, built[u] > 0
                 PROVE  contents[u] = acked'[u] /\ \A c \in Slots : acked'[u][c] # 0
      BY DEF DossierIsLastSent
    <2>1. acked'[u] = acked[u]
      BY DEF Once
    <2> QED
      BY <2>1 DEF DossierIsLastSent
  <1> QED
    BY <1>1, <1>2, <1>3, <1>4, <1>5, <1>6
-----------------------------------------------------------------------------
LEMMA OpenCountStep ==
  ASSUME SessionIntegrity, NEW r \in Requests, OpenCount(r)
  PROVE  SessionIntegrity'
  <1> DEFINE call == [Idle EXCEPT !.at = "open", !.counted = CountOpen]
  <1>1. CountOpen \in Nat
    <2>1. IsFiniteSet({u \in Uploads : status[u] \in {"open", "completing"} /\ life[u] = 0})
      BY SetsAssumption, FS_Subset
    <2> QED
      BY <2>1, FS_CardinalityType DEF CountOpen
  <1>2. call \in Calls /\ call.at = "open"
    BY <1>1, IdleType DEF Calls
  <1>3. request' = [request EXCEPT ![r] = call]
    BY DEF OpenCount
  <1> HIDE DEF call
  <1>4. TypeOK'
    BY <1>2, <1>3 DEF OpenCount, SessionIntegrity, TypeOK, store
  <1> QED
    BY <1>2, <1>3, <1>4, BuildersKept
    DEF OpenCount, SessionIntegrity, TypeOK, store, RowsAreAcked, Building

LEMMA OpenCommitStep ==
  ASSUME SessionIntegrity, NEW r \in Requests, OpenCommit(r)
  PROVE  SessionIntegrity'
  <1>1. PICK evicted \in SUBSET Evictable, opened \in SUBSET {u \in Uploads : status[u] = "none"} :
          /\ status' = [u \in Uploads |->
                          IF u \in evicted THEN "cancelled"
                          ELSE IF u \in opened THEN "open" ELSE status[u]]
          /\ chunks' = [u \in Uploads |-> IF u \in evicted THEN NoRows ELSE chunks[u]]
          /\ age' = [u \in Uploads |-> IF u \in evicted THEN 0 ELSE age[u]]
          /\ ThenDelete(r, UNION {Objects(chunks[u]) : u \in evicted})
    BY DEF OpenCommit
  <1>2. UNION {Objects(chunks[u]) : u \in evicted} \in SUBSET Nat
    <2>1. \A u \in evicted : Objects(chunks[u]) \in SUBSET Nat
      BY ObjectsType DEF Evictable, SessionIntegrity, TypeOK
    <2> QED
      BY <2>1
  <1>3. /\ request' \in [Requests -> Calls]
        /\ \A q \in Requests : request'[q] = request[q] \/ request'[q].at \notin Building
    <2> HIDE DEF ThenDelete
    <2>1. TypeOK
      BY DEF SessionIntegrity
    <2> QED
      BY <1>1, <1>2, <2>1, EndsCall DEF Building
  <1>4. UNCHANGED <<life, acked, built, contents, objects, sweep, sends, faults>> /\ lock' = lock \ {r}
    BY DEF OpenCommit
  <1> HIDE DEF ThenDelete
  <1>5. TypeOK'
    <2>1. status' \in [Uploads -> Statuses]
      BY <1>1 DEF SessionIntegrity, TypeOK, Statuses
    <2>2. chunks' \in [Uploads -> [Slots -> Nat]] /\ age' \in [Uploads -> 0..2]
      BY <1>1, IdleType DEF SessionIntegrity, TypeOK
    <2> QED
      BY <1>3, <1>4, <2>1, <2>2 DEF SessionIntegrity, TypeOK
  <1>6. \A u \in Uploads : status'[u] # status[u] =>
          status[u] \in {"none", "open"} /\ status'[u] \in {"open", "cancelled"}
    BY <1>1 DEF Evictable
  <1>7. \A u \in Uploads : age'[u] = age[u] \/ age'[u] = 0
    BY <1>1
  <1>8. \A u \in Uploads : status'[u] \in {"none", "open", "completing"} => chunks'[u] = acked'[u]
    <2> SUFFICES ASSUME NEW u \in Uploads, status'[u] \in {"none", "open", "completing"}
                 PROVE  chunks'[u] = acked[u]
      BY <1>4
    <2>1. u \notin evicted
      BY <1>1
    <2>2. status[u] \in {"none", "open", "completing"}
      BY <1>1, <2>1
    <2> QED
      BY <1>1, <2>1, <2>2 DEF SessionIntegrity, RowsAreAcked
  <1> QED
    BY <1>3, <1>4, <1>5, <1>6, <1>7, <1>8, BuildersKept

LEMMA PutStoreStep ==
  ASSUME SessionIntegrity, NEW r \in Requests, NEW u \in Uploads, NEW c \in Slots,
         PutStore(r, u, c)
  PROVE  SessionIntegrity'
  <1> DEFINE call == [Idle EXCEPT !.at = "save", !.upload = u, !.slot = c,
                                  !.object = ChunkKey(u, c)]
  <1>1. ChunkKey(u, c) \in Nat \ {0}
    BY DEF ChunkKey, SessionIntegrity, TypeOK
  <1>2. call \in Calls /\ call.at = "save"
    BY <1>1, IdleType DEF Calls
  <1>3. request' = [request EXCEPT ![r] = call]
    BY DEF PutStore
  <1> HIDE DEF call
  <1>4. TypeOK'
    BY <1>1, <1>2, <1>3 DEF PutStore, SessionIntegrity, TypeOK, store
  <1> QED
    BY <1>2, <1>3, <1>4, BuildersKept
    DEF PutStore, SessionIntegrity, TypeOK, store, RowsAreAcked, Building

LEMMA PutSaveStep ==
  ASSUME SessionIntegrity, NEW r \in Requests, PutSave(r)
  PROVE  SessionIntegrity'
  <1> DEFINE u == request[r].upload
             c == request[r].slot
             o == request[r].object
  <1>1. TypeOK /\ u \in Uploads /\ c \in Slots /\ o \in Nat /\ chunks[u][c] \in Nat
    BY DEF SessionIntegrity, TypeOK, Calls
  <1>2. UNCHANGED <<status, life, built, contents, objects, lock, sweep, sends, faults>>
    BY DEF PutSave
  <1>3. CASE TouchOpen(u)
    <2>1. /\ chunks' = [chunks EXCEPT ![u][c] = o] /\ acked' = [acked EXCEPT ![u][c] = o]
          /\ age' = [age EXCEPT ![u] = 0] /\ ThenDelete(r, {chunks[u][c]} \ {0, o})
      BY <1>3 DEF PutSave
    <2>2. /\ request' \in [Requests -> Calls]
          /\ \A q \in Requests : request'[q] = request[q] \/ request'[q].at \notin Building
      <3>1. {chunks[u][c]} \ {0, o} \in SUBSET Nat
        BY <1>1
      <3> HIDE DEF u, c, o
      <3> QED
        BY <1>1, <2>1, <3>1, EndsCall DEF Building
    <2>3. TypeOK'
      BY <1>1, <1>2, <2>1, <2>2 DEF TypeOK
    <2>4. \A v \in Uploads : status'[v] \in {"none", "open", "completing"} => chunks'[v] = acked'[v]
      <3> SUFFICES ASSUME NEW v \in Uploads, status[v] \in {"none", "open", "completing"}
                   PROVE  chunks'[v] = acked'[v]
        BY <1>2
      <3>1. chunks[v] = acked[v]
        BY DEF SessionIntegrity, RowsAreAcked
      <3> HIDE DEF u, c, o
      <3> QED
        BY <1>1, <2>1, <3>1 DEF TypeOK
    <2>5. \A v \in Uploads : acked'[v] # acked[v] => status[v] = "open"
      BY <1>1, <1>3, <2>1 DEF TouchOpen, TypeOK
    <2>6. \A v \in Uploads : age'[v] = age[v] \/ age'[v] = 0
      BY <1>1, <2>1 DEF TypeOK
    <2> HIDE DEF u, c, o
    <2> QED
      BY <1>2, <2>2, <2>3, <2>4, <2>5, <2>6, BuildersKept
  <1>4. CASE ~TouchOpen(u)
    <2>1. ThenDelete(r, {o}) /\ UNCHANGED <<chunks, acked, age>>
      BY <1>4 DEF PutSave
    <2>2. /\ request' \in [Requests -> Calls]
          /\ \A q \in Requests : request'[q] = request[q] \/ request'[q].at \notin Building
      <3>1. {o} \in SUBSET Nat
        BY <1>1
      <3> HIDE DEF u, c, o
      <3> QED
        BY <1>1, <2>1, <3>1, EndsCall DEF Building
    <2>3. TypeOK'
      BY <1>1, <1>2, <2>1, <2>2 DEF TypeOK
    <2> HIDE DEF u, c, o
    <2> QED
      BY <1>2, <2>1, <2>2, <2>3, BuildersKept DEF SessionIntegrity, RowsAreAcked
  <1> QED
    BY <1>3, <1>4

LEMMA DeleteObjectsStep ==
  ASSUME SessionIntegrity, NEW r \in Requests, DeleteObjects(r)
  PROVE  SessionIntegrity'
  <1>1. /\ request' \in [Requests -> Calls]
        /\ \A q \in Requests : request'[q] = request[q] \/ request'[q].at \notin Building
    BY EndsCall DEF DeleteObjects, SessionIntegrity, Building
  <1>2. TypeOK'
    BY <1>1 DEF DeleteObjects, SessionIntegrity, TypeOK, store
  <1> QED
    BY <1>1, <1>2, BuildersKept DEF DeleteObjects, SessionIntegrity, store, RowsAreAcked

LEMMA CompleteReadStep ==
  ASSUME SessionIntegrity, NEW r \in Requests, NEW u \in Uploads, CompleteRead(r, u)
  PROVE  SessionIntegrity'
  <1> DEFINE call == [Idle EXCEPT !.at = "claim", !.upload = u, !.rows = chunks[u]]
  <1>1. call \in Calls /\ call.at = "claim"
    BY IdleType DEF Calls, SessionIntegrity, TypeOK
  <1>2. request' = [request EXCEPT ![r] = call]
    BY DEF CompleteRead
  <1> HIDE DEF call
  <1>3. TypeOK'
    BY <1>1, <1>2 DEF CompleteRead, SessionIntegrity, TypeOK, store
  <1> QED
    BY <1>1, <1>2, <1>3, BuildersKept
    DEF CompleteRead, SessionIntegrity, TypeOK, store, RowsAreAcked, Building
-----------------------------------------------------------------------------
(* The steps of a completion.  Only the request whose session it is moves.   *)
LEMMA ClaimStep ==
  ASSUME SessionIntegrity, NEW r \in Requests, Claim(r)
  PROVE  SessionIntegrity'
  <1> DEFINE u == request[r].upload
  <1>1. TypeOK /\ u \in Uploads /\ ~IsBuilding(r)
    BY DEF SessionIntegrity, TypeOK, Calls, Claim, At, IsBuilding, Building
  <1>2. UNCHANGED <<life, chunks, acked, built, contents, objects, lock, sweep, sends, faults>>
    BY DEF Claim
  <1>3. CASE ~Claimable(u)
    <2>1. Leave(r) /\ UNCHANGED <<status, age>>
      BY <1>3 DEF Claim
    <2>2. /\ request' \in [Requests -> Calls]
          /\ \A q \in Requests : request'[q] = request[q] \/ request'[q].at \notin Building
      BY <1>1, <2>1, EndsCall DEF Building
    <2>3. TypeOK'
      BY <1>1, <1>2, <2>1, <2>2 DEF TypeOK
    <2> HIDE DEF u
    <2> QED
      BY <1>2, <2>1, <2>2, <2>3, BuildersKept DEF SessionIntegrity, RowsAreAcked
  <1>4. CASE Claimable(u)
    <2>1. /\ status' = [status EXCEPT ![u] = "completing"] /\ age' = [age EXCEPT ![u] = 0]
          /\ request' = [request EXCEPT ![r].at = "claimed"]
      BY <1>4 DEF Claim, To
    <2>2. /\ request'[r].at = "claimed" /\ request'[r].upload = u
          /\ \A q \in Requests \ {r} : request'[q] = request[q]
      BY <1>1, <2>1 DEF TypeOK, Calls
    <2>3. \A q \in Requests : IsBuilding(q) => request[q].upload # u
      BY <1>1, <1>4 DEF SessionIntegrity, Held, Claimable, Stale
    <2>4. TypeOK'
      <3>0. request[r] \in Calls
        BY <1>1 DEF TypeOK
      <3>1. [request[r] EXCEPT !.at = "claimed"] \in Calls
        BY <3>0 DEF Calls, Building
      <3>2. request' \in [Requests -> Calls]
        BY <1>1, <2>1, <3>1 DEF TypeOK
      <3> QED
        BY <1>1, <1>2, <2>1, <3>2 DEF TypeOK, Statuses
    <2>5. Held'
      BY <1>1, <2>1, <2>2, <2>3 DEF SessionIntegrity, Held, IsBuilding, TypeOK, Calls
    <2>6. Alone'
      BY <2>2, <2>3 DEF SessionIntegrity, Alone, IsBuilding
    <2>7. Once' /\ RowsAreAcked' /\ DossierIsLastSent'
      BY <1>1, <1>2, <1>4, <2>1
      DEF SessionIntegrity, Once, RowsAreAcked, DossierIsLastSent, Claimable, Stale, TypeOK
    <2>8. JoinsAcked'
      <3> SUFFICES ASSUME NEW q \in Requests, request'[q].at \in {"join", "finish"}
                   PROVE  /\ status'[request'[q].upload] = "completing"
                               => request'[q].rows = acked'[request'[q].upload]
                          /\ request'[q].at = "finish" => \A c \in Slots : request'[q].rows[c] # 0
        BY DEF JoinsAcked, At
      <3>1. q # r /\ request'[q] = request[q] /\ request[q].upload # u
        BY <2>2, <2>3 DEF IsBuilding, Building
      <3> QED
        BY <1>1, <1>2, <2>1, <3>1 DEF SessionIntegrity, JoinsAcked, At, TypeOK, Calls
    <2> QED
      BY <2>4, <2>5, <2>6, <2>7, <2>8 DEF SessionIntegrity
  <1> QED
    BY <1>3, <1>4

(* A building request goes on, with its session and no change of the store.  *)
LEMMA BuilderMoves ==
  ASSUME SessionIntegrity, NEW r \in Requests, IsBuilding(r), UNCHANGED store,
         request' \in [Requests -> Calls],
         request'[r].upload = request[r].upload,
         \A q \in Requests \ {r} : request'[q] = request[q],
         request'[r].at \in {"join", "finish"},
         status[request[r].upload] = "completing" => request'[r].rows = acked[request[r].upload],
         request'[r].at = "finish" => \A c \in Slots : request'[r].rows[c] # 0,
         UNCHANGED <<objects, lock, sweep, sends, faults>>
  PROVE  SessionIntegrity'
  <1>1. TypeOK'
    BY DEF SessionIntegrity, TypeOK, store
  <1>2. Held'
    BY DEF SessionIntegrity, Held, IsBuilding, store
  <1>3. Alone'
    BY DEF SessionIntegrity, Alone, IsBuilding
  <1>4. Once' /\ RowsAreAcked' /\ DossierIsLastSent'
    BY DEF SessionIntegrity, Once, RowsAreAcked, DossierIsLastSent, store
  <1>5. JoinsAcked'
    BY DEF SessionIntegrity, JoinsAcked, At, store
  <1> QED
    BY <1>1, <1>2, <1>3, <1>4, <1>5 DEF SessionIntegrity

LEMMA ReadChunksStep ==
  ASSUME SessionIntegrity, NEW r \in Requests, ReadChunks(r)
  PROVE  SessionIntegrity'
  <1> DEFINE u == request[r].upload
             call == [request[r] EXCEPT !.rows = chunks[u], !.at = "join"]
  <1>1. request' = [request EXCEPT ![r] = call]
    BY DEF ReadChunks, RowsToJoin, SessionIntegrity, TypeOK, Calls
  <1>2. request[r] \in Calls /\ chunks[u] \in [Slots -> Nat] /\ IsBuilding(r)
    BY DEF SessionIntegrity, TypeOK, Calls, ReadChunks, At, IsBuilding, Building
  <1>3. call \in Calls /\ call.at = "join" /\ call.rows = chunks[u] /\ call.upload = u
    BY <1>2 DEF Calls, Building
  <1>4. status[u] = "completing" => chunks[u] = acked[u]
    BY <1>2 DEF SessionIntegrity, RowsAreAcked, Calls
  <1>5. UNCHANGED <<store, objects, lock, sweep, sends, faults>>
    BY DEF ReadChunks
  <1> HIDE DEF call
  <1>6. request' \in [Requests -> Calls] /\ request'[r] = call /\ \A q \in Requests \ {r} : request'[q] = request[q]
    BY <1>1, <1>3 DEF SessionIntegrity, TypeOK
  <1> QED
    BY <1>2, <1>3, <1>4, <1>5, <1>6, BuilderMoves

LEMMA JoinStep ==
  ASSUME SessionIntegrity, NEW r \in Requests, Join(r)
  PROVE  SessionIntegrity'
  <1> DEFINE call == [request[r] EXCEPT !.at = "finish"]
  <1>1. request' = [request EXCEPT ![r] = call]
    BY DEF Join, To, SessionIntegrity, TypeOK
  <1>2. request[r] \in Calls /\ request[r].at = "join" /\ IsBuilding(r)
    BY DEF SessionIntegrity, TypeOK, Join, At, IsBuilding, Building
  <1>3. /\ call \in Calls /\ call.at = "finish" /\ call.rows = request[r].rows
        /\ call.upload = request[r].upload
    BY <1>2 DEF Calls, Building
  <1>4. \A c \in Slots : request[r].rows[c] # 0
    BY DEF Join, Whole, SessionIntegrity, TypeOK
  <1>5. status[request[r].upload] = "completing" => request[r].rows = acked[request[r].upload]
    BY <1>2 DEF SessionIntegrity, JoinsAcked
  <1>6. UNCHANGED <<store, objects, lock, sweep, sends, faults>>
    BY DEF Join
  <1> HIDE DEF call
  <1>7. request' \in [Requests -> Calls] /\ request'[r] = call /\ \A q \in Requests \ {r} : request'[q] = request[q]
    BY <1>1, <1>3 DEF SessionIntegrity, TypeOK
  <1> QED
    BY <1>2, <1>3, <1>4, <1>5, <1>6, <1>7, BuilderMoves
LEMMA FinishStep ==
  ASSUME SessionIntegrity, NEW r \in Requests, Finish(r)
  PROVE  SessionIntegrity'
  <1> DEFINE u == request[r].upload
  <1>1. TypeOK /\ u \in Uploads /\ request[r].at = "finish" /\ IsBuilding(r)
        /\ request[r].rows \in [Slots -> Nat]
    BY DEF SessionIntegrity, TypeOK, Calls, Finish, At, IsBuilding, Building
  <1>2. /\ status' = [status EXCEPT ![u] = "completed"] /\ age' = [age EXCEPT ![u] = 0]
        /\ chunks' = [chunks EXCEPT ![u] = NoRows] /\ built' = [built EXCEPT ![u] = @ + 1]
        /\ contents' = [contents EXCEPT ![u] = request[r].rows]
        /\ ThenDelete(r, Objects(chunks[u]))
        /\ UNCHANGED <<life, acked, objects, lock, sweep, sends, faults>>
    BY DEF Finish
  <1>3. status[u] = "completing"
    BY <1>1 DEF Finish, SessionIntegrity, Held
  <1>4. built[u] = 0
    BY <1>1, <1>3 DEF SessionIntegrity, Once
  <1>5. request[r].rows = acked[u] /\ \A c \in Slots : acked[u][c] # 0
    BY <1>1, <1>3 DEF SessionIntegrity, JoinsAcked, At
  <1>6. /\ request' \in [Requests -> Calls]
        /\ request'[r].at \in {"idle", "delete"}
        /\ \A q \in Requests \ {r} : request'[q] = request[q]
    <2>1. Objects(chunks[u]) \in SUBSET Nat
      BY <1>1, ObjectsType DEF TypeOK
    <2> HIDE DEF u
    <2> QED
      BY <1>1, <1>2, <2>1, EndsCall
  <1>7. \A q \in Requests \ {r} : IsBuilding(q) => request[q].upload # u
    BY <1>1 DEF SessionIntegrity, Alone
  <1> HIDE DEF u, ThenDelete
  <1>8. TypeOK'
    <2>1. status' \in [Uploads -> Statuses] /\ age' \in [Uploads -> 0..2]
      BY <1>1, <1>2 DEF TypeOK, Statuses
    <2>2. chunks' \in [Uploads -> [Slots -> Nat]] /\ built' \in [Uploads -> Nat]
      BY <1>1, <1>2, IdleType DEF TypeOK
    <2>3. contents' \in [Uploads -> [Slots -> Nat]]
      BY <1>1, <1>2 DEF TypeOK
    <2> QED
      BY <1>1, <1>2, <1>6, <2>1, <2>2, <2>3 DEF TypeOK
  <1>9. Held' /\ Alone'
    <2>1. \A q \in Requests : IsBuilding(q)' => q # r /\ IsBuilding(q) /\ request'[q] = request[q]
      BY <1>6 DEF IsBuilding, Building
    <2>2. Alone'
      BY <2>1 DEF SessionIntegrity, Alone
    <2>3. Held'
      BY <1>1, <1>2, <1>7, <2>1 DEF SessionIntegrity, Held, TypeOK, Calls
    <2> QED
      BY <2>2, <2>3
  <1>10. Once' /\ RowsAreAcked'
    BY <1>1, <1>2, <1>4 DEF SessionIntegrity, Once, RowsAreAcked, TypeOK
  <1>11. JoinsAcked'
    <2> SUFFICES ASSUME NEW q \in Requests, request'[q].at \in {"join", "finish"}
                 PROVE  /\ status'[request'[q].upload] = "completing"
                             => request'[q].rows = acked'[request'[q].upload]
                        /\ request'[q].at = "finish" => \A c \in Slots : request'[q].rows[c] # 0
      BY DEF JoinsAcked, At
    <2>1. q # r /\ request'[q] = request[q] /\ request[q].upload # u
      BY <1>6, <1>7 DEF IsBuilding, Building
    <2> QED
      BY <1>1, <1>2, <2>1 DEF SessionIntegrity, JoinsAcked, At, TypeOK, Calls
  <1>12. DossierIsLastSent'
    BY <1>1, <1>2, <1>5 DEF SessionIntegrity, DossierIsLastSent, TypeOK
  <1> QED
    BY <1>8, <1>9, <1>10, <1>11, <1>12 DEF SessionIntegrity

LEMMA FailBuildingStep ==
  ASSUME SessionIntegrity, NEW r \in Requests, FailBuilding(r)
  PROVE  SessionIntegrity'
  <1> DEFINE u == request[r].upload
  <1>1. TypeOK /\ u \in Uploads /\ IsBuilding(r)
    BY DEF SessionIntegrity, TypeOK, Calls, FailBuilding, At, IsBuilding, Building
  <1>2. /\ UNCHANGED <<life, chunks, acked, built, contents, objects, lock, sweep, sends>>
        /\ faults' \in Nat
    BY DEF FailBuilding, SessionIntegrity, TypeOK
  <1>3. /\ request' \in [Requests -> Calls]
        /\ request'[r].at \in {"idle", "delete"}
        /\ \A q \in Requests \ {r} : request'[q] = request[q]
    BY <1>1, EndsCall DEF FailBuilding
  <1>4. CASE ~Reopenable(u)
    <2>1. UNCHANGED <<status, age>>
      BY <1>4 DEF FailBuilding
    <2>2. TypeOK'
      BY <1>1, <1>2, <1>3, <2>1 DEF TypeOK
    <2>3. \A q \in Requests : request'[q] = request[q] \/ request'[q].at \notin Building
      BY <1>3 DEF Building
    <2> HIDE DEF u
    <2> QED
      BY <1>2, <2>1, <2>2, <2>3, BuildersKept DEF SessionIntegrity, RowsAreAcked
  <1>5. CASE Reopenable(u)
    <2>1. status' = [status EXCEPT ![u] = "open"] /\ age' = [age EXCEPT ![u] = 0]
      BY <1>5 DEF FailBuilding
    <2>2. \A q \in Requests \ {r} : IsBuilding(q) => request[q].upload # u
      BY <1>1 DEF SessionIntegrity, Alone
    <2>3. \A q \in Requests : IsBuilding(q)' =>
            IsBuilding(q) /\ request'[q] = request[q] /\ request[q].upload # u
      BY <1>3, <2>2 DEF IsBuilding, Building
    <2>4. TypeOK'
      BY <1>1, <1>2, <1>3, <2>1 DEF TypeOK, Statuses
    <2> HIDE DEF u
    <2>5. Held' /\ Alone'
      BY <1>1, <2>1, <2>3 DEF SessionIntegrity, Held, Alone, TypeOK, Calls
    <2>6. Once' /\ RowsAreAcked' /\ DossierIsLastSent'
      BY <1>1, <1>2, <1>5, <2>1
      DEF SessionIntegrity, Once, RowsAreAcked, DossierIsLastSent, Reopenable, TypeOK
    <2>7. JoinsAcked'
      <3> SUFFICES ASSUME NEW q \in Requests, request'[q].at \in {"join", "finish"}
                   PROVE  /\ status'[request'[q].upload] = "completing"
                               => request'[q].rows = acked'[request'[q].upload]
                          /\ request'[q].at = "finish" => \A c \in Slots : request'[q].rows[c] # 0
        BY DEF JoinsAcked, At
      <3>1. request'[q] = request[q] /\ request[q].upload # u
        BY <2>3 DEF IsBuilding, Building
      <3> QED
        BY <1>1, <1>2, <2>1, <3>1 DEF SessionIntegrity, JoinsAcked, At, TypeOK, Calls
    <2> QED
      BY <2>4, <2>5, <2>6, <2>7 DEF SessionIntegrity
  <1> QED
    BY <1>4, <1>5-----------------------------------------------------------------------------
LEMMA CancelStep ==
  ASSUME SessionIntegrity, NEW r \in Requests, NEW u \in Uploads, Cancel(r, u)
  PROVE  SessionIntegrity'
  <1>1. /\ TypeOK /\ status[u] = "open" /\ status' = [status EXCEPT ![u] = "cancelled"]
        /\ age' = [age EXCEPT ![u] = 0] /\ chunks' = [chunks EXCEPT ![u] = NoRows]
        /\ UNCHANGED <<life, acked, built, contents, objects, lock, sweep, sends, faults>>
    BY DEF Cancel, SessionIntegrity
  <1>2. /\ request' \in [Requests -> Calls]
        /\ \A q \in Requests : request'[q] = request[q] \/ request'[q].at \notin Building
    <2>1. Objects(chunks[u]) \in SUBSET Nat
      BY <1>1, ObjectsType DEF TypeOK
    <2> QED
      BY <1>1, <2>1, EndsCall DEF Cancel, Building
  <1>3. TypeOK'
    BY <1>1, <1>2, IdleType DEF TypeOK, Statuses
  <1>4. \A v \in Uploads : status'[v] \in {"none", "open", "completing"} => chunks'[v] = acked'[v]
    BY <1>1 DEF SessionIntegrity, RowsAreAcked, TypeOK
  <1> QED
    BY <1>1, <1>2, <1>3, <1>4, BuildersKept DEF TypeOK

LEMMA CrashStep ==
  ASSUME SessionIntegrity, NEW r \in Requests, Crash(r)
  PROVE  SessionIntegrity'
  <1>1. /\ request' \in [Requests -> Calls]
        /\ \A q \in Requests : request'[q] = request[q] \/ request'[q].at \notin Building
    BY EndsCall DEF Crash, SessionIntegrity, Building
  <1>2. TypeOK'
    BY <1>1 DEF Crash, SessionIntegrity, TypeOK, store
  <1> QED
    BY <1>1, <1>2, BuildersKept DEF Crash, SessionIntegrity, store, RowsAreAcked

LEMMA SweepDeleteStep ==
  ASSUME SessionIntegrity, SweepDelete
  PROVE  SessionIntegrity'
  <1>1. /\ TypeOK
        /\ status' = [u \in Uploads |-> IF u \in sweep.ids THEN "gone" ELSE status[u]]
        /\ chunks' = [u \in Uploads |-> IF u \in sweep.ids THEN NoRows ELSE chunks[u]]
        /\ age' = [u \in Uploads |-> IF u \in sweep.ids THEN 0 ELSE age[u]]
        /\ life' = [u \in Uploads |-> IF u \in sweep.ids THEN 0 ELSE life[u]]
        /\ sweep' = [sweep EXCEPT !.at = "objects", !.ids = {}]
        /\ UNCHANGED <<acked, built, contents, objects, request, lock, sends, faults>>
    BY DEF SweepDelete, SessionIntegrity
  <1>2. TypeOK'
    <2>1. status' \in [Uploads -> Statuses] /\ age' \in [Uploads -> 0..2]
          /\ life' \in [Uploads -> 0..2] /\ chunks' \in [Uploads -> [Slots -> Nat]]
      BY <1>1, IdleType DEF TypeOK, Statuses
    <2> QED
      BY <1>1, <2>1 DEF TypeOK
  <1>3. \A v \in Uploads : status'[v] \in {"none", "open", "completing"} => chunks'[v] = acked'[v]
    BY <1>1 DEF SessionIntegrity, RowsAreAcked
  <1> QED
    BY <1>1, <1>2, <1>3, BuildersKept

(* A session that a request is building keeps its age below stale.           *)
LEMMA TimeStep ==
  ASSUME ~Slow, SessionIntegrity, NEW u \in Uploads, Tick(u) \/ Pass(u)
  PROVE  SessionIntegrity'
  <1>1. UNCHANGED <<status, chunks, acked, built, contents, objects, request, lock, sweep, sends, faults>>
    BY DEF Tick, Pass
  <1>2. TypeOK'
    <2>1. TypeOK /\ age[u] \in 0..2 /\ life[u] \in 0..2
      BY DEF SessionIntegrity, TypeOK
    <2>2. CASE Tick(u)
      <3>1. age' = [age EXCEPT ![u] = @ + 1] /\ age[u] + 1 \in 0..2 /\ life' = life
        BY <2>1, <2>2 DEF Tick
      <3> QED
        BY <1>1, <2>1, <3>1 DEF TypeOK
    <2>3. CASE Pass(u)
      <3>1. life' = [life EXCEPT ![u] = @ + 1] /\ life[u] + 1 \in 0..2 /\ age' = age
        BY <2>1, <2>3 DEF Pass
      <3> QED
        BY <1>1, <2>1, <3>1 DEF TypeOK
    <2> QED
      BY <2>2, <2>3
  <1>3. Held'
    <2> SUFFICES ASSUME NEW r \in Requests, IsBuilding(r)
                 PROVE  age'[request[r].upload] # 2
      BY <1>1 DEF Held, SessionIntegrity, IsBuilding
    <2>1. age[request[r].upload] # 2 /\ request[r].upload \in Uploads
      BY DEF SessionIntegrity, Held, TypeOK, Calls
    <2>2. CASE Pass(u)
      BY <2>1, <2>2 DEF Pass
    <2>3. CASE Tick(u) /\ request[r].upload # u
      BY <2>1, <2>3 DEF Tick, SessionIntegrity, TypeOK
    <2>4. CASE Tick(u) /\ request[r].upload = u
      <3>1. BuiltFor(u) # {}
        BY <2>4 DEF BuiltFor, IsBuilding
      <3>2. age[u] # 1
        BY <2>4, <3>1 DEF Tick
      <3>3. age \in [Uploads -> 0..2] /\ age' = [age EXCEPT ![u] = @ + 1] /\ age[u] < 2
        BY <2>4 DEF Tick, SessionIntegrity, TypeOK
      <3> QED
        BY <2>4, <3>2, <3>3
    <2> QED
      BY <2>2, <2>3, <2>4
  <1>4. Alone' /\ Once' /\ RowsAreAcked' /\ DossierIsLastSent'
    BY <1>1 DEF SessionIntegrity, Alone, IsBuilding, Once, RowsAreAcked, DossierIsLastSent
  <1>5. JoinsAcked'
    BY <1>1 DEF SessionIntegrity, JoinsAcked, At
  <1> QED
    BY <1>2, <1>3, <1>4, <1>5 DEF SessionIntegrity

LEMMA SameRequests ==
  ASSUME SessionIntegrity, TypeOK', UNCHANGED <<store, request>>
  PROVE  SessionIntegrity'
  BY DEF SessionIntegrity, store, Held, Alone, IsBuilding, Once, RowsAreAcked, JoinsAcked, At,
         DossierIsLastSent

LEMMA StepIntegrity ==
  ASSUME ~Slow, SessionIntegrity, [Next]_vars
  PROVE  SessionIntegrity'
  <1>1. CASE UNCHANGED vars
    BY <1>1, SameRequests DEF vars, store, SessionIntegrity, TypeOK
  <1>2. CASE SweepSelect
    <2>1. UNION {Objects(chunks[u]) : u \in {v \in Uploads : Over(v)}} \in SUBSET Nat
      <3>1. \A u \in {v \in Uploads : Over(v)} : Objects(chunks[u]) \in SUBSET Nat
        BY ObjectsType DEF SessionIntegrity, TypeOK
      <3> QED
        BY <3>1
    <2>2. TypeOK'
      BY <1>2, <2>1 DEF SweepSelect, SessionIntegrity, TypeOK, store
    <2> QED
      BY <1>2, <2>2, SameRequests DEF SweepSelect
  <1>3. CASE SweepObjects \/ CrashSweep
    <2>1. TypeOK'
      <3>1. /\ sweep' = NotSweeping /\ objects' \in SUBSET (Nat \ {0}) /\ faults' \in Nat
            /\ UNCHANGED <<store, request, lock, sends>>
        <4>1. CASE SweepObjects
          BY <4>1 DEF SweepObjects, SessionIntegrity, TypeOK
        <4>2. CASE CrashSweep
          BY <4>2 DEF CrashSweep, SessionIntegrity, TypeOK, store
        <4> QED
          BY <1>3, <4>1, <4>2
      <3> QED
        BY <3>1, IdleType DEF SessionIntegrity, TypeOK, store
    <2> QED
      BY <1>3, <2>1, SameRequests DEF SweepObjects, CrashSweep
  <1>4. ASSUME NEW r \in Requests, Steps(r) PROVE SessionIntegrity'
    BY <1>4, OpenCommitStep, PutSaveStep, DeleteObjectsStep, ClaimStep, ReadChunksStep, JoinStep,
       FinishStep, FailBuildingStep DEF Steps
  <1>5. ASSUME NEW r \in Requests, OpenCount(r) \/ Crash(r) PROVE SessionIntegrity'
    BY <1>5, OpenCountStep, CrashStep
  <1>6. ASSUME NEW r \in Requests, NEW u \in Uploads, CompleteRead(r, u) \/ Cancel(r, u)
        PROVE  SessionIntegrity'
    BY <1>6, CompleteReadStep, CancelStep
  <1> QED
    BY <1>1, <1>2, <1>3, <1>4, <1>5, <1>6, PutStoreStep, SweepDeleteStep, TimeStep
    DEF Next, Sweep
-----------------------------------------------------------------------------
(* SessionIntegrity always holds.                                            *)
THEOREM SessionIntegrityHolds == ASSUME ~Slow PROVE Spec => []SessionIntegrity
  <1>1. SessionIntegrity /\ [Next]_vars => SessionIntegrity'
    BY StepIntegrity
  <1> QED
    BY <1>1, InitIntegrity, PTL DEF Spec

(* An upload session gives at most one dossier (claim_for_completion), for   *)
(* any sessions, requests, crashes and sweeps.                               *)
THEOREM OneDossierHolds == ASSUME ~Slow PROVE Spec => []OneDossier
  <1>1. SessionIntegrity => OneDossier
    BY DEF SessionIntegrity, Once, OneDossier
  <1> QED
    BY <1>1, SessionIntegrityHolds, PTL

(* The dossier is joined from the sends last acknowledged, a row for each.   *)
THEOREM DossierIsLastSentHolds == ASSUME ~Slow PROVE Spec => []DossierIsLastSent
  <1>1. SessionIntegrity => DossierIsLastSent
    BY DEF SessionIntegrity
  <1> QED
    BY <1>1, SessionIntegrityHolds, PTL
=============================================================================
