--------------------------- MODULE RecordDelivery ---------------------------
(***************************************************************************)
(* How a worker's Kafka consumers take records off one topic               *)
(* (backend/.../worker.py, _process_record and what it calls): at least    *)
(* once, one record at a time, its offset committed by hand after the      *)
(* handler - or the dead-letter topic - is done with it, with a            *)
(* processed_event row per handled event_id.  Workers of one consumer      *)
(* group share the partitions; a worker may lose a partition while it has  *)
(* a record of it in hand.                                                 *)
(***************************************************************************)
EXTENDS Naturals, Sequences

CONSTANTS
  Partitions,
  Ids,          \* event_ids
  NoId,         \* a message without one
  Log,          \* per partition, its records
  Workers,
  Nobody,       \* owner of a partition between two assignments
  MaxAttempts,  \* worker_handler_max_attempts
  MaxFaults     \* bound on crashes, failed dead-letter publications, moves

ASSUME LogAssumption ==
  Log \in [Partitions ->
             Seq([id : Ids \cup {NoId}, readable : BOOLEAN, progress : BOOLEAN])]
ASSUME NobodyAssumption == Nobody \notin Workers
ASSUME BoundsAssumption == MaxAttempts \in Nat \ {0} /\ MaxFaults \in Nat

VARIABLES
  committed,  \* per partition: records before the group's committed offset
  owner,      \* per partition: the worker it is assigned to
  position,   \* per partition: records its owner has fetched
  hand,       \* per worker: the record it has in hand, and where it is with it
  handled,    \* records whose handler committed something at least once
  marks,      \* processed_event: keys of the records handled to the end
  parked,     \* records on the dead-letter topic
  faults

vars == <<committed, owner, position, hand, handled, marks, parked, faults>>

Records == Partitions \X (Nat \ {0})
Hands == [stage : {"down", "idle", "check", "run", "mark", "park", "commit"},
          rec : Records \cup {NoId}, attempt : Nat]

Entry(r) == Log[r[1]][r[2]]
Idle == [stage |-> "idle", rec |-> NoId, attempt |-> 0]

\* Mutant: a progress report takes the marker of the result it precedes.
AlwaysDeduped(r) == TRUE

(* An advisory OCR progress report is neither deduplicated nor marked.       *)
Deduped(r) == ~Entry(r).progress

(* event_key: the event_id, else the record's coordinates.                   *)
Key(r) == IF Entry(r).id = NoId THEN r ELSE Entry(r).id

Holds(w, stage) == hand[w].stage = stage
Busy(w) == hand[w].stage \notin {"down", "idle"}
To(w, stage) == hand' = [hand EXCEPT ![w].stage = stage]

Init ==
  /\ committed = [p \in Partitions |-> 0]
  /\ owner = [p \in Partitions |-> Nobody]
  /\ position = [p \in Partitions |-> 0]
  /\ hand = [w \in Workers |-> Idle]
  /\ handled = {}
  /\ marks = {}
  /\ parked = {}
  /\ faults = 0
-----------------------------------------------------------------------------
(* The group assigns a partition (Kafka, external): its new owner reads on   *)
(* from the committed offset.                                                *)
Assign(p, w) ==
  /\ owner[p] # w /\ ~Holds(w, "down")
  /\ IF owner[p] = Nobody THEN UNCHANGED faults
                          ELSE faults < MaxFaults /\ faults' = faults + 1
  /\ owner' = [owner EXCEPT ![p] = w]
  /\ position' = [position EXCEPT ![p] = committed[p]]
  /\ UNCHANGED <<committed, hand, handled, marks, parked>>

(* The next record of an assigned partition; one that is not a JSON object   *)
(* goes to the dead-letter topic unhandled.                                  *)
Fetch(w, p) ==
  LET r == <<p, position[p] + 1>> IN
  /\ Holds(w, "idle") /\ owner[p] = w
  /\ position[p] < Len(Log[p])
  /\ position' = [position EXCEPT ![p] = @ + 1]
  /\ hand' = [hand EXCEPT ![w] =
               [stage |-> IF Entry(r).readable THEN "check" ELSE "park", rec |-> r, attempt |-> 1]]
  /\ UNCHANGED <<committed, owner, handled, marks, parked, faults>>

(* An attempt, in a session of its own, first looks for the marker.          *)
Check(w) ==
  /\ Holds(w, "check")
  /\ To(w, IF Deduped(hand[w].rec) /\ Key(hand[w].rec) \in marks THEN "commit" ELSE "run")
  /\ UNCHANGED <<committed, owner, position, handled, marks, parked, faults>>

HandlerReturns(w) ==
  /\ Holds(w, "run")
  /\ handled' = handled \cup {hand[w].rec}
  /\ To(w, IF Deduped(hand[w].rec) THEN "mark" ELSE "commit")
  /\ UNCHANGED <<committed, owner, position, marks, parked, faults>>

\* Mutant: a failing record is tried for ever.
AttemptFailsUnbounded(w) ==
  /\ \/ Holds(w, "run") /\ handled' \in {handled, handled \cup {hand[w].rec}}
     \/ (Holds(w, "check") \/ Holds(w, "mark")) /\ UNCHANGED handled
  /\ To(w, "check")
  /\ UNCHANGED <<committed, owner, position, marks, parked, faults>>

(* The handler raises, perhaps after a commit of its own; or the reading or  *)
(* the commit of the marker does.  It is tried again, a bounded number of    *)
(* times.                                                                    *)
AttemptFails(w) ==
  /\ \/ Holds(w, "run") /\ handled' \in {handled, handled \cup {hand[w].rec}}
     \/ (Holds(w, "check") \/ Holds(w, "mark")) /\ UNCHANGED handled
  /\ IF hand[w].attempt < MaxAttempts
       THEN hand' = [hand EXCEPT ![w] =
                      [stage |-> "check", rec |-> @.rec, attempt |-> @.attempt + 1]]
       ELSE To(w, "park")
  /\ UNCHANGED <<committed, owner, position, marks, parked, faults>>

(* The marker; an IntegrityError says that another worker was first.         *)
Mark(w) ==
  /\ Holds(w, "mark")
  /\ marks' = marks \cup {Key(hand[w].rec)}
  /\ To(w, "commit")
  /\ UNCHANGED <<committed, owner, position, handled, parked, faults>>

\* Mutant: a record that cannot be parked is left behind.
ParkOrDrop(w) ==
  /\ Holds(w, "park")
  /\ parked' \in {parked, parked \cup {hand[w].rec}}
  /\ To(w, "commit")
  /\ UNCHANGED <<committed, owner, position, handled, marks, faults>>

Park(w) ==
  /\ Holds(w, "park")
  /\ parked' = parked \cup {hand[w].rec}
  /\ To(w, "commit")
  /\ UNCHANGED <<committed, owner, position, handled, marks, faults>>

(* The process ends, and its group gives its partitions away.                *)
Dies(w) ==
  /\ hand' = [hand EXCEPT ![w] = [Idle EXCEPT !.stage = "down"]]
  /\ owner' = [p \in Partitions |-> IF owner[p] = w THEN Nobody ELSE owner[p]]

(* A commit for a partition that is no longer assigned raises, and an error  *)
(* outside the handler ends the worker.                                      *)
CommitOffset(w) ==
  LET r == hand[w].rec IN
  /\ Holds(w, "commit")
  /\ IF owner[r[1]] = w
       THEN /\ committed' = [committed EXCEPT ![r[1]] = r[2]]
            /\ hand' = [hand EXCEPT ![w] = Idle]
            /\ UNCHANGED owner
       ELSE /\ Dies(w)
            /\ UNCHANGED committed
  /\ UNCHANGED <<position, handled, marks, parked, faults>>

(* A crash at any point, or a dead-letter publication that raises.           *)
Crash(w) ==
  /\ ~Holds(w, "down") /\ faults < MaxFaults
  /\ faults' = faults + 1
  /\ Dies(w)
  /\ UNCHANGED <<committed, position, handled, marks, parked>>

Start(w) ==
  /\ Holds(w, "down")
  /\ hand' = [hand EXCEPT ![w] = Idle]
  /\ UNCHANGED <<committed, owner, position, handled, marks, parked, faults>>
-----------------------------------------------------------------------------
Work(w) ==
  \/ \E p \in Partitions : Fetch(w, p)
  \/ Check(w)
  \/ HandlerReturns(w)
  \/ AttemptFails(w)
  \/ Mark(w)
  \/ Park(w)
  \/ CommitOffset(w)

Next ==
  \/ \E w \in Workers : Work(w) \/ Crash(w) \/ Start(w)
  \/ \E p \in Partitions, w \in Workers : Assign(p, w)

Spec == Init /\ [][Next]_vars

(* The loops run, a worker that ended is started again, and a partition      *)
(* nobody has is assigned.                                                   *)
Fairness ==
  /\ \A w \in Workers : WF_vars(Work(w)) /\ WF_vars(Start(w))
  /\ \A p \in Partitions : WF_vars(owner[p] = Nobody /\ \E w \in Workers : Assign(p, w))

FairSpec == Spec /\ Fairness
-----------------------------------------------------------------------------
TypeOK ==
  /\ committed \in [Partitions -> Nat]
  /\ owner \in [Partitions -> Workers \cup {Nobody}]
  /\ position \in [Partitions -> Nat]
  /\ hand \in [Workers -> Hands]
  /\ \A w \in Workers : Busy(w) => hand[w].rec \in Records
  /\ handled \subseteq Records
  /\ marks \subseteq Ids \cup Records
  /\ parked \subseteq Records
  /\ faults \in Nat

(* A record that needs no redelivery: handled, parked, or a result whose     *)
(* event was handled under another record of the same event_id.              *)
Settled(r) ==
  \/ r \in handled \cup parked
  \/ ~Entry(r).progress /\ \E s \in handled : Key(s) = Key(r) /\ ~Entry(s).progress

(* The group never commits past a record that was neither handled nor parked *)
(* - over crashes, lost partitions and failing dead-letter publications; and *)
(* a progress report never stands in for the result that shares its id.      *)
NothingLost == \A p \in Partitions : \A i \in 1 .. committed[p] : Settled(<<p, i>>)

(* The records of one partition are handled in order: a handler never takes  *)
(* effect for a record before everything ahead of it is settled.             *)
InOrder ==
  [][\A r \in handled' \ handled : \A i \in 1 .. (r[2] - 1) : Settled(<<r[1], i>>)]_vars

(* Every record is settled in the end.                                       *)
AllSettled ==
  \A p \in Partitions : \A i \in 1 .. Len(Log[p]) : <>Settled(<<p, i>>)
=============================================================================
