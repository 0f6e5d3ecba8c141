------------------------ MODULE RecordDeliveryProofs ------------------------
(***************************************************************************)
(* At-least-once delivery for any log, any number of partitions and        *)
(* workers, and any crashes and reassignments.  A committed offset says    *)
(* nothing by itself of what was handled: DeliveryIntegrity ties the       *)
(* offset, the fetch positions, the records in hand and the markers        *)
(* together.                                                               *)
(***************************************************************************)
EXTENDS RecordDelivery, TLAPS

InLog(r) == r \in Records /\ r[2] <= Len(Log[r[1]])

(* A marker stands for a handler that ran, on a record that may have one.    *)
MarkedIsHandled == \A k \in marks : \E s \in handled : Key(s) = k /\ ~Entry(s).progress

(* How far each worker is with its record.                                   *)
Ahead(r) == \A i \in 1 .. (r[2] - 1) : Settled(<<r[1], i>>)

HandDue(w) ==
  /\ Busy(w) => InLog(hand[w].rec) /\ Ahead(hand[w].rec)
  /\ Holds(w, "mark") => hand[w].rec \in handled /\ Deduped(hand[w].rec)
  /\ Holds(w, "commit") => Settled(hand[w].rec)

HandIsDue == \A w \in Workers : HandDue(w)

(* What the owner of a partition has fetched of it is settled or in hand.    *)
FetchedIsDue ==
  \A p \in Partitions : owner[p] # Nobody =>
    \A i \in 1 .. position[p] :
      Settled(<<p, i>>) \/ (Busy(owner[p]) /\ hand[owner[p]].rec = <<p, i>>)

DeliveryIntegrity == TypeOK /\ MarkedIsHandled /\ HandIsDue /\ FetchedIsDue /\ NothingLost
-----------------------------------------------------------------------------
LEMMA TypeInit == Init => TypeOK
  BY BoundsAssumption DEF Init, TypeOK, Hands, Idle, Busy

LEMMA LogEntry ==
  ASSUME NEW r, InLog(r)
  PROVE  /\ r = <<r[1], r[2]>> /\ r[1] \in Partitions /\ r[2] \in 1 .. Len(Log[r[1]])
         /\ Entry(r) \in [id : Ids \cup {NoId}, readable : BOOLEAN, progress : BOOLEAN]
         /\ Key(r) \in Ids \cup Records
  <1>1. r = <<r[1], r[2]>> /\ r[1] \in Partitions /\ r[2] \in Nat \ {0} /\ r \in Records
    BY DEF InLog, Records
  <1>2. r[2] \in 1 .. Len(Log[r[1]])
    BY <1>1, LogAssumption DEF InLog
  <1>3. Entry(r) \in [id : Ids \cup {NoId}, readable : BOOLEAN, progress : BOOLEAN]
    <2> DEFINE Messages == [id : Ids \cup {NoId}, readable : BOOLEAN, progress : BOOLEAN]
    <2>1. Log[r[1]] \in Seq(Messages)
      BY <1>1, LogAssumption
    <2> HIDE DEF Messages
    <2>2. Log[r[1]][r[2]] \in Messages
      BY <1>2, <2>1
    <2> QED
      BY <2>2 DEF Entry, Messages
  <1>4. Key(r) \in Ids \cup Records
    BY <1>1, <1>3 DEF Key
  <1> QED
    BY <1>1, <1>2, <1>3, <1>4

LEMMA IdleType == Idle \in Hands /\ [Idle EXCEPT !.stage = "down"] \in Hands
  BY DEF Idle, Hands

(* What is settled stays so.                                                 *)
LEMMA SettledStays ==
  ASSUME handled \subseteq handled', parked \subseteq parked', NEW r, Settled(r)
  PROVE  Settled(r)'
  BY DEF Settled, Key, Entry

LEMMA AheadStays ==
  ASSUME handled \subseteq handled', parked \subseteq parked', NEW r, Ahead(r)
  PROVE  Ahead(r)'
  BY SettledStays DEF Ahead

LEMMA HandDueStays ==
  ASSUME handled \subseteq handled', parked \subseteq parked', NEW v, hand'[v] = hand[v], HandDue(v)
  PROVE  HandDue(v)'
  BY DEF HandDue, Ahead, Settled, Busy, Holds, InLog, Deduped, Entry, Key

LEMMA NothingLostStays ==
  ASSUME handled \subseteq handled', parked \subseteq parked', UNCHANGED committed, NothingLost
  PROVE  NothingLost'
  BY SettledStays DEF NothingLost

LEMMA MarksStay ==
  ASSUME handled \subseteq handled', UNCHANGED marks, MarkedIsHandled
  PROVE  MarkedIsHandled'
  BY DEF MarkedIsHandled, Key, Entry

LEMMA SameRecord ==
  ASSUME TypeOK, NEW w \in Workers, NEW stage, NEW n,
         hand' = [hand EXCEPT ![w] = [stage |-> stage, rec |-> hand[w].rec, attempt |-> n]]
  PROVE  hand'[w].rec = hand[w].rec
  BY DEF TypeOK

(* Steps that move only one worker's hand, from one stage to another.        *)
LEMMA StageKept ==
  ASSUME DeliveryIntegrity, NEW w \in Workers, Busy(w), UNCHANGED <<committed, owner, position>>,
         NEW stage \in {"check", "run", "mark", "park", "commit"}, NEW n \in Nat,
         hand' = [hand EXCEPT ![w] = [stage |-> stage, rec |-> hand[w].rec, attempt |-> n]],
         handled \subseteq handled', parked \subseteq parked',
         handled' \subseteq handled \cup {hand[w].rec}, parked' \subseteq parked \cup {hand[w].rec},
         MarkedIsHandled', marks' \subseteq Ids \cup Records, faults' \in Nat,
         stage = "mark" => hand[w].rec \in handled' /\ Deduped(hand[w].rec),
         stage = "commit" => Settled(hand[w].rec)'
  PROVE  DeliveryIntegrity'
  <1> USE DEF DeliveryIntegrity
  <1>1. /\ hand[w].rec \in Records /\ hand[w] \in Hands
        /\ hand'[w] = [stage |-> stage, rec |-> hand[w].rec, attempt |-> n]
        /\ \A v \in Workers \ {w} : hand'[v] = hand[v]
    BY DEF TypeOK
  <1>2. \A v \in Workers : hand'[v].rec = hand[v].rec /\ (Busy(v)' <=> Busy(v))
    BY <1>1 DEF Busy
  <1>3. TypeOK'
    <2>1. hand'[w] \in Hands
      BY <1>1 DEF Hands
    <2>2. hand' \in [Workers -> Hands]
      BY <1>1, <2>1 DEF TypeOK
    <2>3. \A v \in Workers : Busy(v)' => hand'[v].rec \in Records
      BY <1>2 DEF TypeOK
    <2> QED
      BY <1>1, <2>2, <2>3 DEF TypeOK
  <1>4. HandIsDue'
    <2> SUFFICES ASSUME NEW v \in Workers PROVE HandDue(v)'
      BY DEF HandIsDue
    <2>1. CASE v = w
      <3>1. InLog(hand[v].rec)' /\ Ahead(hand[v].rec)'
        BY <1>1, <2>1, AheadStays DEF HandIsDue, HandDue, InLog
      <3>2. Holds(v, "mark")' => (hand[v].rec \in handled /\ Deduped(hand[v].rec))'
        BY <1>1, <2>1 DEF Holds, Deduped, Entry
      <3>3. Holds(v, "commit")' => Settled(hand[v].rec)'
        BY <1>1, <2>1 DEF Holds, Settled, Entry, Key
      <3> QED
        BY <3>1, <3>2, <3>3 DEF HandDue
    <2>2. CASE v # w
      BY <1>1, <2>2, HandDueStays DEF HandIsDue
    <2> QED
      BY <2>1, <2>2
  <1>5. FetchedIsDue'
    BY <1>2, SettledStays DEF FetchedIsDue, TypeOK
  <1>6. NothingLost'
    BY SettledStays DEF NothingLost
  <1> QED
    BY <1>3, <1>4, <1>5, <1>6

LEMMA ToStage ==
  ASSUME TypeOK, NEW w \in Workers, NEW stage, To(w, stage)
  PROVE  hand' = [hand EXCEPT ![w] = [stage |-> stage, rec |-> hand[w].rec,
                                      attempt |-> hand[w].attempt]]
  <1>1. hand[w] \in Hands
    BY DEF TypeOK
  <1>2. [hand[w] EXCEPT !.stage = stage] =
          [stage |-> stage, rec |-> hand[w].rec, attempt |-> hand[w].attempt]
    BY <1>1 DEF Hands
  <1> QED
    BY <1>2 DEF To

(* A worker drops what it has in hand: by its end, or after its commit.      *)
LEMMA DropKept ==
  ASSUME DeliveryIntegrity, NEW w \in Workers, NEW h \in Hands, h.stage \in {"down", "idle"},
         hand' = [hand EXCEPT ![w] = h],
         owner' \in [Partitions -> Workers \cup {Nobody}],
         \A p \in Partitions : owner'[p] \in {owner[p], Nobody},
         \A p \in Partitions : owner'[p] = w /\ Busy(w) => Holds(w, "commit"),
         committed' \in [Partitions -> Nat], faults' \in Nat, NothingLost',
         UNCHANGED <<position, handled, marks, parked>>
  PROVE  DeliveryIntegrity'
  <1> USE DEF DeliveryIntegrity
  <1>1. hand'[w] = h /\ ~Busy(w)' /\ \A v \in Workers \ {w} : hand'[v] = hand[v]
    BY DEF TypeOK, Busy
  <1>2. TypeOK'
    BY <1>1 DEF TypeOK, Busy
  <1>3. MarkedIsHandled'
    BY DEF MarkedIsHandled, Key, Entry
  <1>4. HandIsDue'
    <2>1. HandDue(w)'
      BY <1>1 DEF HandDue, Busy, Holds
    <2>2. ASSUME NEW v \in Workers \ {w} PROVE HandDue(v)'
      BY <1>1, <2>2, HandDueStays DEF HandIsDue
    <2> QED
      BY <2>1, <2>2 DEF HandIsDue
  <1>5. FetchedIsDue'
    <2> SUFFICES ASSUME NEW p \in Partitions, owner'[p] # Nobody, NEW i \in 1 .. position[p],
                        ~Settled(<<p, i>>)
                 PROVE  (Busy(owner[p]) /\ hand[owner[p]].rec = <<p, i>>)'
      BY DEF FetchedIsDue, Settled, Key, Entry
    <2>1. owner'[p] = owner[p] /\ owner[p] \in Workers
      BY DEF TypeOK
    <2>2. Busy(owner[p]) /\ hand[owner[p]].rec = <<p, i>>
      BY <2>1 DEF FetchedIsDue
    <2>3. owner[p] # w
      BY <2>1, <2>2 DEF HandIsDue, HandDue
    <2> QED
      BY <1>1, <2>1, <2>2, <2>3 DEF Busy
  <1> QED
    BY <1>2, <1>3, <1>4, <1>5

LEMMA DeadHand ==
  ASSUME NEW w \in Workers, Dies(w), TypeOK
  PROVE  /\ hand' = [hand EXCEPT ![w] = [Idle EXCEPT !.stage = "down"]]
         /\ [Idle EXCEPT !.stage = "down"].stage = "down"
         /\ owner' \in [Partitions -> Workers \cup {Nobody}]
         /\ \A p \in Partitions : owner'[p] \in {owner[p], Nobody} /\ owner'[p] # w
  BY NobodyAssumption DEF Dies, Idle, TypeOK

LEMMA IntegrityStep == DeliveryIntegrity /\ [Next]_vars => DeliveryIntegrity'
  <1> SUFFICES ASSUME DeliveryIntegrity, [Next]_vars PROVE DeliveryIntegrity'
    OBVIOUS
  <1> USE DEF DeliveryIntegrity
  <1>1. ASSUME NEW p \in Partitions, NEW w \in Workers, Assign(p, w) PROVE DeliveryIntegrity'
    <2>1. TypeOK'
      BY <1>1, BoundsAssumption DEF Assign, TypeOK, Busy
    <2>2. MarkedIsHandled' /\ NothingLost'
      BY <1>1 DEF Assign, MarkedIsHandled, NothingLost, Settled, Key, Entry
    <2>3. HandIsDue'
      BY <1>1, HandDueStays DEF Assign, HandIsDue
    <2>4. FetchedIsDue'
      <3> SUFFICES ASSUME NEW q \in Partitions, owner'[q] # Nobody, NEW i \in 1 .. position'[q],
                          ~Settled(<<q, i>>)
                   PROVE  (Busy(owner[q]) /\ hand[owner[q]].rec = <<q, i>>)'
        BY <1>1 DEF Assign, FetchedIsDue, Settled, Key, Entry, Busy
      <3>1. q # p
        BY <1>1 DEF Assign, NothingLost, TypeOK
      <3>2. owner'[q] = owner[q] /\ i \in 1 .. position[q] /\ hand' = hand
        BY <1>1, <3>1 DEF Assign, TypeOK
      <3> QED
        BY <3>2 DEF FetchedIsDue, Busy
    <2> QED
      BY <2>1, <2>2, <2>3, <2>4
  <1>2. ASSUME NEW w \in Workers, NEW p \in Partitions, Fetch(w, p) PROVE DeliveryIntegrity'
    <2> DEFINE r == <<p, position[p] + 1>>
    <2> DEFINE s == IF Entry(r).readable THEN "check" ELSE "park"
    <2>1. r \in Records /\ InLog(r) /\ r[1] = p /\ r[2] = position[p] + 1
      BY <1>2 DEF Fetch, TypeOK, Records, InLog
    <2>2. /\ s \in {"check", "park"}
          /\ hand' = [hand EXCEPT ![w] = [stage |-> s, rec |-> r, attempt |-> 1]]
          /\ position' = [position EXCEPT ![p] = position[p] + 1]
          /\ UNCHANGED <<committed, owner, handled, marks, parked, faults>>
          /\ ~Busy(w) /\ owner[p] = w
      BY <1>2 DEF Fetch, TypeOK, Holds, Busy
    <2>3. Ahead(r)
      BY <2>1, <2>2, NobodyAssumption DEF Ahead, FetchedIsDue, TypeOK
    <2> HIDE DEF r, s
    <2>4. TypeOK'
      <3>1. [stage |-> s, rec |-> r, attempt |-> 1] \in Hands
        BY <2>1, <2>2 DEF Hands
      <3> QED
        BY <2>1, <2>2, <3>1 DEF TypeOK, Busy
    <2>5. MarkedIsHandled' /\ NothingLost'
      BY <2>2 DEF MarkedIsHandled, NothingLost, Settled, Key, Entry
    <2>6. HandIsDue'
      <3>1. HandDue(w)'
        BY <2>1, <2>2, <2>3 DEF HandDue, TypeOK, Holds, Ahead, Settled, Key, Entry, InLog
      <3>2. ASSUME NEW v \in Workers \ {w} PROVE HandDue(v)'
        BY <2>2, HandDueStays DEF HandIsDue, TypeOK
      <3> QED
        BY <3>1, <3>2 DEF HandIsDue
    <2>7. FetchedIsDue'
      <3> SUFFICES ASSUME NEW q \in Partitions, owner[q] # Nobody, NEW i \in 1 .. position'[q],
                          ~Settled(<<q, i>>)
                   PROVE  (Busy(owner[q]) /\ hand[owner[q]].rec = <<q, i>>)'
        BY <2>2 DEF FetchedIsDue, Settled, Key, Entry
      <3>1. CASE owner[q] # w
        <4>1. q # p /\ i \in 1 .. position[q] /\ hand'[owner[q]] = hand[owner[q]]
          BY <2>2, <3>1 DEF TypeOK
        <4> QED
          BY <4>1, <2>2 DEF FetchedIsDue, Busy
      <3>2. CASE owner[q] = w
        <4>1. ~(i \in 1 .. position[q])
          BY <2>2, <3>2, NobodyAssumption DEF FetchedIsDue
        <4>2. q = p /\ i = position[p] + 1
          BY <2>2, <4>1 DEF TypeOK
        <4>3. hand'[w].rec = r /\ hand'[w].stage = s
          BY <2>2 DEF TypeOK
        <4> QED
          BY <2>2, <3>2, <4>2, <4>3 DEF Busy, r
      <3> QED
        BY <3>1, <3>2
    <2> QED
      BY <2>4, <2>5, <2>6, <2>7
  <1>3. ASSUME NEW w \in Workers, Check(w) PROVE DeliveryIntegrity'
    <2> DEFINE r == hand[w].rec
    <2> DEFINE s == IF Deduped(r) /\ Key(r) \in marks THEN "commit" ELSE "run"
    <2>1. Busy(w) /\ hand[w].attempt \in Nat
      BY <1>3 DEF Check, Holds, Busy, TypeOK, Hands
    <2>2. hand' = [hand EXCEPT ![w] = [stage |-> s, rec |-> r, attempt |-> hand[w].attempt]]
      BY <1>3, ToStage DEF Check
    <2>3. s = "commit" => Settled(r)
      BY DEF MarkedIsHandled, Deduped, Settled
    <2>4. MarkedIsHandled' /\ (s = "commit" => Settled(r)')
      BY <1>3, <2>2, <2>3, SameRecord, SettledStays, MarksStay DEF Check
    <2>5. s \in {"check", "run", "mark", "park", "commit"} /\ s # "mark"
      OBVIOUS
    <2> HIDE DEF s
    <2> QED
      BY <1>3, <2>1, <2>2, <2>4, <2>5, StageKept DEF Check, TypeOK
  <1>4. ASSUME NEW w \in Workers, HandlerReturns(w) PROVE DeliveryIntegrity'
    <2> DEFINE r == hand[w].rec
    <2> DEFINE s == IF Deduped(r) THEN "mark" ELSE "commit"
    <2>1. Busy(w) /\ hand[w].attempt \in Nat /\ handled' = handled \cup {r}
      BY <1>4 DEF HandlerReturns, Holds, Busy, TypeOK, Hands
    <2>2. hand' = [hand EXCEPT ![w] = [stage |-> s, rec |-> r, attempt |-> hand[w].attempt]]
      BY <1>4, ToStage DEF HandlerReturns
    <2>3. MarkedIsHandled'
      BY <1>4 DEF HandlerReturns, MarkedIsHandled, Key, Entry
    <2>4. Settled(r)'
      BY <2>1, <2>2, SameRecord DEF Settled
    <2>5. s \in {"check", "run", "mark", "park", "commit"} /\ (s = "mark" => Deduped(r))
      OBVIOUS
    <2> HIDE DEF s
    <2> QED
      BY <1>4, <2>1, <2>2, <2>3, <2>4, <2>5, StageKept DEF HandlerReturns, TypeOK
  <1>5. ASSUME NEW w \in Workers, AttemptFails(w) PROVE DeliveryIntegrity'
    <2> DEFINE r == hand[w].rec
    <2>1. /\ Busy(w) /\ hand[w].attempt \in Nat /\ handled \subseteq handled'
          /\ handled' \subseteq handled \cup {r}
          /\ UNCHANGED <<committed, owner, position, marks, parked, faults>>
      BY <1>5 DEF AttemptFails, Holds, Busy, TypeOK, Hands
    <2>2. PICK s \in {"check", "park"}, n \in Nat :
            hand' = [hand EXCEPT ![w] = [stage |-> s, rec |-> r, attempt |-> n]]
      <3>1. CASE hand' = [hand EXCEPT ![w] =
                           [stage |-> "check", rec |-> @.rec, attempt |-> @.attempt + 1]]
        <4>1. hand' = [hand EXCEPT ![w] =
                        [stage |-> "check", rec |-> r, attempt |-> hand[w].attempt + 1]]
          BY <3>1
        <4>2. hand[w].attempt + 1 \in Nat
          BY <2>1
        <4> HIDE DEF r
        <4> QED
          BY <4>1, <4>2
      <3>2. CASE To(w, "park")
        BY <2>1, <3>2, ToStage
      <3> QED
        BY <1>5, <3>1, <3>2 DEF AttemptFails
    <2>3. MarkedIsHandled'
      BY <2>1 DEF MarkedIsHandled, Key, Entry
    <2> QED
      BY <2>1, <2>2, <2>3, StageKept DEF TypeOK
  <1>6. ASSUME NEW w \in Workers, Mark(w) PROVE DeliveryIntegrity'
    <2> DEFINE r == hand[w].rec
    <2>1. Busy(w) /\ hand[w].attempt \in Nat /\ InLog(r) /\ r \in handled /\ Deduped(r)
      BY <1>6 DEF Mark, Holds, Busy, TypeOK, Hands, HandIsDue, HandDue
    <2>2. hand' = [hand EXCEPT ![w] = [stage |-> "commit", rec |-> r, attempt |-> hand[w].attempt]]
      BY <1>6, ToStage DEF Mark
    <2>3. marks' = marks \cup {Key(r)} /\ marks' \subseteq Ids \cup Records
      BY <1>6, <2>1, LogEntry DEF Mark, TypeOK
    <2>4. MarkedIsHandled'
      BY <1>6, <2>1, <2>3 DEF Mark, MarkedIsHandled, Deduped, Key, Entry
    <2>5. Settled(r)'
      BY <1>6, <2>1, <2>2, SameRecord DEF Mark, Settled
    <2> QED
      BY <1>6, <2>1, <2>2, <2>3, <2>4, <2>5, StageKept DEF Mark, TypeOK
  <1>7. ASSUME NEW w \in Workers, Park(w) PROVE DeliveryIntegrity'
    <2> DEFINE r == hand[w].rec
    <2>1. Busy(w) /\ hand[w].attempt \in Nat /\ parked' = parked \cup {r}
      BY <1>7 DEF Park, Holds, Busy, TypeOK, Hands
    <2>2. hand' = [hand EXCEPT ![w] = [stage |-> "commit", rec |-> r, attempt |-> hand[w].attempt]]
      BY <1>7, ToStage DEF Park
    <2>3. MarkedIsHandled' /\ Settled(r)'
      BY <1>7, <2>1, <2>2, SameRecord, MarksStay DEF Park, Settled
    <2> QED
      BY <1>7, <2>1, <2>2, <2>3, StageKept DEF Park, TypeOK
  <1>8. ASSUME NEW w \in Workers, CommitOffset(w) PROVE DeliveryIntegrity'
    <2> DEFINE r == hand[w].rec
    <2>1. Holds(w, "commit") /\ InLog(r) /\ Ahead(r) /\ Settled(r)
      BY <1>8 DEF CommitOffset, HandIsDue, HandDue, Holds, Busy
    <2>2. r = <<r[1], r[2]>> /\ r[1] \in Partitions /\ r[2] \in Nat
      BY <2>1, LogEntry DEF InLog, Records
    <2>3. CASE owner[r[1]] = w
      <3>1. committed' = [committed EXCEPT ![r[1]] = r[2]] /\ hand' = [hand EXCEPT ![w] = Idle]
            /\ UNCHANGED <<owner, position, handled, marks, parked, faults>>
        BY <1>8, <2>3 DEF CommitOffset
      <3>2. NothingLost'
        <4> SUFFICES ASSUME NEW p \in Partitions, NEW i \in 1 .. committed'[p]
                     PROVE  Settled(<<p, i>>)
          BY <3>1, SettledStays DEF NothingLost
        <4>1. CASE p # r[1]
          BY <3>1, <4>1 DEF NothingLost, TypeOK
        <4>2. CASE p = r[1]
          <5>1. i \in 1 .. r[2]
            BY <2>2, <3>1, <4>2 DEF TypeOK
          <5>2. CASE i = r[2]
            BY <2>1, <2>2, <4>2, <5>2
          <5>3. CASE i \in 1 .. (r[2] - 1)
            BY <2>1, <4>2, <5>3 DEF Ahead
          <5> QED
            BY <2>2, <5>1, <5>2, <5>3
        <4> QED
          BY <4>1, <4>2
      <3>3. committed' \in [Partitions -> Nat] /\ Idle.stage = "idle"
        BY <2>2, <3>1 DEF TypeOK, Idle
      <3> QED
        BY <2>1, <3>1, <3>2, <3>3, IdleType, DropKept DEF TypeOK
    <2>4. CASE owner[r[1]] # w
      <3>1. Dies(w) /\ UNCHANGED <<committed, position, handled, marks, parked, faults>>
        BY <1>8, <2>4 DEF CommitOffset
      <3>2. NothingLost'
        BY <3>1, NothingLostStays
      <3> QED
        BY <3>1, <3>2, DeadHand, IdleType, DropKept DEF TypeOK
    <2> QED
      BY <2>3, <2>4
  <1>9. ASSUME NEW w \in Workers, Crash(w) PROVE DeliveryIntegrity'
    <2>1. Dies(w) /\ UNCHANGED <<committed, position, handled, marks, parked>> /\ faults' \in Nat
      BY <1>9 DEF Crash, TypeOK
    <2>2. NothingLost'
      BY <2>1, NothingLostStays
    <2> QED
      BY <2>1, <2>2, DeadHand, IdleType, DropKept DEF TypeOK
  <1>10. ASSUME NEW w \in Workers, Start(w) PROVE DeliveryIntegrity'
    <2>1. NothingLost' /\ ~Busy(w) /\ Idle.stage = "idle"
      BY <1>10 DEF Start, NothingLost, Settled, Key, Entry, Holds, Busy, Idle
    <2> QED
      BY <1>10, <2>1, IdleType, DropKept DEF Start, TypeOK
  <1>11. CASE UNCHANGED vars
    BY <1>11 DEF vars, TypeOK, MarkedIsHandled, HandIsDue, HandDue, FetchedIsDue, NothingLost,
       Settled, Ahead, InLog, Deduped, Key, Entry, Holds, Busy
  <1> QED
    BY <1>1, <1>2, <1>3, <1>4, <1>5, <1>6, <1>7, <1>8, <1>9, <1>10, <1>11 DEF Next, Work

LEMMA IntegrityInit == Init => DeliveryIntegrity
  <1> SUFFICES ASSUME Init PROVE DeliveryIntegrity
    OBVIOUS
  <1>1. \A w \in Workers : ~Busy(w) /\ ~Holds(w, "mark") /\ ~Holds(w, "commit")
    BY DEF Init, Idle, Busy, Holds
  <1>2. HandIsDue
    BY <1>1 DEF HandIsDue, HandDue
  <1>3. MarkedIsHandled /\ FetchedIsDue /\ NothingLost
    BY DEF Init, MarkedIsHandled, FetchedIsDue, NothingLost
  <1> QED
    BY <1>2, <1>3, TypeInit DEF DeliveryIntegrity

THEOREM IntegrityHolds == Spec => []DeliveryIntegrity
  BY IntegrityInit, IntegrityStep, PTL DEF Spec

(* No committed offset ever passes a record that was neither handled nor     *)
(* parked, for any log and any crashes and reassignments.                    *)
THEOREM DeliveryIsAtLeastOnce == Spec => []NothingLost
  BY IntegrityHolds, PTL DEF DeliveryIntegrity

(* A handler takes effect for a record only when all before it are settled.  *)
THEOREM HandledInOrder == Spec => InOrder
  <1>1. DeliveryIntegrity /\ [Next]_vars =>
          [\A r \in handled' \ handled : \A i \in 1 .. (r[2] - 1) : Settled(<<r[1], i>>)]_vars
    <2> SUFFICES ASSUME DeliveryIntegrity, [Next]_vars, NEW r \in handled' \ handled
                 PROVE  Ahead(r)
      BY DEF Ahead
    <2>1. PICK w \in Workers : Holds(w, "run") /\ r = hand[w].rec
      BY DEF Next, Work, vars, Assign, Fetch, Check, HandlerReturns, AttemptFails, Mark, Park,
         CommitOffset, Crash, Start
    <2> QED
      BY <2>1 DEF DeliveryIntegrity, HandIsDue, HandDue, Holds, Busy
  <1> QED
    BY <1>1, IntegrityHolds, PTL DEF Spec, InOrder
=============================================================================
