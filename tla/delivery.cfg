\* Two workers and two partitions; two crashes or partition moves.
SPECIFICATION FairSpec
CONSTANTS
  p1 = p1
  p2 = p2
  e1 = e1
  Partitions = {p1, p2}
  Ids = {e1}
  NoId = NoId
  Log <- SmallLog
  Workers = {w1, w2}
  Nobody = Nobody
  MaxAttempts = 2
  MaxFaults = 2
CHECK_DEADLOCK FALSE
INVARIANTS
  NothingLost
PROPERTIES
  InOrder
  AllSettled
