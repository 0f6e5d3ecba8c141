\* Two reviewers, two runs of up to two facts and one clause, two actions, one fault.
SPECIFICATION FairSpec
CONSTANTS
  f1 = f1
  f2 = f2
  c1 = c1
  p1 = p1
  p2 = p2
  Facts = {f1, f2}
  Clauses = {c1}
  Reviewers = {p1, p2}
  MaxRuns = 2
  MaxActions = 2
  MaxFaults = 1
CHECK_DEADLOCK FALSE
INVARIANTS
  ApprovedIsClosed
  
PROPERTIES
  LastCloseMoves
  SealedStays
  NoActionLost
  DeletionCompletes
