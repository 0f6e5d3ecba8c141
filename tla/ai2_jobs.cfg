\* Two jobs of a dossier, two executors and one slot, three submissions, a fault.
SPECIFICATION FairSpec
CONSTANTS
  j1 = j1
  j2 = j2
  d1 = d1
  Dossiers = {d1}
  Jobs = {j1, j2}
  DossierOf <- SameDossier
  Executors = {e1, e2}
  Slots = 1
  Purgers = {p1}
  MaxSubmits = 3
  MaxFaults = 1
CHECK_DEADLOCK FALSE
INVARIANTS
  AnswerOfLastClaim
  SnapshotIsLatest
  NothingAfterPurge
PROPERTIES
  FinishedStays
  EveryJobEnds
