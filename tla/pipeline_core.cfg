\* One worker, two documents, two runs.
SPECIFICATION Spec
CONSTANTS
  Docs = {d1, d2}
  Runs = {r1, r2}
  NoRun = NoRun
  Workers = {w1}
  Api = api
  Requests <- CoreRequests
  Racing = {}
  Faults = {}
  MaxPending = 1
  MaxFaults = 1
  MaxAttempts = 2
SYMMETRY Symmetry
CHECK_DEADLOCK FALSE
INVARIANTS
  TypeOK
  ResultNeedsWholeOcr
  ReviewedRunHasResult
  DossierMirrorsJob
  ExtractedMeansComplete
  FailedJobHasEndedRun
  ActiveRunIsCurrent
  LifecycleIntegrity
PROPERTIES
  NoLateAttemptPersisted
  FollowsLifecycle
