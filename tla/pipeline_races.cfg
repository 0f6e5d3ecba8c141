\* Two workers; a timeout and a user's cancel overtaken by the others, a failing hand-off.
SPECIFICATION Spec
CONSTANTS
  Docs = {d1}
  Runs = {r1, r2}
  NoRun = NoRun
  Workers = {w1, w2}
  Api = api
  Requests = {"restart", "cancel"}
  Racing = {"timeout", "cancel"}
  Faults = {"task"}
  MaxPending = 1
  MaxFaults = 1
  MaxAttempts = 2
SYMMETRY SymmetryWithWorkers
CHECK_DEADLOCK FALSE
INVARIANTS
  RunIntegrity
  ReviewedRunHasResult
  DossierMirrorsJob
PROPERTIES
  OnlyCurrentRunGains
