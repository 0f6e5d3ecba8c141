\* A user cancels while the hand-off waits for AI2.
SPECIFICATION Spec
CONSTANTS
  Docs = {d1}
  Runs = {r1, r2}
  NoRun = NoRun
  Workers = {w1}
  Api = api
  Requests = {"cancel"}
  Racing = {}
  Faults = {}
  MaxPending = 1
  MaxFaults = 1
  MaxAttempts = 2
CHECK_DEADLOCK FALSE
PROPERTY FailedJobTakesNoResult
