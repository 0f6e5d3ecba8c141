\* The manifest is confirmed while an earlier hand-off task is ending; no fault.
SPECIFICATION FairSpec
CONSTANTS
  Docs = {d1}
  Runs = {r1, r2}
  NoRun = NoRun
  Workers = {w1}
  Api = api
  Requests = {"confirm_manifest"}
  Racing = {}
  Faults = {}
  MaxPending = 1
  MaxFaults = 1
  MaxAttempts = 2
CHECK_DEADLOCK FALSE
PROPERTY ExtractedIsHandedOff
