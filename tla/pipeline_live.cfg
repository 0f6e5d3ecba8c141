\* Fair runs with one crash, failing handler, lost publication or garbled result.
SPECIFICATION FairSpec
CONSTANTS
  Docs = {d1}
  Runs = {r1, r2}
  NoRun = NoRun
  Workers = {w1}
  Api = api
  Requests = {"trigger"}
  Racing = {}
  Faults = {"crash", "handler", "dispatch", "garble"}
  MaxPending = 1
  MaxFaults = 1
  MaxAttempts = 1
CHECK_DEADLOCK FALSE
INVARIANTS
  ExtractedMeansComplete
  ResultNeedsWholeOcr
PROPERTIES
  OnlyCurrentRunGains
  ProcessingEnds
  EventsDrain
  ExtractedIsHandedOff
  QueuedRunStarts
