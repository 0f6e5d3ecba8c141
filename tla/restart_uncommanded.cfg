\* One failure of a handler after the commit of the run it opened.
SPECIFICATION Spec
CONSTANTS
  Docs = {d1}
  Runs = {r1, r2}
  NoRun = NoRun
  Workers = {w1}
  Api = api
  Requests = {"restart"}
  Racing = {}
  Faults = {"handler"}
  MaxPending = 1
  MaxFaults = 1
  MaxAttempts = 2
CHECK_DEADLOCK FALSE
PROPERTY OpenedRunIsCommanded
