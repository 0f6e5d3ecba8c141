\* Two sessions, two requests at once, two chunks sent, one fault.
SPECIFICATION FairSpec
CONSTANTS
  u1 = u1
  u2 = u2
  r1 = r1
  r2 = r2
  c1 = c1
  Uploads = {u1, u2}
  Slots = {c1}
  Requests = {r1, r2}
  Cap = 1
  Slow = FALSE
  MaxSends = 2
  MaxFaults = 1
CHECK_DEADLOCK FALSE
INVARIANTS
  OneDossier
  DossierIsLastSent
  RowsHaveObjects
  CapHolds
PROPERTIES
  EverySessionEnds
