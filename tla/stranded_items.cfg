\* A rerun of a dossier in review leaves its open items behind.
SPECIFICATION Spec
CONSTANTS
  f1 = f1
  f2 = f2
  c1 = c1
  p1 = p1
  p2 = p2
  Facts = {f1, f2}
  Clauses = {}
  Reviewers = {p1, p2}
  MaxRuns = 2
  MaxActions = 3
  MaxFaults = 1
CHECK_DEADLOCK FALSE
INVARIANTS
  OpenItemsAreCurrent
