\* A dossier deleted while its hand-off to AI2 is under way.
SPECIFICATION Spec
CONSTANTS
  f1 = f1
  f2 = f2
  c1 = c1
  p1 = p1
  p2 = p2
  Facts = {f1}
  Clauses = {}
  Reviewers = {p1}
  MaxRuns = 1
  MaxActions = 1
  MaxFaults = 0
CHECK_DEADLOCK FALSE
INVARIANTS
  PurgedStaysWithoutFacts
