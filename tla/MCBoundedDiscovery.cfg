\* Three calls, the last of them a restart if the others die.
CONSTANTS
  Runners = {r1, r2, r3}
  MaxPages = 2
  MaxRequests = 3
  MaxRetries = 1
  MaxBytes = 2
  Sizes = {1, 2}
  Pages <- MCPages
  Ids = {"a", "b"}
  Values = {1, 2}
  NoRunner = NoRunner
  NoTotal = NoTotal
  NoReport = NoReport
SPECIFICATION Spec
SYMMETRY MCSymmetry
\* Every call of the run ends.
CHECK_DEADLOCK FALSE
INVARIANTS
  RequestsWithinBounds
  PagesCountedOnce
  ReportsAddUp
