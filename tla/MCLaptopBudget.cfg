\* One worker that resumes its own job.
CONSTANTS
  Workers = {w1}
  Outputs = {a, b}
  MaxCpu = 2
  MaxRuns = 2
  MaxFaults = 2
  NoWorker = NoWorker
  NoOutput = NoOutput
  NoReceipt = NoReceipt
SPECIFICATION Spec
\* The job may be completed.
CHECK_DEADLOCK FALSE
INVARIANTS
  BudgetRemembered
