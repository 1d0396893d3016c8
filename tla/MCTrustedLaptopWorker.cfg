\* Two workers, two outputs, two failures.
CONSTANTS
  Workers = {w1, w2}
  Outputs = {a, b}
  MaxCpu = 2
  MaxRuns = 2
  MaxFaults = 2
  NoWorker = NoWorker
  NoOutput = NoOutput
  NoReceipt = NoReceipt
SPECIFICATION FairSpec
\* The job may be completed.
CHECK_DEADLOCK FALSE
INVARIANTS
  OneOutputPerJob
  AttemptIsAccounted
  DurableAsSaid
PROPERTIES
  ReceiptedWorkCompletes
