\* Two workers, two jobs for one key, two faults.
CONSTANTS
  Workers = {w1, w2}
  Jobs = {1, 2}
  RunOf <- MCRunOf
  MaxFaults = 2
  NoWorker = NoWorker
  NoJob = NoJob
  NoReceipt = NoReceipt
SPECIFICATION FairSpec
\* Every job may be completed.
CHECK_DEADLOCK FALSE
INVARIANTS
  OneRequestPerJob
  CompletedIsDurable
PROPERTIES
  EveryLeaseEnds
  DurableWorkCompletes
