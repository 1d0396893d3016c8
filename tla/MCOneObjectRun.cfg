SPECIFICATION FairSpec
CONSTANTS
    Runs = {r1, r2}
    Repeated = {r1}
    r1 = r1
    r2 = r2
    Versions = {1, 2}
    First = 1
    MaxChanges = 2
    MaxFaults = 2
    Foreign = {2}
INVARIANT OnlyOutdatedRemain
PROPERTY CleanupUnderProof
PROPERTY LoneRunCompletes
CHECK_DEADLOCK FALSE
