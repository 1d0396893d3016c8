SPECIFICATION Spec
CONSTANTS
  Coordinators = {c1, c2}
  Channels = {ch1, ch2}
  ch1 = ch1
  ch2 = ch2
  Videos = {"a", "b", "c"}
  BadItem = "bad"
  Sources <- MCSources
  Stops <- MCStops
  VideoItems <- MCVideoItems
  PageSize = 1
  MaxUnits = 3
  Bounds <- MCBounds
  MaxChanges = 2
  MaxFaults = 1
  NoToken = 0
  NoTotal <- MCNoTotal
  NoProc = NoProc
  NoHarness = NoHarness
  NoArtifact = NoArtifact
  NoCheckpoint = NoCheckpoint
  c1 = c1
  c2 = c2
SYMMETRY MCSymmetry
INVARIANTS QuotaCoversRequests IssuedInventoryIsWhole ReadyCheckpointsResume
PROPERTIES IssuedOnce
CHECK_DEADLOCK FALSE
