SPECIFICATION FairSpec
CONSTANTS
  JobIds = {1, 2}
  Slots = {"inventory", "download"}
  Holders = {h1}
  Capabilities = {"laptop", "vm"}
  Requests <- MCQueuedRequests
  Offers <- MCOffers
  LeaseIds = {1, 2, 3, 4}
  Times = {0, 1}
  Terms = {1}
  Sequences = {0}
  Summaries = {"planned"}
  OpIds = {}
  NoJob = NoJob
  NoSlot = NoSlot
  NoLease = NoLease
  NoHolder = NoHolder
  NoOp = NoOp
  h1 = h1
PROPERTIES NoJobStranded OneLossResolves
CHECK_DEADLOCK FALSE
