SPECIFICATION Spec
CONSTANTS
  JobIds = {1, 2}
  Slots = {"inventory", "download"}
  Holders = {h1, h2}
  Capabilities = {"laptop", "vm"}
  Requests <- MCRequests
  Offers <- MCOffers
  LeaseIds = {1, 2}
  Times = {0, 1, 2}
  Terms = {1, 2}
  Sequences = {0, 1}
  Summaries = {"planned", "partial"}
  OpIds = {o1}
  NoJob = NoJob
  NoSlot = NoSlot
  NoLease = NoLease
  NoHolder = NoHolder
  NoOp = NoOp
  h1 = h1
  h2 = h2
  o1 = o1
SYMMETRY MCSymmetry
INVARIANTS TypeOK LeaseJobAgreement CheckpointAgreement RecordedResultsHold
PROPERTIES HistoryIsFinal BoardSpec
CHECK_DEADLOCK FALSE
