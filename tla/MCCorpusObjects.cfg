\* Two creators of different runs and a cleaner, every fault and crash.
CONSTANTS
  AssetIds = {"a1"}
  Sources = {"s1"}
  RightsIds = {"q1"}
  ObjectIds <- MCObjectIds
  Keys = {"k1", "k2"}
  Bodies <- MCBodies
  Works <- MCWorks
  AssetOffers = {}
  RightsOffers <- MCRightsOffers
  ObjectOffers <- MCObjectOffers
  OpIds = {}
  NoSource = "NoSource"
  NoState = "NoState"
  NoBlocker = "NoBlocker"
  NoAsset = "NoAsset"
  NoOp = "NoOp"
  Creators = {c1, c2}
  Runs = {run1, run2}
  WorkIds = {w1, w2}
  KeyAsset <- MCKeyAsset
  KeyKind <- MCKeyKind
  KeyDecision <- MCKeyDecision
  Derivations <- MCDerivations
  Instants = {0, 1}
  Expiry = 0
  Authorities = {0, 1}
  Held = {1}
  Valid <- MCValid
  Faults = TRUE
  NoKey = "NoKey"
  NoRun = "NoRun"
  NoWork = "NoWork"
SYMMETRY MCSymmetry
SPECIFICATION CorpusSpec
INVARIANTS
  ReceiptsTellTheTruth
  LineageFrozen
  OneWorkPerAsset
