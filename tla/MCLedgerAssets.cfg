\* The asset register: every order of upserts, transitions and cleanups.
CONSTANTS
  AssetIds = {"a1", "a2"}
  Sources = {"s1", "s2"}
  RightsIds = {"r1", "r2"}
  ObjectIds = {"o1", "o2", "o3"}
  Keys = {"k1", "k2"}
  Bodies = {"verified"}
  Works = {"w1"}
  AssetOffers <- MCAssetOffers
  RightsOffers <- MCRightsOffers
  ObjectOffers <- MCObjectOffers
  OpIds = {"op1"}
  NoSource = "NoSource"
  NoState = "NoState"
  NoBlocker = "NoBlocker"
  NoAsset = "NoAsset"
  NoOp = "NoOp"
SPECIFICATION Spec
INVARIANTS
  GatesStayHeld
  KeysHaveOneOwner
  RepliesHold
PROPERTIES
  StagesInOrder
