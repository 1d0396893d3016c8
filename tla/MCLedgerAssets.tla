----------------------------- MODULE MCLedgerAssets -----------------------------
(***************************************************************************)
(* Instance of LedgerAssets for TLC: one asset that can go all the way and *)
(* one that competes for its raw key with a record of the other type.      *)
(***************************************************************************)
EXTENDS LedgerAssets

MCAssetOffers ==
  {[id |-> a, source |-> s] : a \in AssetIds, s \in Sources}

MCRightsOffers ==
  {[id |-> "r1", asset |-> "a1", state |-> "pending"],
   [id |-> "r1", asset |-> "a1", state |-> "approved"],
   [id |-> "r2", asset |-> "a2", state |-> "approved"]}

Offer(type, id, a, key, kind) ==
  [type |-> type, id |-> id, asset |-> a, source |-> "s1", key |-> key,
   kind |-> kind, body |-> "verified"]

MCObjectOffers ==
  {Offer("object_receipt", "o1", "a1", "k1", "raw"),
   Offer("object_receipt", "o2", "a1", "k2", "derived"),
   Offer("object", "o3", "a2", "k1", "raw")}

=============================================================================
