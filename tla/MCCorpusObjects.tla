----------------------------- MODULE MCCorpusObjects -----------------------------
(***************************************************************************)
(* An instance of CorpusObjects for TLC: one asset with a raw key and a    *)
(* derived one, whose derivation manifest is on record or not.  The object *)
(* of the manifest itself is left out: it is one more descendant.          *)
(***************************************************************************)
EXTENDS CorpusObjects, TLC

MCDispositions == {"created", "reused", "reused_after_ambiguous_create"}
MCObjectIds == Keys \X Runs \X MCDispositions
MCBodies == [run : Runs, disposition : MCDispositions]
MCRightsOffers == {[id |-> "q1", asset |-> "a1", state |-> "approved"]}
MCKeyAsset == [k \in Keys |-> "a1"]
MCKeyKind == [k \in Keys |-> IF k = "k1" THEN "raw" ELSE "derived"]
MCKeyDecision == [k \in Keys |-> 0]
MCValid == [v \in Authorities |-> Instants]
MCDerivations == {[inputs |-> {"k1"}, outputs |-> {"k2"}, stored |-> NoKey]}
MCObjectOffers ==
  {Receipt(k, run, d) : k \in Keys, run \in Runs, d \in MCDispositions}
MCWorks == WorkIds \X Instants

MCSymmetry ==
  Permutations(Creators) \cup Permutations(Runs) \cup Permutations(WorkIds)

=============================================================================
