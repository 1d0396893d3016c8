-------------------------- MODULE MCPublicInventory --------------------------
(***************************************************************************)
(* Two invocations of the public inventories for TLC.                      *)
(***************************************************************************)
EXTENDS PublicInventory, TLC

MCNoTotal == -1
MCCatalogues == {<<"a", "b">>, << >>}
MCBounds == [requests |-> 4, pages |-> 2, retries |-> 1, robots |-> TRUE]
MCSymmetry == Permutations(Commands)
=============================================================================
