----------------------------- MODULE MCYouTubeRun -----------------------------
(***************************************************************************)
(* A small YouTube run for TLC: two coordinators, a playlist of at most    *)
(* three videos read one per page.                                         *)
(***************************************************************************)
EXTENDS YouTubeRun, TLC

Source(list, reports, hidden) ==
    [playlist |-> list, reports |-> reports, hidden |-> hidden, changes |-> 0]

MCSources == {Source(<<"a", "b">>, TRUE, 0), Source(<<"a", "b">>, FALSE, 0),
              Source(<<"a">>, TRUE, 1), Source(<<"a", BadItem>>, TRUE, 0)}

MCStops == {[kind |-> "changed", reason |-> "shape_drift"]}

MCBounds == [requests |-> 3, pages |-> 3, retries |-> 1, robots |-> TRUE]

MCVideoItems ==
    {[returned |-> TRUE, privacy |-> "public", region |-> TRUE, aged |-> FALSE]}

MCNoTotal == -1

MCSymmetry == Permutations(Coordinators) \cup Permutations(Channels)
=============================================================================
