--------------------------- MODULE MCOneObjectRun ---------------------------
(***************************************************************************)
(* Two receipt directories, a source that serves two versions and may      *)
(* return to the first, a key that may be taken by other bytes.            *)
(***************************************************************************)
EXTENDS OneObjectRun

CONSTANTS r1, r2
=============================================================================
