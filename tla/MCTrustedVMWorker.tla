---------------------------- MODULE MCTrustedVMWorker ----------------------------
(***************************************************************************)
(* An instance of TrustedVMWorker for TLC: a job and its reviewed retry,   *)
(* of another run.                                                          *)
(***************************************************************************)
EXTENDS TrustedVMWorker

MCRunOf == [j \in Jobs |-> IF j = 1 THEN "run1" ELSE "run2"]

=============================================================================
