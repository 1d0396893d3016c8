--------------------------- MODULE MCTrustedLaptopWorker ---------------------------
(***************************************************************************)
(* An instance of TrustedLaptopWorker for TLC: the workers and the outputs *)
(* a transformer may give are model values of the configurations.          *)
(***************************************************************************)
EXTENDS TrustedLaptopWorker
=============================================================================
