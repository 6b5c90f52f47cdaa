--------------------------- MODULE MCMasterCycle ---------------------------
(* MasterCycle with small constants, given in the configurations. *)
EXTENDS MasterCycle
=============================================================================
