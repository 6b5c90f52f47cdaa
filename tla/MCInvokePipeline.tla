------------------------- MODULE MCInvokePipeline -------------------------
(* InvokePipeline with small constants, given in the configurations. *)
EXTENDS InvokePipeline
=============================================================================
