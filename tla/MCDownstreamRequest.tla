------------------------ MODULE MCDownstreamRequest ------------------------
(* DownstreamRequest with small constants, given in the configurations. *)
EXTENDS DownstreamRequest
=============================================================================
