------------------------------ MODULE MCSlabs ------------------------------
(* The slab manager over a small segment. *)
EXTENDS Slabs
=============================================================================
