--------------------------- MODULE MCSharedLocks ---------------------------
(* Two threads, one of which may die. *)
EXTENDS SharedLocks, TLC
Symmetry == Permutations(Threads)
=============================================================================
