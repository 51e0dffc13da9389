---------------------------- MODULE MCObjectStore ----------------------------
(* Instances of ObjectStore for TLC. *)
EXTENDS ObjectStoreRefinement, TLC

Symmetry == Permutations(Conns)
=============================================================================
