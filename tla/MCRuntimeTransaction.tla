------------------------ MODULE MCRuntimeTransaction ------------------------
(* Instances of RuntimeTransaction for TLC. *)
EXTENDS RuntimeTransaction, TLC

Symmetry == Permutations(Handles) \cup Permutations(Names)
=============================================================================
