--------------------------- MODULE MCAdapterSlots ---------------------------
(* Instances of AdapterSlots for TLC. *)
EXTENDS AdapterSlots, TLC

Symmetry == Permutations(Threads)
=============================================================================
