---------------------------- MODULE MCMemoryStore ----------------------------
(* Instances of MemoryStore for TLC. *)
EXTENDS MemoryStore, TLC

Symmetry == Permutations(Threads) \cup Permutations(Keys)
=============================================================================
