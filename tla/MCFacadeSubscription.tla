------------------------ MODULE MCFacadeSubscription ------------------------
(* Instances of FacadeSubscription for TLC. *)
EXTENDS FacadeSubscription, TLC

Symmetry == Permutations(Keys)
=============================================================================
