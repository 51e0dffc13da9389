------------------------ MODULE ObjectStoreRefinement ------------------------
(***************************************************************************)
(* The ObjectStore implements RevisionedStore: whatever connections,       *)
(* crashes and failing statements do, the committed image moves only by    *)
(* whole batches.                                                          *)
(***************************************************************************)
EXTENDS ObjectStore

(* The change a committed image holds for revision r. *)
ChangeOf(r) == CHOOSE e \in disk.hist : e.rev = r

Abstract == INSTANCE RevisionedStore WITH
    log <- [r \in 1..disk.meta |-> [at |-> ChangeOf(r).at,
                                    op |-> ChangeOf(r).op]],
    records <- disk.records,
    floor <- disk.meta - Cardinality(disk.changes),
    names <- disk.stores,
    acknowledged <- {e.rev : e \in acked}

(* Every behaviour of the ObjectStore is, seen through the committed       *)
(* image, a behaviour of RevisionedStore: the log, the stores and the      *)
(* floor only grow, and the records are always what replaying the log      *)
(* gives, whatever is rolled back, pruned, crashed or reopened.            *)
ImplementsRevisionedStore == Abstract!Spec
=============================================================================
