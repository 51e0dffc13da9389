---------------------------- MODULE MCOrmBridge ----------------------------
(* Instances of OrmBridge for TLC. *)
EXTENDS OrmBridge, TLC

\* A table of one row; a new file has none.
MCTables == {users \in Users : Cardinality({id \in Id : users[id] # NoRow}) = 1}

Symmetry == Permutations(Id) \cup Permutations(Name) \cup Permutations(Email)
=============================================================================
