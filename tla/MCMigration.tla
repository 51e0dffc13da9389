----------------------------- MODULE MCMigration -----------------------------
(* Instances of Migration for TLC: builds of the application that know     *)
(* version 2, 3 and 5, and one that was shipped without the step from 3.   *)
EXTENDS Migration

CONSTANTS old, mid, new, partial

Builds == {old, mid, new, partial}
TargetOf == [m \in Builds |-> CASE m = old -> 2 [] m = mid -> 3 [] OTHER -> 5]
StepsOf == [m \in Builds |-> IF m = partial THEN {0, 1, 2, 4}
                                            ELSE 0..(TargetOf[m] - 1)]
=============================================================================
