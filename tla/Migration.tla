------------------------------ MODULE Migration ------------------------------
(***************************************************************************)
(* esdb_migrate (src/esdb_runtime.cpp) run by several processes on one     *)
(* database: the version is read in a transaction of its own, the steps    *)
(* run inside BEGIN IMMEDIATE ... COMMIT, and any of it may fail or crash. *)
(* SQLite is external: one writer, whole images committed or dropped.      *)
(***************************************************************************)
EXTENDS Naturals, Sequences

CONSTANTS
    Migrators,   \* processes that call esdb_migrate
    Target,      \* Target[m]: target_version
    Steps,       \* Steps[m]: the from_version of every migration m brings
    MaxApplied,  \* bound: migration callbacks in the database's history
    MaxSwallowed,\* bound: rollbacks that callbacks swallow
    NoMigrator

ASSUME TargetAssumption == Target \in [Migrators -> Nat]
ASSUME StepsAssumption == Steps \in [Migrators -> SUBSET Nat]
ASSUME NoMigratorAssumption == NoMigrator \notin Migrators
ASSUME BoundAssumption == MaxApplied \in Nat /\ MaxSwallowed \in Nat

VARIABLES
    disk,     \* committed: user_version and the steps applied, oldest first
    writer,   \* the migrator that holds the write lock
    view,     \* view[m]: the image inside m's transaction
    pc,       \* pc[m]: what m's call does next
    current,  \* current[m]: the local variable of esdb_migrate
    lost,     \* lost[m]: SQLite has rolled m's transaction back and its
              \* callback returned ESDB_OK all the same
    ok,       \* has the last step been a call's return of ESDB_OK?
    raced,    \* history: has a run committed while another was between its
              \* read of user_version and its BEGIN?
    swallowed \* history: the rollbacks that callbacks swallowed

vars == <<disk, writer, view, pc, current, lost, ok, raced, swallowed>>

Empty == [version |-> 0, applied |-> <<>>]
Image == [version: Nat, applied: Seq(Nat)]

TypeOK ==
    /\ disk \in Image
    /\ writer \in Migrators \cup {NoMigrator}
    /\ view \in [Migrators -> Image]
    /\ pc \in [Migrators -> {"idle", "begin", "step", "version"}]
    /\ current \in [Migrators -> Nat]
    /\ lost \in [Migrators -> BOOLEAN]
    /\ ok \in BOOLEAN /\ raced \in BOOLEAN
    /\ swallowed \in 0..MaxSwallowed

Init ==
    /\ disk = Empty
    /\ writer = NoMigrator
    /\ view = [m \in Migrators |-> Empty]
    /\ pc = [m \in Migrators |-> "idle"]
    /\ current = [m \in Migrators |-> 0]
    /\ lost = [m \in Migrators |-> FALSE]
    /\ ok = FALSE /\ raced = FALSE /\ swallowed = 0

Goto(m, step) == pc' = [pc EXCEPT ![m] = step] /\ ok' = FALSE

(* The call returns and the transaction, if any, is over. *)
Leave(m, answer) ==
    /\ ok' = answer
    /\ lost' = [lost EXCEPT ![m] = FALSE]
    /\ pc' = [pc EXCEPT ![m] = "idle"]
    /\ current' = [current EXCEPT ![m] = 0]
    /\ view' = [view EXCEPT ![m] = Empty]
    /\ writer' = IF writer = m THEN NoMigrator ELSE writer

(* user_version is read before the transaction.  A database that is at or  *)
(* past the target is left alone: ESDB_OK or ESDB_ERR_UNSUPPORTED.         *)
ReadVersion(m) ==
    /\ pc[m] = "idle"
    /\ disk.version < Target[m]
    /\ current' = [current EXCEPT ![m] = disk.version]
    /\ Goto(m, "begin")
    /\ UNCHANGED <<disk, writer, view, lost, raced, swallowed>>

Begin(m) ==
    /\ pc[m] = "begin"
    /\ writer = NoMigrator
    /\ writer' = m
    /\ view' = [view EXCEPT ![m] = disk]
    /\ Goto(m, "step")
    /\ UNCHANGED <<disk, current, lost, raced, swallowed>>

(* What m's statements do: inside its transaction they change its image;   *)
(* without one each commits by itself, when no other migrator has the lock. *)
Write(m, image) ==
    IF lost[m]
    THEN writer = NoMigrator /\ disk' = image /\ UNCHANGED view
    ELSE view' = [view EXCEPT ![m] = image] /\ UNCHANGED disk

Now(m) == IF lost[m] THEN disk ELSE view[m]

HasStep(m) ==
    /\ pc[m] = "step"
    /\ current[m] < Target[m]
    /\ current[m] \in Steps[m]

(* The callback of the step from current to current + 1. *)
ApplyStep(m) ==
    /\ HasStep(m)
    /\ Len(Now(m).applied) < MaxApplied
    /\ Write(m, [Now(m) EXCEPT !.applied = Append(@, current[m])])
    /\ Goto(m, "version")
    /\ UNCHANGED <<writer, current, lost, raced, swallowed>>

(* A statement of the callback fails in a way that makes SQLite roll back  *)
(* the transaction, and the callback returns ESDB_OK.                      *)
CallbackSwallowsRollback(m) ==
    /\ HasStep(m) /\ ~lost[m] /\ swallowed < MaxSwallowed
    /\ view' = [view EXCEPT ![m] = Empty]
    /\ writer' = NoMigrator
    /\ lost' = [lost EXCEPT ![m] = TRUE]
    /\ swallowed' = swallowed + 1
    /\ Goto(m, "version")
    /\ UNCHANGED <<disk, current, raced>>

(* Mutant of VersionWritten: from_version is written. *)
VersionWrittenFrom(m) == current[m]

(* Mutant of VersionWritten: one too low. *)
VersionWrittenTooLow(m) == current[m] - 1

(* The argument of esdb_user_version_set: to_version. *)
VersionWritten(m) == current[m] + 1

SetVersion(m) ==
    /\ pc[m] = "version"
    /\ Write(m, [Now(m) EXCEPT !.version = VersionWritten(m)])
    /\ current' = [current EXCEPT ![m] = @ + 1]
    /\ Goto(m, "step")
    /\ UNCHANGED <<writer, lost, raced, swallowed>>

(* Mutant of Commit: every step is committed. *)
CommitEarly(m) ==
    /\ pc[m] = "step" /\ ~lost[m]
    /\ disk' = view[m]
    /\ raced' = (raced \/ \E o \in Migrators : pc[o] = "begin")
    /\ Leave(m, TRUE)
    /\ UNCHANGED swallowed

(* Mutant of Commit: a COMMIT without a transaction is no error. *)
CommitOfNothing(m) ==
    /\ pc[m] = "step"
    /\ current[m] >= Target[m]
    /\ disk' = Now(m)
    /\ raced' = (raced \/ \E o \in Migrators : pc[o] = "begin")
    /\ Leave(m, TRUE)
    /\ UNCHANGED swallowed

(* esdb_commit refuses a handle that was deactivated, and SQLite a COMMIT  *)
(* without a transaction: one of them ends a run that has lost its own.    *)
Commit(m) ==
    /\ pc[m] = "step" /\ ~lost[m]
    /\ current[m] >= Target[m]
    /\ disk' = view[m]
    /\ raced' = (raced \/ \E o \in Migrators : pc[o] = "begin")
    /\ Leave(m, TRUE)
    /\ UNCHANGED swallowed

(* BEGIN finds the database busy, a step is missing, a callback fails or   *)
(* throws, user_version cannot be written, COMMIT fails and the handle is  *)
(* destroyed, or the process dies: the transaction is rolled back.         *)
FailOrCrash(m) ==
    /\ pc[m] # "idle"
    /\ Leave(m, FALSE)
    /\ UNCHANGED <<disk, raced, swallowed>>

Next ==
    \E m \in Migrators :
        \/ ReadVersion(m) \/ Begin(m) \/ ApplyStep(m)
        \/ CallbackSwallowsRollback(m) \/ SetVersion(m) \/ Commit(m) \/ FailOrCrash(m)

Spec == Init /\ [][Next]_vars

-----------------------------------------------------------------------------
(* Properties. *)

(* Every step ever applied started from the version the database had: the  *)
(* history is 0, 1, ..., user_version - 1 (esdb.h, esdb_migrate: "Applies  *)
(* contiguous single-step migrations from the current user_version").  Not *)
(* when runs race: see the run stale_version.                              *)
StepsFollowVersion ==
    /\ disk.version = Len(disk.applied)
    /\ \A i \in 1..Len(disk.applied) : disk.applied[i] = i - 1

(* The same, unless a run committed while another was between its read of  *)
(* user_version and its BEGIN, or a callback hid from esdb_migrate that    *)
(* its transaction was gone: failures, crashes, missing steps, builds of   *)
(* different ages and every other overlap do no harm.                      *)
StepsFollowVersionUnlessRaced == raced \/ swallowed > 0 \/ StepsFollowVersion

(* Whatever races or fails, the database only changes by a whole run: all  *)
(* the steps from the version a migrator read up to its target, and the    *)
(* target as user_version.  Only a run whose callback hid a rollback       *)
(* changes it piece by piece.                                              *)
RunIsWhole ==
    [][\E m \in Migrators :
          \/ lost[m]
          \/ \E from \in 0..(Target[m] - 1) :
                /\ disk'.version = Target[m]
                /\ disk'.applied = disk.applied \o
                     [i \in 1..(Target[m] - from) |-> from + i - 1]]_disk

(* ESDB_OK means that the whole run is in the database: a run that lost    *)
(* its transaction is never reported as done, though its later steps and   *)
(* its target version may have been committed one by one.                  *)
OkMeansWhole ==
    [][\A m \in Migrators :
          ok' /\ pc'[m] # pc[m] =>
              /\ ~lost[m]
              /\ disk'.version = Target[m]
              /\ \A v \in current[m] - Len(view[m].applied) + Len(disk.applied)
                       .. Target[m] - 1 :
                    \E i \in DOMAIN disk'.applied : disk'.applied[i] = v]_vars
=============================================================================
