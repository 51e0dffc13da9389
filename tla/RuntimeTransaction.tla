-------------------------- MODULE RuntimeTransaction --------------------------
(***************************************************************************)
(* The transaction bookkeeping of one connection (src/esdb_runtime.cpp):   *)
(* what esdb_database and its esdb_transaction handles say about the       *)
(* transaction, against the transaction SQLite really has.                 *)
(*                                                                         *)
(* The caller serialises its calls on the connection (docs/ARCHITECTURE.md,*)
(* "Concurrency"), so a call is one step.  SQLite is external; every       *)
(* transaction it opens has a number of its own, which only this model     *)
(* sees.                                                                   *)
(***************************************************************************)
EXTENDS Naturals, Sequences

CONSTANTS
    Handles,        \* esdb_transaction objects
    Names,          \* savepoint names
    MaxDepth,       \* size of esdb_database::savepoints
    RawCommands,    \* transaction SQL the caller passes to esdb_exec
    MaxTx,          \* bound: SQLite transactions opened
    MaxStack,       \* bound: savepoints a raw SAVEPOINT may come on top of
    NoHandle

ASSUME MaxDepthAssumption == MaxDepth \in Nat
ASSUME MaxTxAssumption == MaxTx \in Nat
ASSUME MaxStackAssumption == MaxStack \in Nat
ASSUME NoHandleAssumption == NoHandle \notin Handles

VARIABLES
    tx,          \* SQLite's open transaction, 0 in autocommit mode
    opened,      \* transactions SQLite has opened so far
    stack,       \* SQLite's savepoints, innermost last
    implicit,    \* was the transaction opened by its first SAVEPOINT?
    transaction_active,
    active_transaction,
    savepoints,  \* the names in use; its length is savepoint_depth
    handle,      \* handle[h]: is it allocated, its flag, the tx it began
    ended,       \* history: <<transaction a handle began, the one it ended>>
    unnoticed,   \* history: has SQLite left a transaction in a way that
                 \* nobody could notice or looked at?
    mixed        \* history: has raw SAVEPOINT, RELEASE or ROLLBACK TO
                 \* changed the stack of the open transaction?

sqlite == <<tx, opened, stack, implicit>>
flags == <<transaction_active, active_transaction, savepoints>>
vars == <<sqlite, flags, handle, ended, unnoticed, mixed>>

Txs == 0..MaxTx
NoTransaction == [allocated |-> FALSE, active |-> FALSE, began |-> 0]

TypeOK ==
    /\ tx \in Txs /\ opened \in Txs
    /\ stack \in Seq(Names) /\ implicit \in BOOLEAN
    /\ transaction_active \in BOOLEAN
    /\ active_transaction \in Handles \cup {NoHandle}
    /\ savepoints \in Seq(Names) /\ Len(savepoints) <= MaxDepth
    /\ handle \in [Handles -> [allocated: BOOLEAN, active: BOOLEAN,
                               began: Txs]]
    /\ ended \subseteq Txs \X Txs
    /\ unnoticed \in BOOLEAN /\ mixed \in BOOLEAN

Init ==
    /\ tx = 0 /\ opened = 0 /\ stack = <<>> /\ implicit = FALSE
    /\ transaction_active = FALSE
    /\ active_transaction = NoHandle
    /\ savepoints = <<>>
    /\ handle = [h \in Handles |-> NoTransaction]
    /\ ended = {} /\ unnoticed = FALSE /\ mixed = FALSE

Autocommit == tx = 0

(* BEGIN, SAVEPOINT in autocommit mode, and the end of the transaction,    *)
(* by COMMIT, by ROLLBACK or by SQLite itself.                             *)
SqliteBegins ==
    /\ opened < MaxTx
    /\ opened' = opened + 1 /\ tx' = opened + 1
    /\ stack' = <<>> /\ implicit' = FALSE

SqliteSavepoint(n) ==
    IF Autocommit
    THEN /\ opened < MaxTx
         /\ opened' = opened + 1 /\ tx' = opened + 1
         /\ stack' = <<n>> /\ implicit' = TRUE
    ELSE stack' = Append(stack, n) /\ UNCHANGED <<tx, opened, implicit>>

SqliteEnds == tx' = 0 /\ stack' = <<>> /\ implicit' = FALSE /\ opened' = opened

(* The innermost savepoint n.                                              *)
Innermost(n, i) ==
    /\ i \in DOMAIN stack /\ stack[i] = n
    /\ \A j \in DOMAIN stack : j > i => stack[j] # n

(* RELEASE n: that savepoint and those inside it are gone.  The outermost  *)
(* savepoint of an implicit transaction commits it.                        *)
SqliteRelease(n) ==
    \E i \in DOMAIN stack :
        /\ Innermost(n, i)
        /\ IF implicit /\ i = 1
           THEN SqliteEnds
           ELSE stack' = SubSeq(stack, 1, i - 1) /\ UNCHANGED <<tx, opened, implicit>>

(* ROLLBACK TO n: those inside it are gone.                                *)
SqliteRollbackTo(n) ==
    \E i \in DOMAIN stack :
        /\ Innermost(n, i)
        /\ stack' = SubSeq(stack, 1, i)
        /\ UNCHANGED <<tx, opened, implicit>>

-----------------------------------------------------------------------------
(* Transaction handles. *)

(* esdb_begin fails while transaction_active is set, and when BEGIN does;  *)
(* a handle that cannot be allocated rolls back again and changes nothing. *)
Begin(h) ==
    /\ ~handle[h].allocated
    /\ ~transaction_active
    /\ Autocommit
    /\ SqliteBegins
    /\ transaction_active' = TRUE
    /\ active_transaction' = h
    /\ handle' = [handle EXCEPT ![h] =
                    [allocated |-> TRUE, active |-> TRUE, began |-> tx']]
    /\ UNCHANGED <<savepoints, ended, unnoticed, mixed>>

(* What finish_transaction writes once the transaction is over. *)
Cleared(h) == IF active_transaction = h THEN NoHandle ELSE active_transaction

(* finish_transaction.  COMMIT and ROLLBACK succeed, or fail because there *)
(* is no transaction, or fail and leave it open (SQLITE_BUSY), or fail and *)
(* SQLite has rolled it back: but for the open one all end the same way.   *)
Finish(h, freed) ==
    /\ handle[h].active
    /\ SqliteEnds
    /\ transaction_active' = FALSE
    /\ active_transaction' = Cleared(h)
    /\ savepoints' = <<>>
    /\ handle' = [handle EXCEPT ![h] =
                    IF freed THEN NoTransaction ELSE [@ EXCEPT !.active = FALSE]]
    /\ ended' = IF Autocommit THEN ended
                              ELSE ended \cup {<<handle[h].began, tx>>}
    /\ mixed' = FALSE
    /\ UNCHANGED unnoticed

CommitOrRollback(h) == Finish(h, FALSE)

(* The transaction is still open and the flags say so. *)
StaysOpen(h) ==
    /\ handle[h].active /\ ~Autocommit
    /\ transaction_active' = TRUE
    /\ UNCHANGED <<sqlite, active_transaction, savepoints, ended, unnoticed,
                   mixed>>

FinishStaysOpen(h) == StaysOpen(h) /\ UNCHANGED handle

(* esdb_transaction_destroy rolls an active transaction back first and     *)
(* does not look whether it could: the handle is freed though the          *)
(* transaction stays open, and active_transaction goes on naming it.  What *)
(* Sync writes there later reaches no handle.  An inactive handle is only  *)
(* freed.                                                                  *)
Destroy(h) ==
    \/ Finish(h, TRUE)
    \/ StaysOpen(h) /\ handle' = [handle EXCEPT ![h] = NoTransaction]
    \/ /\ handle[h].allocated /\ ~handle[h].active
       /\ handle' = [handle EXCEPT ![h] = NoTransaction]
       /\ UNCHANGED <<sqlite, flags, ended, unnoticed, mixed>>

-----------------------------------------------------------------------------
(* Savepoints. *)

(* Mutant of SavepointBegin: the size of the array is not checked. *)
SavepointBeginUnbounded(n) ==
    /\ transaction_active
    /\ SqliteSavepoint(n)
    /\ savepoints' = Append(savepoints, n)
    /\ UNCHANGED <<transaction_active, active_transaction, handle, ended,
                   unnoticed, mixed>>

SavepointBegin(n) ==
    /\ transaction_active
    /\ Len(savepoints) < MaxDepth
    /\ SqliteSavepoint(n)
    /\ savepoints' = Append(savepoints, n)
    /\ UNCHANGED <<transaction_active, active_transaction, handle, ended,
                   unnoticed, mixed>>

(* Mutant of OnTop: any savepoint in use will do. *)
InUse(n) == \E i \in DOMAIN savepoints : savepoints[i] = n

(* The name must be the last one. *)
OnTop(n) == savepoints # <<>> /\ savepoints[Len(savepoints)] = n

(* RELEASE, or ROLLBACK TO and RELEASE.  When SQLite does not know the     *)
(* savepoint the call fails and the names stay as they are.  Nobody asks   *)
(* SQLite whether the outermost savepoint of an implicit transaction has   *)
(* committed it.                                                           *)
SavepointReleaseOrRollback(n) ==
    /\ OnTop(n)
    /\ SqliteRelease(n)
    /\ savepoints' = SubSeq(savepoints, 1, Len(savepoints) - 1)
    /\ unnoticed' = (unnoticed \/ tx' = 0)
    /\ mixed' = (mixed /\ tx' # 0)
    /\ UNCHANGED <<transaction_active, active_transaction, handle, ended>>

(* ROLLBACK TO has been done when that commit fails and the transaction    *)
(* stays open: an error, and the names stay as they are.                   *)
SavepointRollbackFails(n) ==
    /\ OnTop(n)
    /\ implicit /\ Innermost(n, 1)
    /\ SqliteRollbackTo(n)
    /\ UNCHANGED <<flags, handle, ended, unnoticed, mixed>>

-----------------------------------------------------------------------------
(* SQL that goes around the handles. *)

(* Mutant of Sync: the handle is not told. *)
SyncForgetsHandle ==
    /\ transaction_active' = (tx' # 0)
    /\ savepoints' = IF tx' = 0 THEN <<>> ELSE savepoints
    /\ UNCHANGED <<active_transaction, handle>>

(* The reconciliation at the end of esdb_exec and of esdb_query. *)
Sync ==
    /\ transaction_active' = (tx' # 0)
    /\ IF tx' = 0
       THEN /\ savepoints' = <<>>
            /\ active_transaction' = NoHandle
            /\ handle' = [h \in Handles |->
                            IF h = active_transaction
                            THEN [handle[h] EXCEPT !.active = FALSE]
                            ELSE handle[h]]
       ELSE UNCHANGED <<savepoints, active_transaction, handle>>

(* One script; a statement that fails ends it. *)
Exec(command) ==
    /\ \/ command = "begin" /\ Autocommit /\ SqliteBegins
       \/ command = "commit" /\ ~Autocommit /\ SqliteEnds
       \/ command = "restart" /\ ~Autocommit /\ SqliteBegins
       \/ command = "fatal" /\ ~Autocommit /\ SqliteEnds
       \/ command = "other" /\ UNCHANGED sqlite
    /\ Sync
    /\ unnoticed' = (unnoticed \/ command = "restart")
    /\ mixed' = (mixed /\ tx' = tx)
    /\ UNCHANGED ended

(* A script that names a savepoint itself, in the transaction of a handle  *)
(* or in one it opens: SQLite's stack changes, the names do not.           *)
ExecSavepoint(command, n) ==
    /\ \/ command = "savepoint" /\ Len(stack) < MaxStack /\ SqliteSavepoint(n)
       \/ command = "release" /\ SqliteRelease(n)
       \/ command = "rollback to" /\ SqliteRollbackTo(n)
    /\ Sync
    /\ mixed' = (tx' # 0 /\ (mixed \/ stack' # stack))
    /\ UNCHANGED <<ended, unnoticed>>

(* An ObjectStore mutation outside a transaction opens and ends one of its *)
(* own and then runs sync_internal_transaction_state; inside one it takes  *)
(* and releases an internal savepoint and leaves the flags alone.          *)
StoreMutation ==
    /\ Autocommit
    /\ transaction_active' = FALSE
    /\ savepoints' = <<>>
    /\ UNCHANGED <<sqlite, active_transaction, handle, ended, unnoticed, mixed>>

(* A statement of an ObjectStore mutation inside the caller's transaction, *)
(* or of esdb_user_version_set, fails so badly that SQLite rolls the       *)
(* transaction back; nobody looks at sqlite3_get_autocommit afterwards.    *)
InternalStatementRollsBack ==
    /\ ~Autocommit
    /\ SqliteEnds
    /\ unnoticed' = TRUE /\ mixed' = FALSE
    /\ UNCHANGED <<flags, handle, ended>>

-----------------------------------------------------------------------------
Next ==
    \/ \E h \in Handles :
          Begin(h) \/ CommitOrRollback(h) \/ FinishStaysOpen(h) \/ Destroy(h)
    \/ \E n \in Names :
          \/ SavepointBegin(n) \/ SavepointReleaseOrRollback(n)
          \/ SavepointRollbackFails(n)
    \/ \E command \in RawCommands :
          Exec(command) \/ \E n \in Names : ExecSavepoint(command, n)
    \/ StoreMutation
    \/ InternalStatementRollsBack

Spec == Init /\ [][Next]_vars

-----------------------------------------------------------------------------
(* Properties. *)

(* transaction_active is what sqlite3_get_autocommit says, and a handle is *)
(* active if and only if it is the one the connection knows and SQLite's   *)
(* open transaction is the one it began: the flags survive raw SQL, raw    *)
(* savepoints among it, failed COMMITs and automatic rollbacks ("keep the  *)
(* flags truthful by asking SQLite", esdb_runtime.cpp), until a            *)
(* transaction ends inside a store mutation or by a savepoint call, or is  *)
(* replaced within one script.                                             *)
FlagsTruthful ==
    unnoticed \/
    /\ transaction_active = ~Autocommit
    /\ \A h \in Handles :
          handle[h].active <=>
              h = active_transaction /\ handle[h].began = tx /\ ~Autocommit

(* The names esdb_savepoint_release and esdb_savepoint_rollback check are  *)
(* SQLite's savepoint stack, so the savepoint they end is the one the      *)
(* caller named.  The exceptions are that of FlagsTruthful and a           *)
(* transaction in which raw SQL has set or ended savepoints, for as long   *)
(* as it is open: esdb_exec and esdb_query reconcile the depth at its end  *)
(* only.                                                                   *)
SavepointsMirrorSqlite == unnoticed \/ mixed \/ savepoints = stack

(* Even when the bookkeeping is stale, a transaction that SQLite has open  *)
(* is never hidden from esdb_begin and esdb_savepoint_begin.               *)
OpenTransactionIsKnown == ~Autocommit => transaction_active

(* Even when a transaction has ended unnoticed, SQLite's stack is the      *)
(* inner end of the names: a savepoint that is released or rolled back is  *)
(* the one that carries the name at the top, never an outer one of the     *)
(* same name.  Raw savepoints break this too while their transaction is    *)
(* open (esdb.h promises it of every call).                                *)
StackIsInnerNames ==
    mixed \/
    /\ Len(stack) <= Len(savepoints)
    /\ stack = SubSeq(savepoints, Len(savepoints) - Len(stack) + 1,
                      Len(savepoints))

(* esdb_commit, esdb_rollback and esdb_transaction_destroy end the         *)
(* transaction that their handle began and no other, however often raw SQL *)
(* has ended and begun transactions in between.  The exception is that of  *)
(* FlagsTruthful: a handle that nobody deactivated ends a later one.       *)
FinishEndsOwnTransaction == unnoticed \/ \A e \in ended : e[1] = e[2]

(* What the connection knows of its transaction, of the handle that owns   *)
(* it and of its savepoints is what SQLite has, and is acted upon, until a *)
(* transaction ends where nobody looks (see                                *)
(* esdb_query_sync_transaction_state); the names are SQLite's again as     *)
(* soon as a transaction with raw savepoints has ended.                    *)
BookkeepingTruthful ==
    FlagsTruthful /\ SavepointsMirrorSqlite /\ FinishEndsOwnTransaction

(* After that it errs on the safe side only: no open transaction is        *)
(* hidden, and without raw savepoints no outer savepoint is mistaken for   *)
(* an inner one.                                                           *)
StaleBookkeepingIsSafe == OpenTransactionIsKnown /\ StackIsInnerNames
=============================================================================
