----------------------------- MODULE ObjectStore -----------------------------
(***************************************************************************)
(* The durable ObjectStore (src/esdb_object_store.cpp) of several          *)
(* connections, in one or in several processes, over one SQLite database.  *)
(*                                                                         *)
(* Every SQL statement a mutation issues is a step of its own, so a crash, *)
(* a failing statement or another connection can come between any two of   *)
(* them.  object_store_write_mutex serialises the ObjectStore calls of a   *)
(* connection, and the documented contract (docs/ARCHITECTURE.md,          *)
(* "Concurrency") makes the caller serialise its own begin/commit with     *)
(* them: a connection has one call in flight.                              *)
(*                                                                         *)
(* SQLite is external.  It is modelled by what the code relies on: one     *)
(* writer at a time, a snapshot per transaction, commit and rollback of    *)
(* the whole image, savepoints, AUTOINCREMENT, and the fact that some      *)
(* errors make SQLite roll the whole transaction back by itself.           *)
(***************************************************************************)
EXTENDS Naturals, FiniteSets

CONSTANTS
    Conns,         \* esdb_database connections
    Stores,        \* ObjectStore names
    Keys,          \* keys of one store
    MaxRevision,   \* ESDB_REVISION_MAX, the last AUTOINCREMENT rowid
    MaxHandles,    \* bound: active transaction handles, of all connections
    NoConn         \* nobody holds SQLite's write lock

ASSUME MaxRevisionAssumption == MaxRevision \in Nat
ASSUME MaxHandlesAssumption == MaxHandles \in Nat
ASSUME NoConnAssumption == NoConn \notin Conns

VARIABLES
    disk,       \* the committed database image
    writer,     \* the connection that holds the write lock, or NoConn
    auto,       \* auto[c]: sqlite3_get_autocommit
    lock,       \* lock[c]: what c's open transaction holds
    view,       \* view[c]: the image c's open transaction sees
    save,       \* save[c]: the image at SAVEPOINT __esdb_mutation
    outer,      \* outer[c]: the caller's handles that say they are active
    owner,      \* owner[c]: the handle that began the open transaction
    active,     \* active[c]: transaction_active
    ready,      \* ready[c]: object_store_schema_ready
    call,       \* call[c]: the ObjectStore call in flight
    promised,   \* promised[c]: changes reported OK in the transaction that
                \* c's caller began last
    acked,      \* changes whose commit has been reported OK to a caller
    dropped,    \* dropped[c]: history, the active handles whose transaction
                \* SQLite, or another such handle, has ended
    misled      \* history: has esdb_commit of any other handle answered OK
                \* for a transaction which that handle had not begun?

vars == <<disk, writer, auto, lock, view, save, outer, owner, active, ready,
          call, promised, acked, dropped, misled>>

-----------------------------------------------------------------------------
(* The image: the four __esdb_ tables and sqlite_sequence.  A record's     *)
(* value is identified by the revision that wrote it; 0 is "no row".       *)
(* hist is a history variable: every change row ever inserted, kept when   *)
(* the row is pruned.                                                      *)

Revisions == 1..MaxRevision
Places == Stores \X Keys
Change == [rev: Revisions, at: Places, op: {"put", "delete"}]

Image ==
    [tables: BOOLEAN, stores: SUBSET Stores,
     records: [Places -> 0..MaxRevision],
     changes: SUBSET Change, hist: SUBSET Change,
     seq: 0..MaxRevision, meta: 0..MaxRevision]

EmptyImage ==
    [tables |-> FALSE, stores |-> {}, records |-> [p \in Places |-> 0],
     changes |-> {}, hist |-> {}, seq |-> 0, meta |-> 0]

(* Mutant of InsertChange: a rowid without AUTOINCREMENT is given again    *)
(* once the rows that had it are pruned.                                   *)
InsertChangeReusesRowid(d, at, o) ==
    LET last == CHOOSE r \in 0..MaxRevision :
                    /\ \A e \in d.changes : e.rev <= r
                    /\ r = 0 \/ \E e \in d.changes : e.rev = r
        row == [rev |-> last + 1, at |-> at, op |-> o]
    IN  [d EXCEPT !.seq = last + 1, !.changes = @ \cup {row},
                  !.hist = @ \cup {row}]

(* INSERT INTO __esdb_object_changes ... RETURNING revision. *)
ChangeRow(d, at, o) == [rev |-> d.seq + 1, at |-> at, op |-> o]
InsertChange(d, at, o) ==
    [d EXCEPT !.seq = @ + 1,
              !.changes = @ \cup {ChangeRow(d, at, o)},
              !.hist = @ \cup {ChangeRow(d, at, o)}]

(* INSERT ... ON CONFLICT(store_id,key) DO UPDATE, and DELETE ... RETURNING. *)
UpsertRecord(d, at, r) == [d EXCEPT !.records[at] = r]
DeleteRecord(d, at) == [d EXCEPT !.records[at] = 0]

(* INSERT INTO __esdb_stores ... ON CONFLICT(name) DO NOTHING. *)
RegisterStore(d, s) == [d EXCEPT !.stores = @ \cup {s}]

(* set_store_revision: the store_revision row of __esdb_meta. *)
SetStoreRevision(d, r) == [d EXCEPT !.meta = r]

(* Mutant of PruneChanges: WHERE revision=?1. *)
PruneOneChange(d, r) == [d EXCEPT !.changes = {e \in @ : e.rev # r}]

(* DELETE FROM __esdb_object_changes WHERE revision<=?1. *)
PruneChanges(d, r) == [d EXCEPT !.changes = {e \in @ : e.rev > r}]

(* The schema script of ensure_object_store_schema. *)
CreateSchema(d) == [d EXCEPT !.tables = TRUE]

-----------------------------------------------------------------------------
(* SQLite's transactions, as the statements below use them. *)

Visible(c) == IF lock[c] = "none" THEN disk ELSE view[c]

(* A read statement: inside an explicit transaction the first one takes    *)
(* the snapshot the rest of the transaction works on.                      *)
ReadStatement(c) ==
    LET first == ~auto[c] /\ lock[c] = "none"
    IN  /\ lock' = IF first THEN [lock EXCEPT ![c] = "read"] ELSE lock
        /\ view' = IF first THEN [view EXCEPT ![c] = disk] ELSE view
        /\ save' = IF first THEN [save EXCEPT ![c] = disk] ELSE save
        /\ UNCHANGED <<disk, writer, auto>>

(* A write needs the write lock; a reader's snapshot must still be current *)
(* to be upgraded.  A statement that may not write fails (StatementFails). *)
CanWrite(c) ==
    \/ lock[c] = "write"
    \/ writer = NoConn /\ (lock[c] = "read" => view[c] = disk)

(* A write statement that turns the visible image into d: its own          *)
(* transaction in autocommit mode, part of c's transaction otherwise.      *)
WriteStatement(c, d) ==
    /\ CanWrite(c)
    /\ IF auto[c]
       THEN /\ disk' = d
            /\ UNCHANGED <<writer, lock, view, save>>
       ELSE /\ writer' = c
            /\ lock' = [lock EXCEPT ![c] = "write"]
            /\ view' = [view EXCEPT ![c] = d]
            /\ save' = IF lock[c] = "none" THEN [save EXCEPT ![c] = disk] ELSE save
            /\ disk' = disk
    /\ auto' = auto

(* c's transaction ends; its image has been committed or is dropped. *)
EndTransaction(c) ==
    /\ auto' = [auto EXCEPT ![c] = TRUE]
    /\ lock' = [lock EXCEPT ![c] = "none"]
    /\ view' = [view EXCEPT ![c] = EmptyImage]
    /\ save' = [save EXCEPT ![c] = EmptyImage]
    /\ writer' = IF writer = c THEN NoConn ELSE writer

CommitImage(c) ==
    /\ disk' = IF lock[c] = "write" THEN view[c] ELSE disk
    /\ EndTransaction(c)

DiscardImage(c) ==
    /\ disk' = disk
    /\ EndTransaction(c)

BeginImmediate(c) ==
    /\ writer = NoConn
    /\ writer' = c
    /\ auto' = [auto EXCEPT ![c] = FALSE]
    /\ lock' = [lock EXCEPT ![c] = "write"]
    /\ view' = [view EXCEPT ![c] = disk]
    /\ UNCHANGED <<disk, save>>

-----------------------------------------------------------------------------
(* Calls in flight: the statement a call executes next, and its locals. *)

Kinds == {"put", "delete", "ensure", "prune", "read"}
SchemaSteps == {"inspect", "schema_begin", "schema_create", "schema_commit",
                "verify"}
BodySteps == {"read", "lookup", "ensure", "prune", "begin", "register",
              "remove", "change", "record", "meta", "commit"}

(* The steps taken between begin_store_mutation and the end of its scope. *)
ScopeSteps == {"schema_create", "schema_commit", "register", "remove",
               "change", "record", "meta", "commit"}

NoPlace == <<>>

(* A connection's esdb_transaction objects, and none of them.             *)
Handles == 1..MaxHandles
NoHandle == 0

Call == [pc: {"idle"} \cup SchemaSteps \cup BodySteps, kind: Kinds,
         at: Places \cup {NoPlace}, rev: 0..MaxRevision,
         owns: BOOLEAN, changed: BOOLEAN]

IdleCall == [pc |-> "idle", kind |-> "read", at |-> NoPlace, rev |-> 0,
             owns |-> FALSE, changed |-> FALSE]

(* The first statement of a call once the schema is known to be there. *)
FirstStep(kind) ==
    CASE kind = "put" -> "begin"
      [] kind \in {"delete", "ensure"} -> "lookup"
      [] kind = "prune" -> "prune"
      [] kind = "read" -> "read"

At(c, step) == call[c].pc = step
Goto(c, step) == call' = [call EXCEPT ![c].pc = step]
Return(c) == call' = [call EXCEPT ![c] = IdleCall]

TypeOK ==
    /\ disk \in Image
    /\ writer \in Conns \cup {NoConn}
    /\ auto \in [Conns -> BOOLEAN]
    /\ lock \in [Conns -> {"none", "read", "write"}]
    /\ view \in [Conns -> Image]
    /\ save \in [Conns -> Image]
    /\ outer \in [Conns -> SUBSET Handles]
    /\ owner \in [Conns -> Handles \cup {NoHandle}]
    /\ active \in [Conns -> BOOLEAN]
    /\ ready \in [Conns -> BOOLEAN]
    /\ call \in [Conns -> Call]
    /\ promised \in [Conns -> SUBSET Change]
    /\ acked \in SUBSET Change
    /\ dropped \in [Conns -> SUBSET Handles]
    /\ misled \in BOOLEAN

Init ==
    /\ disk = EmptyImage
    /\ writer = NoConn
    /\ auto = [c \in Conns |-> TRUE]
    /\ lock = [c \in Conns |-> "none"]
    /\ view = [c \in Conns |-> EmptyImage]
    /\ save = [c \in Conns |-> EmptyImage]
    /\ outer = [c \in Conns |-> {}]
    /\ owner = [c \in Conns |-> NoHandle]
    /\ active = [c \in Conns |-> FALSE]
    /\ ready = [c \in Conns |-> FALSE]
    /\ call = [c \in Conns |-> IdleCall]
    /\ promised = [c \in Conns |-> {}]
    /\ acked = {}
    /\ dropped = [c \in Conns |-> {}]
    /\ misled = FALSE

sqlite == <<disk, writer, auto, lock, view, save>>
handles == <<outer, owner>>
ghosts == <<promised, acked, dropped, misled>>

-----------------------------------------------------------------------------
(* The caller's own transactions (esdb_begin, esdb_commit, esdb_rollback)  *)
(* and the connection's life.                                              *)

(* esdb_begin looks at transaction_active, not at the handles.  It makes a *)
(* new handle; which number it has is of no importance.                    *)
CallerBegin(c, h, mode) ==
    /\ At(c, "idle")
    /\ h \in Handles \ outer[c] /\ \A g \in Handles \ outer[c] : h <= g
    /\ Cardinality({e \in Conns \X Handles : e[2] \in outer[e[1]]}) < MaxHandles
    /\ ~active[c] /\ auto[c]
    /\ \/ mode = "immediate" /\ BeginImmediate(c)
       \/ /\ mode = "deferred"
          /\ auto' = [auto EXCEPT ![c] = FALSE]
          /\ UNCHANGED <<disk, writer, lock, view, save>>
    /\ outer' = [outer EXCEPT ![c] = @ \cup {h}]
    /\ owner' = [owner EXCEPT ![c] = h]
    /\ active' = [active EXCEPT ![c] = TRUE]
    /\ promised' = [promised EXCEPT ![c] = {}]
    /\ UNCHANGED <<ready, call, acked, dropped, misled>>

Owning(c) == {owner[c]} \cap Handles

(* What finish_transaction writes once no transaction is open: h is        *)
(* inactive, another handle that says it is active goes on saying so.      *)
Finished(c, h) ==
    /\ outer' = [outer EXCEPT ![c] = @ \ {h}]
    /\ owner' = [owner EXCEPT ![c] = NoHandle]
    /\ active' = [active EXCEPT ![c] = FALSE]
    /\ promised' = [promised EXCEPT ![c] = {}]
    /\ dropped' = [dropped EXCEPT ![c] =
                      (IF h \in @ THEN @ \cup Owning(c) ELSE @) \ {h}]
    /\ UNCHANGED <<ready, call>>

Misleads(c, h) == h \notin dropped[c] /\ ~auto[c] /\ owner[c] # h

(* Mutant of CallerCommit: the failure of COMMIT is not reported. *)
CallerCommitIgnoresFailure(c, h) ==
    /\ At(c, "idle") /\ h \in outer[c]
    /\ CommitImage(c)
    /\ acked' = IF auto[c] \/ owner[c] = h THEN acked \cup promised[c] ELSE acked
    /\ misled' = (misled \/ Misleads(c, h))
    /\ Finished(c, h)

(* esdb_commit commits whatever transaction is open.  COMMIT fails when    *)
(* SQLite has already rolled the transaction back; the handle is inactive  *)
(* afterwards in both cases.  A COMMIT that fails and leaves the           *)
(* transaction open changes nothing, and one that fails and drops it is a  *)
(* CallerRollback.                                                         *)
CallerCommit(c, h) ==
    /\ At(c, "idle") /\ h \in outer[c]
    /\ CommitImage(c)
    /\ acked' = IF owner[c] = h THEN acked \cup promised[c] ELSE acked
    /\ misled' = (misled \/ Misleads(c, h))
    /\ Finished(c, h)

CallerRollback(c, h) ==
    /\ At(c, "idle") /\ h \in outer[c]
    /\ DiscardImage(c)
    /\ Finished(c, h)
    /\ UNCHANGED <<acked, misled>>

(* The process dies, or esdb_close drops an open transaction; the file is  *)
(* opened again with a fresh esdb_database.                                *)
CrashAndReopen(c) ==
    /\ DiscardImage(c)
    /\ outer' = [outer EXCEPT ![c] = {}]
    /\ owner' = [owner EXCEPT ![c] = NoHandle]
    /\ active' = [active EXCEPT ![c] = FALSE]
    /\ ready' = [ready EXCEPT ![c] = FALSE]
    /\ call' = [call EXCEPT ![c] = IdleCall]
    /\ promised' = [promised EXCEPT ![c] = {}]
    /\ dropped' = [dropped EXCEPT ![c] = {}]
    /\ UNCHANGED <<acked, misled>>

-----------------------------------------------------------------------------
(* Entry of a call, and ensure_object_store_schema. *)

Start(c, kind, at, r) ==
    /\ At(c, "idle")
    /\ call' = [call EXCEPT ![c] =
                  [IdleCall EXCEPT !.pc = IF ready[c] THEN FirstStep(kind)
                                                      ELSE "inspect",
                                   !.kind = kind, !.at = at, !.rev = r]]
    /\ UNCHANGED <<sqlite, handles, active, ready, ghosts>>

Inspect(c) ==
    /\ At(c, "inspect")
    /\ ReadStatement(c)
    /\ Goto(c, IF Visible(c).tables THEN "verify" ELSE "schema_begin")
    /\ UNCHANGED <<handles, active, ready, ghosts>>

(* begin_store_mutation: BEGIN IMMEDIATE in autocommit mode, otherwise     *)
(* SAVEPOINT __esdb_mutation inside the caller's transaction.  Only a      *)
(* scope that owns its transaction synchronizes transaction_active, here   *)
(* and at its end; it leaves the handles alone.                            *)
BeginStoreMutation(c, step) ==
    /\ IF auto[c]
       THEN BeginImmediate(c)
       ELSE /\ save' = [save EXCEPT ![c] = Visible(c)]
            /\ UNCHANGED <<disk, writer, auto, lock, view>>
    /\ call' = [call EXCEPT ![c].pc = step, ![c].owns = auto[c]]
    /\ active' = [active EXCEPT ![c] = @ \/ auto[c]]
    /\ UNCHANGED <<handles, ready, ghosts>>

SchemaBegin(c) ==
    /\ At(c, "schema_begin")
    /\ BeginStoreMutation(c, "schema_create")

(* The schema is inspected again under the write lock. *)
SchemaCreate(c) ==
    /\ At(c, "schema_create")
    /\ IF Visible(c).tables
       THEN ReadStatement(c)
       ELSE WriteStatement(c, CreateSchema(Visible(c)))
    /\ Goto(c, "schema_commit")
    /\ UNCHANGED <<handles, active, ready, ghosts>>

(* The successful half of commit_store_mutation: COMMIT or RELEASE. *)
EndScope(c) ==
    IF call[c].owns
    THEN CommitImage(c) /\ active' = [active EXCEPT ![c] = FALSE]
    ELSE /\ save' = [save EXCEPT ![c] = EmptyImage]
         /\ UNCHANGED <<disk, writer, auto, lock, view, active>>

SchemaCommit(c) ==
    /\ At(c, "schema_commit")
    /\ EndScope(c)
    /\ call' = [call EXCEPT ![c].pc = "verify", ![c].owns = FALSE]
    /\ UNCHANGED <<handles, ready, ghosts>>

(* store_schema_version, then read_store_revision_metadata's cross-check.  *)
(* A mismatch is reported as ESDB_ERR_CORRUPT.                             *)
Coherent(d) == d.meta = d.seq

Verify(c) ==
    /\ At(c, "verify")
    /\ Visible(c).tables
    /\ ReadStatement(c)
    /\ IF Coherent(Visible(c))
       THEN /\ ready' = [ready EXCEPT ![c] = TRUE]
            /\ Goto(c, FirstStep(call[c].kind))
       ELSE /\ ready' = ready
            /\ Return(c)
    /\ UNCHANGED <<handles, active, ghosts>>

-----------------------------------------------------------------------------
(* The bodies of the calls.  Every statement needs the tables to be there. *)

Table(c, step) == At(c, step) /\ Visible(c).tables

(* get, exists, count, scan, revision, changes_since: one SELECT. *)
ReadRows(c) ==
    /\ Table(c, "read")
    /\ ReadStatement(c)
    /\ Return(c)
    /\ UNCHANGED <<handles, active, ready, ghosts>>

(* get_store_id(create=false) of delete and ensure. *)
LookupStore(c) ==
    /\ Table(c, "lookup")
    /\ ReadStatement(c)
    /\ LET found == call[c].at[1] \in Visible(c).stores
       IN  IF call[c].kind = "delete"
           THEN IF found THEN Goto(c, "begin") ELSE Return(c)
           ELSE IF found THEN Return(c) ELSE Goto(c, "ensure")
    /\ UNCHANGED <<handles, active, ready, ghosts>>

(* esdb_object_store_ensure registers the store outside any scope. *)
EnsureStore(c) ==
    /\ Table(c, "ensure")
    /\ WriteStatement(c, RegisterStore(Visible(c), call[c].at[1]))
    /\ Return(c)
    /\ UNCHANGED <<handles, active, ready, ghosts>>

PruneRows(c) ==
    /\ Table(c, "prune")
    /\ WriteStatement(c, PruneChanges(Visible(c), call[c].rev))
    /\ Return(c)
    /\ UNCHANGED <<handles, active, ready, ghosts>>

MutationBegin(c) ==
    /\ At(c, "begin")
    /\ BeginStoreMutation(c, IF call[c].kind = "put" THEN "register"
                                                     ELSE "remove")

(* put: get_store_id(create=true). *)
RegisterForPut(c) ==
    /\ Table(c, "register")
    /\ WriteStatement(c, RegisterStore(Visible(c), call[c].at[1]))
    /\ Goto(c, "change")
    /\ UNCHANGED <<handles, active, ready, ghosts>>

(* Mutant of RemoveRow: a missing row is journalled as well. *)
RemoveRowAlwaysJournals(c) ==
    /\ Table(c, "remove")
    /\ WriteStatement(c, DeleteRecord(Visible(c), call[c].at))
    /\ Goto(c, "change")
    /\ UNCHANGED <<handles, active, ready, ghosts>>

(* delete: a missing row ends the scope without a change row. *)
RemoveRow(c) ==
    /\ Table(c, "remove")
    /\ WriteStatement(c, DeleteRecord(Visible(c), call[c].at))
    /\ Goto(c, IF Visible(c).records[call[c].at] = 0 THEN "commit"
                                                      ELSE "change")
    /\ UNCHANGED <<handles, active, ready, ghosts>>

(* Mutant of AppendChange: the revision domain has no end. *)
AppendChangeUnbounded(c) ==
    LET d == InsertChange(Visible(c), call[c].at, call[c].kind)
    IN  /\ Table(c, "change")
        /\ WriteStatement(c, d)
        /\ call' = [call EXCEPT ![c].rev = d.seq,
                                ![c].changed = TRUE,
                                ![c].pc = IF call[c].kind = "put" THEN "record"
                                                                  ELSE "meta"]
        /\ UNCHANGED <<handles, active, ready, ghosts>>

(* insert_change; AUTOINCREMENT fails once the last rowid is used. *)
AppendChange(c) ==
    LET d == InsertChange(Visible(c), call[c].at, call[c].kind)
    IN  /\ Table(c, "change")
        /\ Visible(c).seq < MaxRevision
        /\ WriteStatement(c, d)
        /\ call' = [call EXCEPT ![c].rev = d.seq,
                                ![c].changed = TRUE,
                                ![c].pc = IF call[c].kind = "put" THEN "record"
                                                                  ELSE "meta"]
        /\ UNCHANGED <<handles, active, ready, ghosts>>

UpsertRow(c) ==
    /\ Table(c, "record")
    /\ WriteStatement(c, UpsertRecord(Visible(c), call[c].at, call[c].rev))
    /\ Goto(c, "meta")
    /\ UNCHANGED <<handles, active, ready, ghosts>>

StoreRevision(c) ==
    /\ Table(c, "meta")
    /\ WriteStatement(c, SetStoreRevision(Visible(c), call[c].rev))
    /\ Goto(c, "commit")
    /\ UNCHANGED <<handles, active, ready, ghosts>>

(* commit_store_mutation and the OK return with *out_revision.  Outside a  *)
(* caller's transaction the OK promises durability, inside one the result  *)
(* is provisional.                                                         *)
Reported(c) ==
    IF call[c].changed
    THEN {[rev |-> call[c].rev, at |-> call[c].at, op |-> call[c].kind]}
    ELSE {}

MutationCommit(c) ==
    /\ At(c, "commit")
    /\ EndScope(c)
    /\ Return(c)
    /\ acked' = IF call[c].owns THEN acked \cup Reported(c) ELSE acked
    /\ promised' = IF call[c].owns THEN promised
                   ELSE [promised EXCEPT ![c] = @ \cup Reported(c)]
    /\ UNCHANGED <<handles, ready, dropped, misled>>

-----------------------------------------------------------------------------
(* Failures. *)

(* Mutant of UndoScope: RELEASE without ROLLBACK TO. *)
UndoScopeOnlyReleases(c) ==
    IF call[c].owns
    THEN DiscardImage(c) /\ active' = [active EXCEPT ![c] = FALSE]
    ELSE /\ save' = [save EXCEPT ![c] = EmptyImage]
         /\ UNCHANGED <<disk, writer, auto, lock, view, active>>

(* rollback_store_mutation: ROLLBACK, or ROLLBACK TO and RELEASE. *)
UndoScope(c) ==
    IF call[c].owns
    THEN DiscardImage(c) /\ active' = [active EXCEPT ![c] = FALSE]
    ELSE /\ view' = IF lock[c] = "none" THEN view
                    ELSE [view EXCEPT ![c] = save[c]]
         /\ save' = [save EXCEPT ![c] = EmptyImage]
         /\ UNCHANGED <<disk, writer, auto, lock, active>>

(* The statement the call executes returns an error (busy, constraint, I/O,*)
(* no such table, ...) and the call takes its error path.                  *)
StatementFails(c) ==
    /\ ~At(c, "idle")
    /\ IF call[c].pc \in ScopeSteps THEN UndoScope(c)
                                     ELSE UNCHANGED <<sqlite, active>>
    /\ Return(c)
    /\ UNCHANGED <<handles, ready, ghosts>>

(* The error makes SQLite roll the whole transaction back by itself (disk  *)
(* full, I/O error, out of memory).  The statements of the error path find *)
(* no transaction.  They synchronize transaction_active when the scope     *)
(* owned it; when it was the caller's, nobody does, and its handle still   *)
(* says active.                                                            *)
SqliteRollsBack(c) ==
    /\ ~At(c, "idle") /\ ~auto[c]
    /\ DiscardImage(c)
    /\ Return(c)
    /\ active' = [active EXCEPT ![c] = @ /\ ~call[c].owns]
    /\ owner' = [owner EXCEPT ![c] = NoHandle]
    /\ dropped' = [dropped EXCEPT ![c] = @ \cup Owning(c)]
    /\ UNCHANGED <<outer, ready, promised, acked, misled>>

-----------------------------------------------------------------------------
SchemaStep(c) ==
    Inspect(c) \/ SchemaBegin(c) \/ SchemaCreate(c) \/ SchemaCommit(c)
    \/ Verify(c)

BodyStep(c) ==
    \/ ReadRows(c) \/ LookupStore(c) \/ EnsureStore(c) \/ PruneRows(c)
    \/ MutationBegin(c) \/ RegisterForPut(c) \/ RemoveRow(c)
    \/ AppendChange(c) \/ UpsertRow(c) \/ StoreRevision(c)
    \/ MutationCommit(c)

CallStep(c) == SchemaStep(c) \/ BodyStep(c)

StartCall(c) ==
    \/ \E at \in Places, kind \in {"put", "delete", "ensure", "read"} :
           Start(c, kind, at, 0)
    \/ \E at \in Places, r \in Revisions : Start(c, "prune", at, r)

CallerStep(c) ==
    \E h \in Handles :
        \/ \E mode \in {"deferred", "immediate"} : CallerBegin(c, h, mode)
        \/ CallerCommit(c, h)
        \/ CallerRollback(c, h)

Next ==
    \E c \in Conns :
        \/ CallerStep(c)
        \/ CrashAndReopen(c)
        \/ StartCall(c)
        \/ CallStep(c)
        \/ StatementFails(c)
        \/ SqliteRollsBack(c)

Spec == Init /\ [][Next]_vars

-----------------------------------------------------------------------------
(* Properties. *)

(* The revision that a committed image (or an open transaction between two *)
(* calls) stores in __esdb_meta is the one AUTOINCREMENT will continue     *)
(* from, so read_store_revision_metadata never reports corruption: no      *)
(* crash, failed statement or rollback separates the two.                  *)
RevisionMetadataCoherent ==
    /\ Coherent(disk)
    /\ \A c \in Conns : call[c].pc \notin ScopeSteps => Coherent(Visible(c))

(* Revisions of committed mutations are 1..revision without a gap and      *)
(* without reuse, whatever was rolled back in between (docs/STORE.md,      *)
(* "Durable revisions").                                                   *)
HistoryContiguous ==
    /\ {e.rev : e \in disk.hist} = 1..disk.meta
    /\ \A e, f \in disk.hist : e.rev = f.rev => e = f

(* Pruning only ever removes a prefix: the surviving change rows are the   *)
(* newest part of the history, even when prunes race mutations of other    *)
(* connections or are rolled back.                                         *)
JournalIsSuffix ==
    /\ disk.changes \subseteq disk.hist
    /\ \A e \in disk.changes, f \in disk.hist :
           f.rev > e.rev => f \in disk.changes

(* A mutation reported OK outside a caller's transaction, or in one that   *)
(* esdb_commit of its handle has committed, is in the committed history    *)
(* for good, and no two of them were given the same revision.  And it is   *)
(* the handle's own transaction that esdb_commit answers OK for, unless    *)
(* SQLite has rolled one back by itself during a mutation: then its handle *)
(* stays active, a standalone mutation clears transaction_active, another  *)
(* handle can begin, and committing the first one commits the other's      *)
(* transaction and answers OK for changes that are gone.                   *)
AckedIsDurable ==
    acked \subseteq disk.hist /\ ~misled

(* The schema flag a connection caches (object_store_schema_ready) tells   *)
(* the truth about the database it works on.  It does not: see the run     *)
(* schema_flag.                                                            *)
SchemaFlagTruthful ==
    \A c \in Conns : ready[c] /\ At(c, "idle") => Visible(c).tables
=============================================================================
