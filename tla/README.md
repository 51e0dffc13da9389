# A TLA+ verification project for ESDB

ESDB is an embedded database runtime on SQLite for native and ExtendScript
hosts. This directory holds TLA+ modules for the parts of it that keep state,
TLC configurations that check them on small instances, and TLAPS proofs of
their safety properties for instances of every size. Paths below are relative to the repository.

## 1. The system

| Part | Code | State | Operations |
|---|---|---|---|
| Transactions and savepoints | `src/esdb_runtime.cpp`, `src/esdb_internal.hpp` | `transaction_active`, `active_transaction`, 64 savepoint names, `esdb_transaction` handles | begin, commit, rollback, destroy, savepoint begin/release/rollback, the reconciliation after `esdb_exec` and `esdb_query` |
| Migrations | `src/esdb_runtime.cpp` | SQLite's `user_version` | `esdb_migrate` |
| Durable ObjectStore | `src/esdb_object_store.cpp` | four `__esdb_` tables, the AUTOINCREMENT sequence, a schema flag per connection | ensure, put, delete, get, exists, count, scan, revision, changes_since, prune |
| ObjectStore change feed | `src/esdb_object_store.cpp` | a cursor per subscription | subscribe, poll, destroy |
| Process-memory Store | `src/esdb_store.cpp` | registry of names, records, a bounded journal, counts, subscription cursors | open, close, destroy, put, patch, delete, clear, reads, subscribe, poll |
| Open, close, health, backup, integrity | `src/esdb_runtime.cpp` | options, SQLite's connection, the file's journal mode | open, close, `esdb_database_health_get`, `esdb_backup_to`, `esdb_integrity_check` |
| ZIPVFS glue | `src/esdb_zipvfs.cpp` | registry of (codec, level) file systems | VFS selection, registration, detection of the header |
| Query execution | `src/esdb_runtime.cpp` | none beyond the call | `esdb_query`: binding, stepping, decoding, delivery |
| Typed values | `src/esdb_value.cpp` | immutable | constructors, accessors |
| ExternalObject adapter | `adapters/externalobject/` | 255 slots with generations, a lock per slot | ExtendScript entry points, wire codecs |
| ExtendScript facade | `extendscript/esdb.jsx` | subscription cursors, open handles | wrappers, transaction helper, subscription polling |
| C++ wrapper | `include/esdb/esdb.hpp` | RAII owners | one to one on the C ABI |
| ORM example | `examples/orm/user/` | 63 slots with generations, six prepared statements per handle | `ormOpen`, `ormClose`, the named operations, the generated repository |
| Schema compiler, ORM | `tools/esdb-schema`, `orm/` | none (offline) | translation to SQL and source text |

How they interact. The facade calls the adapter, the adapter the C ABI, and
the runtime, migrations and ObjectStore all issue SQL on one `sqlite3`
connection. They share `esdb_database`: the ObjectStore opens its own
transaction or a savepoint inside the caller's, and writes the transaction
flags the runtime reads. Connections of one or several processes meet in the
database file. The process-memory Store shares nothing with SQLite; its threads
meet in the registry and in each Store's mutex, and its polls call back into
user code that may use the Store again.

What is hard here:

* a mutation is several SQL statements; a crash, an error, a rollback by the
  caller or by SQLite itself may come between any two, and another connection
  may act there;
* state cached outside SQLite (schema flag, transaction flags, savepoint
  names, a version read before the lock) can go stale;
* revisions must never be reused or skipped, whatever is rolled back or pruned;
* names are opened, closed and destroyed by threads that race;
* a bounded journal overtakes slow subscribers; callbacks stop, throw, mutate,
  or poll the subscription that called them;
* a subscription can be polled inside a transaction that is later rolled back;
* host threads close and reuse adapter slots that others are about to enter,
  under two levels of locks;
* opening is a dozen fallible steps without a lock, and the journal mode it
  asks for belongs to a file that others open too;
* a backup retries a lock that may never be released;
* a value crosses five representations between a script and SQLite, with
  parsers written by hand on both sides;
* a prepared statement that is not reset keeps a snapshot open.

`PROJECT.json` lists these at their lines under "hazards", with the properties
that cover them.

What makes each part correct:

* ObjectStore: all or nothing per mutation and per caller's transaction;
  revisions `1..n` without gaps or reuse; records are the replay of the
  changes; an OK is durable; pruning removes only a prefix.
* Process-memory Store: one live Store per name; the journal is exactly the
  history after the floor; no subscriber skips a change without `ESDB_ERR_GAP`.
* Transactions: the flags are what SQLite says; a handle ends only what it
  began; a savepoint operation acts on the savepoint named.
* Migrations: the applied steps are those below `user_version`, which only
  grows; a failed run leaves nothing, and an OK means the whole run.
* Change feed: every committed change reaches a subscription that keeps being
  polled, once.
* Adapter: a token names one database for ever, a call works on that database
  alone and returns, no database is lost, a slot's transaction is its
  database's.
* Facade subscriptions: handlers see each matching change in order, once, and
  an exception loses none.
* Open, health, backup: the database that was asked for or an error with
  nothing left open; a report that was true during the call; a backup that is
  one state of its source; every call returns.
* Typed queries: what is bound is what the script gave, what comes back is what
  SQLite has, what is missing is said to be missing, and a failed call changed
  nothing.
* ORM bridge: a token names one open or nothing; the table holds what the
  answers imply.

## 2. The modules

### ObjectStore

Several connections on one file. An *image* stands for the four tables and
`sqlite_sequence`; a value is named by the revision that wrote it. `disk` is
the committed image, `view[c]` the one inside `c`'s transaction, `save[c]` the
one at `SAVEPOINT __esdb_mutation`. `hist`, `promised` and `acked` are history
variables. `call[c]` is the ObjectStore call in flight with its locals; its
`pc` names the SQL statement to be executed next, so each statement is one
action:

| Code | Actions |
|---|---|
| `ensure_object_store_schema` | `Start`, `Inspect`, `SchemaBegin`, `SchemaCreate`, `SchemaCommit`, `Verify` |
| `begin_/commit_/rollback_store_mutation` | `BeginStoreMutation`, `EndScope`, `UndoScope` |
| `esdb_object_store_put` | `MutationBegin`, `RegisterForPut`, `AppendChange`, `UpsertRow`, `StoreRevision`, `MutationCommit` |
| `esdb_object_store_delete` | `LookupStore`, `MutationBegin`, `RemoveRow`, `AppendChange`, `StoreRevision`, `MutationCommit` |
| `esdb_object_store_ensure`, `_prune_changes` | `LookupStore`, `EnsureStore`; `PruneRows` |
| get, exists, count, scan, revision, changes_since | `ReadRows` |
| `esdb_begin`, `esdb_commit`, `esdb_rollback`, `esdb_close`, process death | `CallerBegin`, `CallerCommit`, `CallerRollback`, `CrashAndReopen` |
| any statement that fails | `StatementFails`, or `SqliteRollsBack` when SQLite drops the transaction |

`esdb_begin` looks at `transaction_active` (`active[c]`) and not at the handles,
and `finish_transaction` at its own handle's flag and nothing else. So a
connection can have several handles that say they are active (`outer[c]`), of
which at most one began the open transaction (`owner[c]`). The history variable
`dropped[c]` has those whose own transaction SQLite ended by itself (or was
ended through such a handle), `misled` whether `esdb_commit` of any other ever
answered OK for a transaction that was not its own.

SQLite is external: one writer, a snapshot per transaction, the refusal to
upgrade a stale snapshot, savepoints, AUTOINCREMENT that fails at its end.
`object_store_write_mutex` and the contract of `docs/ARCHITECTURE.md`
("Concurrency") give a connection one call at a time.

`RevisionedStore` is the abstract specification: a log that only grows, the
records it replays to, a pruned prefix, registered names and acknowledgements
that never run ahead, all moving in one `Commit`. `ObjectStoreRefinement` maps
the committed image to it.

### MemoryStore

One name of `src/esdb_store.cpp`. What runs under a mutex is one step; open and
subscribe are two (count or check, then allocate), a poll is one step for the
snapshot and one for each callback. While a callback runs its thread may also
mutate the Store. A state lives as long as a `shared_ptr` holds it, so a
destroyed Store may coexist with its successor in the model; `OneLiveStore`
says that nobody can hold on to the old one. `retained_floor` is what
`retain_change` writes there: the newest revision that was dropped.

### RuntimeTransaction

One connection's flags, handles and savepoint names next to SQLite's own
transaction and savepoint stack. Each SQLite transaction has a number only the
model sees, so that "the transaction this handle began" can be stated. Calls
are serialised by the caller and are one step each. `RawCommands` selects the
transaction SQL the application passes to `esdb_exec` (or `esdb_query`, which
reconciles in the same way): BEGIN, COMMIT or ROLLBACK, an error that rolls
back, and SAVEPOINT, RELEASE and ROLLBACK TO (`ExecSavepoint`), in a handle's
transaction or in autocommit mode, where SAVEPOINT opens a transaction.
`"restart"` is `COMMIT; BEGIN` in one script, after which the reconciliation
cannot notice anything. The reconciliation looks at the transaction only, so raw
savepoint SQL makes SQLite's stack and the names differ for as long as the
transaction is open; the history variable `mixed` says that this has happened. In `InternalStatementRollsBack` a statement inside an ObjectStore
mutation or `esdb_user_version_set`, whose callers do not reconcile, makes
SQLite roll back. The history variable `unnoticed` remembers both, so that the
invariants can say exactly when the bookkeeping is right. A ROLLBACK that fails
and leaves the transaction open is modelled for `esdb_rollback`
(`FinishStaysOpen`) and for `esdb_transaction_destroy`: the latter frees the
handle all the same, so `active_transaction` then points to freed memory. What a
later reconciliation writes through that pointer is undefined in C++; in the
model it reaches no handle.

### Migration

`esdb_migrate` in several processes: the read of `user_version`, the write
lock, one action for each callback and for each version update, the commit, and
a failure or crash at any point. A callback may also hide from `esdb_migrate`
that SQLite rolled its transaction back (`CallbackSwallowsRollback`): from there
on every statement of the run commits by itself, until the COMMIT finds no
transaction. `lost` marks such a run, `ok` a step that returns `ESDB_OK`. The
history variables `raced` and `swallowed` remember that a run committed while
another was between its read and its BEGIN, and that a rollback was hidden.

### ChangeFeed

ObjectStore subscriptions over the journal of several connections. A mutation
is one step here: the poll copies its rows under `object_store_write_mutex`,
and `ObjectStore` has the statements. `Poll` is `esdb_object_subscription_poll`
up to the snapshot, `Deliver` one callback (which answers continue or stop, or
throws), `PollReturn` the end of the loop, `Finished` the publication of the
cursor. Between callbacks everything else may happen. Revisions that a rollback
gives back, at the end of a transaction or by ROLLBACK TO a savepoint in it, are
told apart by `epoch`, so that "the same revision" can be another change. A
transaction has one savepoint, `saved`: set when it begins, set anew by
`Savepoint`, and returned to by `RollbackTo` any number of times. `Prune` follows the policy the documentation asks of the
application (not past what consumers have acknowledged).

### AdapterSlots

The handle table of the ExternalObject adapter: `slots` is `g_slots`, `table`
the holder of `g_mutex`, `holder` the holder of a slot's `operation_mutex`. A
call looks its token up (`TakeTable`), takes the slot (`TakeSlot`), works and
returns; `openStaged` opens without locks and publishes under the table lock;
`close` keeps both locks; `ESTerminate` goes through the slots one by one.
Databases are numbered in the order they are opened, which lets the properties
say which one a token was issued for. `BeginWork`, `FinishWork`, `QueryWork`
and `StoreWork` say what an entry point can do to the slot's transaction.

### FacadeSubscription

`ObjectSubscription` and `StoreSubscription` of the facade. The polls in
progress form a stack: a handler may write, close the subscription, throw, or
poll the same subscription again. A change is a key (or `AllKeys` for the
process-memory Store's clear) and its revision its position in the journal.
The history variable `nested` remembers that a handler polled again.

### DatabaseFiles

`esdb_open`, `esdb_close`, `esdb_database_health_get` and `esdb_backup_to`, with
the provider selection of `esdb_zipvfs.cpp`. Each caller holds at most one
database; there is no lock of ESDB around these calls, so the steps of callers
interleave.

| Code | Actions |
|---|---|
| `esdb_open` up to `validate_storage_request` | `Open` |
| `storage_vfs_select`, `ensure_zipvfs` | `SelectVfs` with `EnsureZipvfs`, one step under the registry's mutex |
| `sqlite3_open_v2`, `storage_verify_open` | `OpenFile`, `VerifyOpen` |
| `configure_database` | `SetJournal`, `ReadJournal`, `Settings` |
| every error path of `esdb_open` | `OpenFails` |
| `esdb_close`; statements of the application | `Close`; `Use` |
| `esdb_database_health_get` | `HealthRead`, `HealthReport` |
| `esdb_backup_to` | `BackupStart`, `BackupDone`, `BackupBusy`, `BackupFails`, `BackupReturns` |

External: in SQLite WAL is a property of the file, the other journal modes of
the connection; a connection reports the mode it last read; leaving WAL needs
the file for oneself; without shared memory a request for WAL is answered with
the old mode and no error; a connection cannot read a file whose pages have
another format than its own, SQLite's or that of a ZIPVFS codec. `conn[t].mode` is what the
connection reports, `attached` whether it has read the file in WAL mode,
`file[p].wal` the header. `build` is what was compiled in and what the file
system offers. `seen` remembers the states of the file during a call,
`overruled` the callers whose file another caller has moved into or out of WAL
since they set its mode, `formats` (in `conn`) the formats a connection has read
or written. That an application sets another journal mode by SQL of its own is
not modelled.

### ValueWire and TypedQuery

`ValueWire` has the conversions of values as operators named after the
functions they translate: `canonicalInt64`, `utf8ToHex` and `utf8FromHex`,
`encodeStoreValue`, `encodeQueryParameter`, `decodeStoreValue` of the facade,
`parse_i64_decimal`, `make_number_value`, `make_text_value`, `value_wire` and
the patch entries of the adapter, `valid_utf8`, `esdb_query_bind_value` and
`esdb_query_column_value` of the runtime, and the checkers of the ORM example. A
text is a sequence of UTF-16 units or bytes, a decimal a sequence of
characters; doubles are integers and a few named ones (NaN, the infinities, -0,
a fraction, a subnormal). The widths are constants, so that integers of 4 and 8
bits have all their edges within TLC's reach.

`TypedQuery` is one call of `Database.query`: encoding, `querySql` with its
metadata statement, `esdb_query` from `prepare` to `finalize`, the row callback
with the row limit and the byte limit, the reply and its parser, which decodes
the names of the columns as well as the values. The names of a reply count
against the byte limit; if they exceed it the reply will be an error, and the
statement runs all the same (`Metadata`). A step may fail before or after
changes; only FAIL as its conflict resolution (`"update or fail"`) keeps these.
Another connection may change the table's columns until the first step. A scenario
fixes the call and the table (`ScenarioAssumption`: rows and columns are
sequences, a row has every column there may be, and every column a name of bytes
in `NameBytes`); `produced`, `applied` and
`altered` are history. `QueryRoundTrip` says of each single parameter, table
value and column name that the conversions keep it (or refuse it, if it is not UTF-8), `ValuesExact` says it of whole calls.

### OrmBridge

The bridge of the ORM example and the generated repository below it. `g_mutex`
makes each exported call one step; what interleaves is calls on several handles
of one file, and what makes it hard is the state left inside SQLite: a lookup
that found a row leaves its statement active (`reading`), and with it a read
transaction on `snapshot`. A change is computed from the rows its handle sees
(`View`), and SQLite refuses it when these are not the newest. The SQL is
modelled by placeholder position and the binding by name, so that an exchanged
order shows. `issued`, `holder`, `acked` (the rows the answers imply) and `seen`
(the commit a handle was answered from last) are history variables.

### Model-checking and proof modules

The `MC` modules add symmetry sets and constants only; `MCDatabaseFiles` and
`MCTypedQuery` list the options and the calls that are tried. A component's proofs are in its
`...Proofs` module. `SubscriptionProofs` has those of `ChangeFeed` and of
`FacadeSubscription`, `AdapterSlotsProofs` those of `AdapterSlots` and of
`TypedQuery`; the second component is an `INSTANCE` there (`Facade!`, `Query!`).
Operators whose comment begins "Mutant of" are faulty variants of the operator
below them. They are used by no specification; putting one in the place of its
original shows that the property named in `PROJECT.json` notices the fault.

## 3. The runs

Passing runs:

| Run | Instance | What it shows |
|---|---|---|
| `objectstore` | two connections, one key, two revisions, two handles that say they are active | coherent metadata, contiguous history, suffix journal, durable acknowledgements; `esdb_commit` answers OK for another handle's transaction only after SQLite ended its own; the committed image implements `RevisionedStore`, whose records replay a log that only grows |
| `memory_store` | two threads, one subscription, two keys, capacity 2, three revisions | one live Store, exact journal window (a gap is reported when history is missing, and only then), records that replay the log, no silent loss, cursors that never go back |
| `transactions` | two handles, two names, depth 3, every raw command, raw savepoints included | flags are SQLite's, and finishing a handle ends the transaction it began, until a transaction ends where nobody looks; the savepoint names are SQLite's too, but for a transaction whose savepoints raw SQL has changed; even after an unnoticed end an open transaction is never hidden and, without raw savepoints, a savepoint operation never reaches an outer savepoint |
| `migrations` | four builds at once (targets 2, 3, 5, and one with a missing step), one hidden rollback | only whole runs are committed; the steps follow the version, which therefore only grows, unless a run commits between another's read and its BEGIN; a run that lost its transaction is not reported as done |
| `change_feed` | two connections, two stores, two revisions, one subscription, one rollback that gives revisions back (whole or to a savepoint) | nothing is delivered twice; only a subscription that was shown a change that never committed can miss one, and only up to its revision; every committed change is delivered (liveness) |
| `adapter_slots` | two threads, two slots of two generations, three databases, eight calls, any old token | calls, tokens, slots, transactions and databases stay together; every call returns (liveness) |
| `facade_polls` | four changes, polls three deep | nothing is skipped; without nested polls, in order and once |
| `database_files` | two callers, one file, eleven option sets, three builds, one retry | no connection leaks; a database is handed out in the journal mode asked for, connection and file, and stays in it until another caller moves the file into or out of WAL; registry and SQLite name the same file systems; pages are read and written in the format of the open only, also in a file that was empty at the verification; health reports a mode the file had; a backup is a state of its source; every call returns (liveness) |
| `orm_bridge` | three slots of two generations, three opens, two users, names and emails, a file with one row or none, two commits | tokens, slots and connections stay together; rows are what the answers imply, no change is lost to one made from an older snapshot; what a handle is answered never goes back, and a handle on the newest commit sees the file's rows |
| `typed_query` | 4- and 8-bit integers, every value and text at an edge, tables of up to three rows, column names too long or ill-formed, another schema in between | values, parameters and names are exact; truncation is reported; names, change counts and failures are truthful but for the exceptions below; the parsers of the three layers agree |

Several properties are conjunctions of named parts, which their module states
one by one:

| Property | Parts |
|---|---|
| `ContentIsHistory` (`MemoryStore`) | `JournalWindow`, `RecordsReplayLog` |
| `BookkeepingTruthful`, `StaleBookkeepingIsSafe` (`RuntimeTransaction`) | `FlagsTruthful`, `SavepointsMirrorSqlite`, `FinishEndsOwnTransaction`; `OpenTransactionIsKnown`, `StackIsInnerNames` |
| `DeliveredOnce` (`ChangeFeed`) | `LossIsProvisional`, `NoRedelivery` |
| `TableConsistent` (`AdapterSlots`) | `NoDatabaseLost`, `TransactionOfItsDatabase` |
| `HandledInOrder` (`FacadeSubscription`) | `NothingSkipped`, `HandledOnce` |
| `OpenAllOrNothing` (`DatabaseFiles`) | `NoConnectionLeaked`, `NamedVfsExists`, `GrantedAsRequested` (mode of connection and file), `CompressedIsCompressed` (formats of the pages) |
| `HandlesOwnOpens` (`OrmBridge`) | `TokenNamesItsOpen`, `NoConnectionLeaked` |
| `ValuesExact`, `OutcomeTruthful`, `CodecsAgree` (`TypedQuery`) | `ParametersExact`, `RowsExact`; `TruncationReported`, `NamesOfTheRows`, `ChangesAreOwn`, `FailureChangesNothing`; `Utf8Agreed`, `DecimalsAgreed`, `StoreRoundTrip`, `QueryRoundTrip` |

Runs that end in a violation, each a disagreement between code and text:

| Run | What it shows |
|---|---|
| `schema_flag` | begin, first ObjectStore call, rollback: `object_store_schema_ready` stays set and later calls fail, although `ensure` "creates the shared Store schema on first use ... Idempotent" |
| `stale_version` | two migrators read the same `user_version` before either takes the lock; steps are applied twice, and an older build may set the version back |

Disagreements and remarks without a run of their own. The properties state what
the code does and name the exception, if there is one; the first four are listed
under "findings" too, and each run named there violates its property as soon as
the exception (for the last, the code's value) is replaced by what the text says.

* A rollback by SQLite inside a nested ObjectStore mutation leaves the handle
  active. A standalone mutation then clears `transaction_active`, `esdb_begin`
  gives out a second handle, and `esdb_commit` of the first commits the second's
  transaction and answers OK for changes that are gone, although
  `docs/STORE.md:106` makes a revision "provisional until the outer commit".
  `AckedIsDurable` excepts it by `dropped`, `FinishEndsOwnTransaction` by
  `unnoticed`.
* `esdb.h:307-309` promises that savepoint calls whose name does not "match the
  top of the savepoint stack" fail. The check is against the names alone: after
  a raw SAVEPOINT, RELEASE or ROLLBACK TO a call can act on another savepoint
  (`mixed` in `SavepointsMirrorSqlite` and `StackIsInnerNames`).
* `docs/ORM_ARCHITECTURE.md` promises "No hidden transactions" (915) and that
  "Generated helpers do not open implicit transactions" (604), but `find_by_id`
  and `find_by_email` return without resetting a statement that found a row.
  Until that lookup is repeated, the handle has a read transaction: it reads an
  old snapshot once another handle has committed, and its writes fail.
  `AnswersGoForward` states what remains true; that a handle sees the newest
  commit is not.
* `retained_floor` of the process-memory Store is the newest dropped revision (0
  while none was dropped), not "its oldest retained revision" as
  `docs/STORE.md:79` has it; `JournalWindow` states what the code does.
* `lock_slot` of the adapter waits for a busy slot with the table lock in its
  hand, so that a call on another handle waits too; its comment says that "a
  busy database never serializes unrelated handles". `CallReturns` holds all the
  same.
* A COMMIT that fails after SQLite dropped the transaction leaves the adapter's
  slot with an inactive transaction: `transactionActive` is false,
  `transactionBegin` refuses because one "is already active".
* The column names of a query's reply come from a statement of their own and
  can be those of before a schema change (`altered` in `NamesOfTheRows`).
* Five calls fail, and their change is made (`FailureChangesNothing`): the
  columns were changed meanwhile; the names of the columns exceed the limit of a
  reply (documented in `docs/ABI.md`, but `esdb_query` runs all the same); a
  name is not UTF-8 (the script's parser throws); a text of `UPDATE ...
  RETURNING` is not UTF-8; a step of a statement with OR FAIL fails.
* A subnormal number is refused as a SQL parameter and in a Store patch, and
  accepted by Store.set (`StoreRoundTrip`): `strtod` reports ERANGE.
* The change count of a DDL statement is that of an earlier statement
  (`ChangesAreOwn`).
* A migration callback that swallows a rollback lets later steps commit one by
  one (`lost` in `RunIsWhole`); the call still fails (`OkMeansWhole`).
* A facade handler that polls its own subscription makes the outer poll set the
  cursor back and deliver again, where the native Store answers `ESDB_ERR_BUSY`;
  `HandledOnce` of `FacadeSubscription` excepts it.

Bounds. Two connections or threads are enough for every pairwise race, and each
of them can crash or fail at any of its statements; the symmetry sets permute
them, or keys or names of which no action singles one out. Two revisions let
the domain run out, one be rolled back and given again, the journal be pruned
empty and continued, and a key be overwritten or deleted. Capacity 2 below
three revisions makes the journal overflow, also within one patch. `MaxStates`
2 is a Store and its successor. Depth 3 over two names nests equal names.
`MaxTx` 4 lets two handles and two raw transactions alternate; `MaxStack` 2 lets raw
savepoints nest, inside and outside those of the calls. `MaxHandles` 2 of the
ObjectStore is one handle that is out of date and one that is not, on either connection. `MaxApplied` 8
is more than one full run of steps, so that racing runs can repeat each
other's, and one hidden rollback (`MaxSwallowed`) leaves runs that go on
without a transaction among runs that have one. `MaxEpoch` 1 is one rollback,
of a transaction or to its savepoint, after which revisions are given again. One retry (`MaxRetries`, 200 in the
code) has all three cases of the backup loop: try, try again, give up. The
option sets of `MCDatabaseFiles` are refused at each stage of the validation or
reach each branch of `configure_database`; two contents let a backup run across
a write. Two commits let an ORM handle lag behind, and be behind again after it
caught up. In `typed_query` every edge of the integer types, of UTF-8 and of
the hexadecimal and decimal forms is a value of its own; three rows under
`max_rows` 0 to 2 and a reply of 15 units, the names' included, meet each limit before, at and after a
row. Two slots and two generations with three opens reach reuse, retirement and
exhaustion of the adapter's table; the bridge has three slots, the least its
encoding allows at two bits, and three opens fill them. `Filters` leaves out
the second store's filter, which behaves like the first's. `MaxCalls` counts
calls, so adapter behaviours end; a typed query ends with its result; facade
behaviours end with a closed subscription and a full journal; migrations when
all versions are at their targets. Deadlock is not checked there, and is
everywhere else.

Fairness. The storage layers retry nothing on their own (SQLite's busy handler
ends in an error that the caller gets; the backup loop is the exception), so most
runs assume none. Three liveness
properties are stated:

* `EventuallyDelivered` is conditional on the host: it ends its transactions
  (weak fairness of commit or rollback), it keeps polling, its callbacks
  return, and they do not make every poll fail (strong fairness of a poll's
  successful return). No native thread delivers anything, so nothing weaker
  than a polling host will do.
* `CallReturns` assumes weak fairness of a thread inside a call: a lock that
  stays free is granted, and database work ends, which the busy timeout
  justifies. A mutex need not be fair between threads that overtake each other
  for ever; `MaxCalls` excludes that.
* `CallReturns` of `DatabaseFiles` assumes weak fairness of a caller inside a
  call. No step of these calls waits for another caller: a lock is an error of
  SQLite after its timeout, and the only loop, that of the backup, counts its
  retries. What is shown is that this count ends the loop whoever keeps the
  lock.

## 4. The proofs

Every theorem but `BlobsSurvive` is of the form `Spec => []P` or
`Spec => [][A]_v` and holds for every value of the constants, so the bounds of section 3 do not apply: any
number of connections, threads, slots, files, keys, migrators, and any limit.
Each follows from an inductive invariant (`IInv`; `AllInv` of `ObjectStore`,
`FeedInv`, `FacadeInv`, `QueryInv`) that TLC has checked on the instances of
section 3 before it was proved.
What is assumed of the constants is stated in the component's module as named
`ASSUME`s: limits are natural numbers (a table has at least one slot, a ring a
capacity of at least one), and the values that mean "none" are not members of
the sets they are absent from. `PowerAssumption` of `OrmBridge` is a truth of
arithmetic, stated because the provers do not evaluate powers.
`StepsAssumption` and `RequestAssumption` say what type the migrations and the
open options have. The assumptions of a component that is an `INSTANCE`
(`FacadeAssumption`, `LimitAssumption` and `ScenarioAssumption` of `TypedQuery`)
are hypotheses of its theorems; TLC evaluates them like the others.

Each action has a lemma of its own; what an action of one actor leaves of the
others is a lemma used by all (`CombineTypes`, `CombineCoherence`, `StepKeeps`,
`RunOfOther`).

### ObjectStore

* `TypeCorrect` (`TypeOK`). `TypeOK` alone is not inductive: the row that
  `AppendChange` inserts is built from the call's locals. `CallOK` adds what
  these are at each step, and `TypeInv` is inductive.
* `MetadataCoherent` (`RevisionMetadataCoherent`). Between the change row and
  the metadata row a transaction's image *is* incoherent. `ImagesOK` says that
  this is the only place, what is missing there, and that the image at the
  savepoint is coherent. `ScopeOK` says that a scope never runs in autocommit
  mode, which is why no write of a scope reaches the file on its own.
* `HistoryIsContiguous`, `PruneLeavesSuffix`, `AcknowledgedIsDurable`
  (`HistoryContiguous`, `JournalIsSuffix`, `AckedIsDurable`). `HistoryInv` is
  about images: every image there is (committed, in a transaction, at a
  savepoint) has a good history and, except between the two statements of a
  mutation, the records that history produces. A writer's image continues the
  committed one, because SQLite gave it the lock on the current image and
  nobody else commits while it is held. So a commit only moves the committed
  image forward, which is `CommittedMovesForward`. `OwnerInv` says that of the
  handles that say they are active only the one that began the open transaction
  is not in `dropped`; so `esdb_commit` of a handle that is not commits that
  handle's own transaction.
* `Implements` (`ImplementsRevisionedStore`): the refinement, step by step. A
  COMMIT or a statement in autocommit mode is an abstract `Commit`, everything
  else a stutter.

### ChangeFeed

`FeedTypes`, `EachChangeOnce` (`DeliveredOnce`), `CursorNeverGoesBack`.
`DeliveredOnce` speaks of committed changes, but a subscription on the writing
connection is shown rows before they are committed, and a rollback, also one to
a savepoint, gives their revisions to other rows. What may still be committed is
in the history, in a transaction, or in the image of its savepoint (`Current`). `FeedInv` therefore sorts the rows a subscription was
shown (`Known`): committed, dead (rolled back, or pruned by the transaction that
wrote them), or of the transaction its connection has open. Every change behind
the cursor that is committed, or may be, was seen, or a dead row at or above it
was (`Covered`): this is what "only a subscription that was shown a change that
never committed can miss one" needs to be inductive. The rest of a poll's
snapshot has no gap (`Whole`), also when others write, prune or roll back
between two callbacks, and a revision given out again lies behind everything
that is not dead (`Fresh`).

### FacadeSubscription

`FacadeTypes`, `ScriptGetsEachChange` (`HandledInOrder`),
`CursorOnlyBackByNesting`. Each poll of the stack has a window of the journal,
and everything before its position has been handled (`FrameOK`); a window that
an inner poll overtook stays true, because the outer poll sets the cursor to a
change it has handled. Until a handler polls, the one poll there is stands right
behind the cursor (`PlainOK`), which is why nothing is handled twice.

### TypedQuery

`CallTypes`, `RepliesAddUp`, `CallsAreExact` (`ValuesExact`),
`OutcomesAreTruthful` (`OutcomeTruthful`), `BlobsSurvive`. `QueryInv` relates
the three things that are filled row by row: the rows delivered are the first of
the statement's (`Page`), the rows still to come are the others (`Rest`), and
the count says where the one ends and the other begins, through decoding errors,
the row limit and the byte limit. Names and number of columns come from two
statements and agree unless `altered`; every cell comes from the table or from a
parameter (`CellsOK`).

`RepliesAddUp` needs nothing of the conversions: truncation, names, change
counts, and that a failing call whose change stays fails for one of the five
reasons of section 3 (`Explained`). `CallsAreExact` and `OutcomesAreTruthful` have `QueryRoundTrip` as a
hypothesis about the initial state: if each parameter and each table value
survives its conversions alone, whole calls do, however they are cut and
whoever changes the columns. The hypothesis holds in every scenario of
`typed_query` (TLC checks it as a part of `CodecsAgree`), and `BlobsSurvive`
proves its blob case for every length and content; the decimal and UTF-8 cases
take an induction over data.

### MemoryStore

`StoreTypes`, `NobodyLeftBehind` (`OneLiveStore`), `StoreIsItsHistory`
(`ContentIsHistory`), `NothingSkipped` (`NoSilentLoss`), `CursorsMoveForward`
(`CursorNeverRegresses`). `OneLiveStore` rests on `CountInv`: the counts that
`esdb_store_destroy` checks are the numbers of handles, of opens under way and
of subscriptions (cardinalities of sets). `NoSilentLoss` rests on `PollOK`: the
snapshot of a poll that has left the mutex is the part of the history behind
its cursor, and nobody else moves that cursor. That the records are the replay
of the history is shown by induction over the steps of the system, one change at
a time.

### RuntimeTransaction

`TransactionTypes`, `BookkeepingStaysTruthful` (`BookkeepingTruthful`),
`StaleIsSafe` (`StaleBookkeepingIsSafe`), `HandleNeverRevives`. The invariant
adds that a transaction's number is given once (`RestOK`), that a transaction a
SAVEPOINT opened exists only after an unnoticed end or with raw savepoints, that
`mixed` does not outlive its transaction, and that an open transaction is always
known to the flags.

### Migration

`MigrationTypes`, `HistoryFollowsVersion` (`StepsFollowVersionUnlessRaced`),
`DatabaseChangesByWholeRuns` (`RunIsWhole`), `OkIsTheWholeRun` (`OkMeansWhole`).
`RunInv` says that the image of a run in progress is the committed history
followed by the steps from the version it read (`Continues`); it is inductive
because a run in a transaction has the lock (`LockInv`), and the statements of a
run that lost its transaction need the lock to be free. `CleanInv` is the part
that a race breaks: a run between its read and its BEGIN knows the version of
the database.

### AdapterSlots

`SlotTypes`, `CallsWorkOnTheirDatabase` (`WorksOnItsDatabase`),
`TableStaysConsistent` (`TableConsistent`), `StaleTokenStaysStale`. `TokenInv`
says what the generations guarantee (a token of the current generation was
issued for the database the slot has), `LockInv` and `CallInv` what the two
mutexes guarantee (from the lookup of `lock_slot` to the end of the call one of
them is held, and close and `ESTerminate` need both).

### DatabaseFiles

`FileTypes`, `OpenIsAllOrNothing` (`OpenAllOrNothing`), `HealthIsOfTheFile`
(`HealthReportsTheFile`), `BackupIsOfTheCall` (`BackupIsSnapshot`); all from
`FairSpec`, without using its fairness. No lock protects these calls, so the
invariant is what a step of a caller leaves true under every step of another:
`PhaseInv` (a connection belongs to a database or to an open that is not over),
`ModeInv` (past the comparison of the journal mode, connection and file have the
mode asked for until another caller overrules it, and nobody takes a file out of
WAL under a connection that has read it in WAL mode), `FileInv` (a file that is
open exists, and a connection has read and written pages of its own format only,
which the file keeps), `SeenInv` (a watched file is in the history of the call as
it is now).

### OrmBridge

`BridgeTypes`, `HandlesStayOwn` (`HandlesOwnOpens`), `RowsMatchAnswers`
(`AnswersMatchRows`), `AnswersForward` (`AnswersGoForward`),
`ClosedHandleStaysClosed`. `TokenInv` relates the generations of all tokens ever
returned for a slot: a free slot's next generation is larger than all of them,
and a retired slot is never used again. `SnapshotInv` says that a snapshot as new
as the file has the file's rows, which is why a change that SQLite lets through
loses none that was answered, and that a snapshot is no older than the last answer.

### Only model-checked

* Liveness under fairness is out of the prover's reach: `EventuallyDelivered`
  of `ChangeFeed`, `CallReturns` of `AdapterSlots` and of `DatabaseFiles`.
* `CodecsAgree` of `TypedQuery`: what the conversions of `ValueWire` compute.
  They are recursive functions and folds over digits and bytes, and what these
  compute for every input takes an induction over data that is out of reach.
  That is also why `ValuesExact` and `OutcomeTruthful` are proved from
  `QueryRoundTrip`, blobs excepted.

## 5. Not modelled, and the plan

Not modelled: SQLite beyond its use; the compress and decompress callbacks of
the ZIPVFS codecs (calls into zlib and Zstd on one page); the C++ wrapper, whose
methods are single calls of the C ABI; the adapter's last-error state, record
wires and process-memory Store entry points; the facade's transaction helper and
adapter loading; the offline schema compiler and ORM generators (batch
translation of text, no state); the benchmarks. `sqlite3_exec` of the schema
script is one step, since it runs inside a scope. `esdb_integrity_check` reads
and is part of `Use`. A failed allocation in the process-memory Store has no
action of its own, since put restores the record, patch drops its copies, and
delete and clear append the change first; nor has one in the ORM bridge's reply,
after a slot was taken or a change committed (the caller is told of a failure,
and the bridge has no way back).

Order of the work, most important behaviour first (1 to 11 are done):

1. `ObjectStore`, `RevisionedStore`, the refinement; runs.
2. `MemoryStore`.
3. `RuntimeTransaction`.
4. `Migration`, with callbacks that hide a rollback.
5. `ChangeFeed`.
6. `AdapterSlots`.
7. `FacadeSubscription`.
8. `DatabaseFiles`.
9. `ValueWire` and `TypedQuery`.
10. `OrmBridge`.
11. Proofs of the safety properties of all of them, the refinement of
    `RevisionedStore` included.
12. The facade's `transaction` helper over the adapter's transaction entry
    points, and adapter loading and unloading.
