----------------------------- MODULE OrmBridge -----------------------------
(***************************************************************************)
(* The project bridge of the ORM example (user_orm_bridge.cpp) on top of    *)
(* the generated C++ repository (user_repository.hpp).                      *)
(*                                                                         *)
(* Every exported function runs under g_mutex from its first line to its    *)
(* reply, so one action stands for one call.  What interleaves is the       *)
(* sequence of calls on several handles, and what makes it hard is the      *)
(* state a call leaves behind inside SQLite: a lookup that found a row      *)
(* returns without resetting its statement, the statement stays active and  *)
(* with it a read transaction, and later calls on that handle run in that   *)
(* snapshot.  All handles of the model are open on one database file, in    *)
(* WAL mode as ormOpen asks.                                                *)
(*                                                                         *)
(* A row's created_at is carried exactly like its name and is left out.     *)
(***************************************************************************)
EXTENDS Integers, Sequences, FiniteSets

CONSTANTS
    kSlotBits,        \* width of the slot field of a handle
    kGenerationMax,   \* the last generation a slot may use
    Id, Name, Email,  \* parameter values that pass the U1 lane grammar
    NoRow,            \* the absence of a row
    Tables,           \* the rows a table may have when the process starts
    MaxOpens,         \* bound: successful ormOpen calls
    MaxCommits        \* bound: commits that change the file

ASSUME SlotAssumption == kSlotBits \in Nat \ {0} /\ kGenerationMax \in Nat \ {0}
\* A truth of arithmetic, stated because the provers do not evaluate powers.
ASSUME PowerAssumption == 2 ^ kSlotBits \in Nat /\ 2 ^ kSlotBits > 1
ASSUME RowAssumption == NoRow \notin [name : Name, email : Email]
ASSUME TableAssumption == Tables \subseteq [Id -> [name : Name, email : Email] \cup {NoRow}]
ASSUME BoundAssumption == MaxOpens \in Nat /\ MaxCommits \in Nat

VARIABLES
    slots,        \* g_slots: in_use, retired, generation of every slot
    g_last_error, \* the last error reply: none, refused by the bridge (bad
                  \* arguments, invalid object), or failed below it (no file, i/o)
    file,         \* the database file: user_version, whether the table
                  \* exists, its rows, and how often they changed
    reading,      \* per slot, the lookup statements that are active
    snapshot,     \* per slot, what its read transaction sees
    connections,  \* open SQLite connections of the process
    issued,       \* history: the tokens ormOpen returned, in order
    holder,       \* history: per slot, the index in issued of its handle
    acked,        \* history: the rows there were, and what the answers imply
    seen          \* history: per slot, the commit its last answer came from

vars == <<slots, g_last_error, file, reading, snapshot, connections,
          issued, holder, acked, seen>>

---------------------------------------------------------------------------
(* Handles.                                                                *)

kSlotCount == 2 ^ kSlotBits - 1
Index == 0 .. kSlotCount - 1
NoSlot == -1
Target == 1                        \* target_version() of the migrations
Lookups == {"find_by_email", "find_by_id"}
Row == [name : Name, email : Email]
Users == [Id -> Row \cup {NoRow}]
EmptyUsers == [id \in Id |-> NoRow]
Errors == {"none", "refused", "failed"}

EncodeHandle(i, generation) == generation * 2 ^ kSlotBits + i + 1

\* decode_handle and slot_for_handle: the slot a token names, if the slot
\* still holds the database the token was issued for.
SlotForHandle(token) ==
    LET encoded == token % 2 ^ kSlotBits
        generation == token \div 2 ^ kSlotBits
    IN  IF /\ token > 0
           /\ encoded # 0
           /\ generation \in 1 .. kGenerationMax
           /\ slots[encoded - 1].in_use
           /\ ~slots[encoded - 1].retired
           /\ slots[encoded - 1].generation = generation
        THEN encoded - 1
        ELSE NoSlot

\* Mutant of Released: the generation wraps.
ReleasedWraps(slot) ==
    [slot EXCEPT !.in_use = FALSE,
                 !.generation = IF @ >= kGenerationMax THEN 1 ELSE @ + 1]

\* Mutant of Released: a slot is never retired.
ReleasedForever(slot) ==
    [slot EXCEPT !.in_use = FALSE, !.generation = @ + 1]

\* release_slot: a generation is never wrapped, the last one retires the slot.
Released(slot) ==
    IF slot.generation >= kGenerationMax
    THEN [slot EXCEPT !.in_use = FALSE, !.retired = TRUE]
    ELSE [slot EXCEPT !.in_use = FALSE, !.generation = @ + 1]

---------------------------------------------------------------------------
(* SQLite as the repository uses it.  A connection without an active       *)
(* statement reads the file, one with an active statement reads the        *)
(* snapshot that statement began.                                          *)

Stale(i) == reading[i] # {} /\ snapshot[i].commits # file.commits

\* What slot i sees once the given statement has been reset.
ViewAfterReset(i, statement) ==
    IF reading[i] \ {statement} = {}
    THEN [users |-> file.users, commits |-> file.commits]
    ELSE snapshot[i]

\* What slot i sees with every statement that is active.
View(i) == ViewAfterReset(i, "none")

\* The generated SQL, by placeholder position.
SqlInsert(users, p) == [users EXCEPT ![p[1]] = [name |-> p[2], email |-> p[3]]]
SqlUpdateName(users, p) ==
    [id \in Id |-> IF id = p[2] /\ users[id] # NoRow
                   THEN [users[id] EXCEPT !.name = p[1]] ELSE users[id]]
SqlDelete(users, p) == [id \in Id |-> IF id = p[1] THEN NoRow ELSE users[id]]

SqlWhere(users, lookup, arg) ==
    {id \in Id : users[id] # NoRow /\ arg = IF lookup = "find_by_id"
                                            THEN id ELSE users[id].email}

\* PRIMARY KEY of id and UNIQUE INDEX of email.
InsertAllowed(users, p) ==
    /\ users[p[1]] = NoRow
    /\ \A id \in Id : users[id] # NoRow => users[id].email # p[3]

---------------------------------------------------------------------------
(* Repository operations.  A statement is reset when it is used next,      *)
(* never when it returns.                                                  *)

\* Mutant of BindUpdateName: the order of the API instead of the SQL's.
BindUpdateInApiOrder(id, name) == <<id, name>>

\* bind_* of the three changing operations: parameters by name to positions.
BindInsert(id, name, email) == <<id, name, email>>
BindUpdateName(id, name) == <<name, id>>
BindDelete(id) == <<id>>

\* The statement runs to SQLITE_DONE in a transaction of its own: the rows
\* become those of what the connection saw, changed.
Committed(i, after, answered) ==
    /\ LET changed == after # file.users
           commits == IF changed THEN file.commits + 1 ELSE file.commits
       IN  /\ commits <= MaxCommits
           /\ file' = [file EXCEPT !.users = after, !.commits = commits]
           /\ snapshot' = IF reading[i] = {} THEN snapshot
                          ELSE [snapshot EXCEPT ![i] = [users |-> after, commits |-> commits]]
           /\ seen' = [seen EXCEPT ![i] = commits]
    /\ acked' = answered
    /\ UNCHANGED g_last_error

\* Or it fails without effect.
NotCommitted ==
    /\ g_last_error' = "failed"
    /\ UNCHANGED <<file, snapshot, seen, acked>>

\* Mutant of FinishChanges: a snapshot that is not the newest is written from.
FinishChangesFromStale(i, allowed, after, answered) ==
    \/ allowed /\ Committed(i, after, answered)
    \/ NotCommitted

\* finish_changes.  SQLite refuses to begin a write from a snapshot that is no
\* longer the newest.
FinishChanges(i, allowed, after, answered) ==
    \/ allowed /\ ~Stale(i) /\ Committed(i, after, answered)
    \/ NotCommitted

\* find_by_id and find_by_email: step once, copy the row if there is one, and
\* return.  SQLITE_ROW leaves the statement active, SQLITE_DONE does not.
StepOnce(i, lookup, arg) ==
    LET view == ViewAfterReset(i, lookup)
        found == SqlWhere(view.users, lookup, arg) # {}
    IN  /\ reading' = [reading EXCEPT ![i] = IF found THEN @ \cup {lookup}
                                                       ELSE @ \ {lookup}]
        /\ snapshot' = IF found THEN [snapshot EXCEPT ![i] = view] ELSE snapshot
        /\ seen' = [seen EXCEPT ![i] = view.commits]
        /\ UNCHANGED g_last_error

\* A bind or a step that fails leaves the statement reset.
StepFails(i, lookup) ==
    /\ reading' = [reading EXCEPT ![i] = @ \ {lookup}]
    /\ g_last_error' = "failed"
    /\ UNCHANGED <<snapshot, seen>>

\* list steps until SQLITE_DONE: whatever it read, its statement has ended.
StepToDone(i) ==
    /\ \/ seen' = [seen EXCEPT ![i] = View(i).commits] /\ UNCHANGED g_last_error
       \/ UNCHANGED seen /\ g_last_error' = "failed"
    /\ UNCHANGED <<reading, snapshot>>

---------------------------------------------------------------------------
(* Lifecycle calls.                                                        *)

TableVars == <<slots, connections, issued, holder>>

\* ormOpen up to a usable repository: esdb_open, the migrations, the check of
\* user_version and the preparation of every statement.
Migrated == IF file.user_version = 0
            THEN [file EXCEPT !.user_version = Target, !.has_table = TRUE]
            ELSE file

CanMigrate ==
    \/ file.user_version = Target
    \/ file.user_version = 0 /\ ~file.has_table

Free == {i \in Index : ~slots[i].in_use /\ ~slots[i].retired}

\* ormOpen when a slot is free: the first one takes the database.
OrmOpen ==
    /\ CanMigrate /\ Migrated.has_table
    /\ Free # {}
    /\ Len(issued) < MaxOpens
    /\ LET i == CHOOSE j \in Free : \A k \in Free : j <= k
           generation == IF slots[i].generation = 0 THEN 1 ELSE slots[i].generation
       IN  /\ slots' = [slots EXCEPT ![i].in_use = TRUE,
                                     ![i].generation = generation]
           /\ issued' = Append(issued, EncodeHandle(i, generation))
           /\ holder' = [holder EXCEPT ![i] = Len(issued) + 1]
           /\ seen' = [seen EXCEPT ![i] = file.commits]
    /\ file' = Migrated
    /\ connections' = connections + 1
    /\ UNCHANGED <<g_last_error, reading, snapshot, acked>>

\* ormOpen when the database opened and no slot is free: both are given back.
OrmOpenExhausted ==
    /\ CanMigrate /\ Migrated.has_table
    /\ Free = {}
    /\ file' = Migrated
    /\ connections' = connections
    /\ g_last_error' = "failed"
    /\ UNCHANGED <<slots, reading, snapshot, issued, holder, acked, seen>>

\* ormOpen that fails in esdb_open, in the migration (rolled back as a whole),
\* in the check of the version, or when a statement cannot be prepared: the
\* migration may have been committed by then, the connection is closed.
OrmOpenFails ==
    /\ \/ UNCHANGED file
       \/ CanMigrate /\ file' = Migrated
    /\ g_last_error' = "failed"
    /\ UNCHANGED <<slots, connections, reading, snapshot, issued, holder, acked,
                   seen>>

\* Mutant of Close: the statements outlive the database.
CloseKeepsStatements(S) ==
    /\ slots' = [i \in Index |-> IF i \in S THEN Released(slots[i]) ELSE slots[i]]
    /\ holder' = [i \in Index |-> IF i \in S THEN 0 ELSE holder[i]]
    /\ connections' = connections - Cardinality(S)
    /\ UNCHANGED <<file, reading, snapshot, issued, acked, seen>>

\* The statements are finalized with the repository, then the database closes.
Close(S) ==
    /\ slots' = [i \in Index |-> IF i \in S THEN Released(slots[i]) ELSE slots[i]]
    /\ reading' = [i \in Index |-> IF i \in S THEN {} ELSE reading[i]]
    /\ holder' = [i \in Index |-> IF i \in S THEN 0 ELSE holder[i]]
    /\ connections' = connections - Cardinality(S)
    /\ UNCHANGED <<file, snapshot, issued, acked, seen>>

OrmClose(token) ==
    /\ SlotForHandle(token) # NoSlot
    /\ Close({SlotForHandle(token)})
    /\ UNCHANGED g_last_error

\* ESTerminate closes every remaining handle and forgets the last error.
Terminate ==
    /\ Close({i \in Index : slots[i].in_use})
    /\ g_last_error' = "none"

\* A call whose arguments do not match the signature or their lanes, or whose
\* token names no open database, is answered with an error.
Refused(token) ==
    /\ g_last_error' = "refused"
    /\ UNCHANGED <<slots, file, reading, snapshot, connections, issued, holder,
                   acked, seen>>

---------------------------------------------------------------------------
(* Named operations on the handle a token names.  The parameters are       *)
(* looked up by name; what the caller asked for is what acked records.     *)

UserInsert(i, id, name, email) ==
    LET p == BindInsert(id, name, email)
        users == View(i).users
    IN  /\ FinishChanges(i, InsertAllowed(users, p), SqlInsert(users, p),
                         [acked EXCEPT ![id] = [name |-> name, email |-> email]])
        /\ UNCHANGED <<TableVars, reading>>

UserUpdateName(i, id, name) ==
    /\ FinishChanges(i, TRUE, SqlUpdateName(View(i).users, BindUpdateName(id, name)),
                     IF acked[id] = NoRow THEN acked
                     ELSE [acked EXCEPT ![id].name = name])
    /\ UNCHANGED <<TableVars, reading>>

UserDeleteById(i, id) ==
    /\ FinishChanges(i, TRUE, SqlDelete(View(i).users, BindDelete(id)),
                     [acked EXCEPT ![id] = NoRow])
    /\ UNCHANGED <<TableVars, reading>>

UserFindById(i, id) ==
    /\ \/ StepOnce(i, "find_by_id", id)
       \/ StepFails(i, "find_by_id")
    /\ UNCHANGED <<TableVars, file, acked>>

UserFindByEmail(i, email) ==
    /\ \/ StepOnce(i, "find_by_email", email)
       \/ StepFails(i, "find_by_email")
    /\ UNCHANGED <<TableVars, file, acked>>

UserList(i) ==
    /\ StepToDone(i)
    /\ UNCHANGED <<TableVars, file, acked>>

Named(i) ==
    \/ \E id \in Id, name \in Name, email \in Email : UserInsert(i, id, name, email)
    \/ \E id \in Id, name \in Name : UserUpdateName(i, id, name)
    \/ \E id \in Id : UserDeleteById(i, id)
    \/ \E id \in Id : UserFindById(i, id)
    \/ \E email \in Email : UserFindByEmail(i, email)
    \/ UserList(i)

---------------------------------------------------------------------------
(* The file may be new, migrated, from a newer build, or a foreign one     *)
(* that has the version and not the table; a table may have rows.          *)

Init ==
    /\ slots = [i \in Index |-> [in_use |-> FALSE, retired |-> FALSE, generation |-> 0]]
    /\ g_last_error = "none"
    /\ file \in [user_version : 0 .. Target + 1, has_table : BOOLEAN,
                 users : Tables \cup {EmptyUsers}, commits : {0}]
    /\ IF file.has_table THEN file.users \in Tables ELSE file.users = EmptyUsers
    /\ reading = [i \in Index |-> {}]
    /\ snapshot = [i \in Index |-> [users |-> EmptyUsers, commits |-> 0]]
    /\ connections = 0
    /\ issued = <<>>
    /\ holder = [i \in Index |-> 0]
    /\ acked = file.users
    /\ seen = [i \in Index |-> 0]

\* Tokens a caller may present: those it was given, and one it was not.
Tokens == {0} \cup {issued[k] : k \in DOMAIN issued}

Next ==
    \/ OrmOpen
    \/ OrmOpenExhausted
    \/ OrmOpenFails
    \/ Terminate
    \/ \E token \in Tokens :
        \/ Refused(token)
        \/ OrmClose(token)
        \/ SlotForHandle(token) # NoSlot /\ Named(SlotForHandle(token))

Spec == Init /\ [][Next]_vars

---------------------------------------------------------------------------
(* Properties.                                                             *)

\* Type invariant of the bridge's table, of SQLite's state and of the history.
TypeOK ==
    /\ slots \in [Index -> [in_use : BOOLEAN, retired : BOOLEAN,
                            generation : 0 .. kGenerationMax]]
    /\ g_last_error \in Errors
    /\ file \in [user_version : 0 .. Target + 1, has_table : BOOLEAN,
                 users : Users, commits : 0 .. MaxCommits]
    /\ reading \in [Index -> SUBSET Lookups]
    /\ snapshot \in [Index -> [users : Users, commits : 0 .. MaxCommits]]
    /\ connections \in 0 .. kSlotCount
    /\ issued \in Seq(Nat) /\ Len(issued) <= MaxOpens
    /\ holder \in [Index -> 0 .. MaxOpens]
    /\ acked \in Users
    /\ seen \in [Index -> 0 .. MaxCommits]

\* A token that ormOpen returned names, for as long as the process lives, the
\* database it was returned for or nothing: no later ormOpen, in the same slot
\* or in another one, makes a closed handle usable again (release_slot and the
\* retirement of a slot whose generations are used up).
TokenNamesItsOpen ==
    \A k \in DOMAIN issued :
        LET i == SlotForHandle(issued[k]) IN i # NoSlot => holder[i] = k

\* Every SQLite connection of the process belongs to a handle in use: no path
\* through ormOpen, ormClose or ESTerminate leaves a connection behind.
NoConnectionLeaked ==
    connections = Cardinality({i \in Index : slots[i].in_use})

\* Tokens, slots and connections belong together one to one.
HandlesOwnOpens == TokenNamesItsOpen /\ NoConnectionLeaked

\* The table holds exactly the rows the answers imply: a call answered with an
\* error changed nothing, a call answered with a change count changed the row
\* its named parameters say, whatever the placeholder order of its SQL is, and
\* no change that was answered is lost to one made from an older snapshot.
AnswersMatchRows == file.users = acked

\* What a handle is answered goes forward: what its calls see is no older than
\* the handle's ormOpen, its last change and its last answer, and a handle that
\* sees the newest commit sees the rows of the file.  (It may lag behind the
\* others: find_by_id and find_by_email leave their statements active.)
AnswersGoForward ==
    \A i \in Index :
        /\ View(i).commits \in seen[i] .. file.commits
        /\ View(i).commits = file.commits => View(i).users = file.users
=============================================================================
