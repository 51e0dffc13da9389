---------------------------- MODULE AdapterSlots ----------------------------
(***************************************************************************)
(* The handle table of the ExternalObject adapter                          *)
(* (adapters/externalobject/esdb_externalobject.cpp): 255 slots behind     *)
(* g_mutex, each with a database, at most one explicit transaction, an     *)
(* operation_mutex and a generation that makes old tokens stale.           *)
(*                                                                         *)
(* A step ends where a thread may have to wait or where database work      *)
(* begins: a call takes the table lock and looks its token up, takes the   *)
(* slot's lock, does its work, and returns.  Databases are numbered in the *)
(* order they are opened; the numbers are the model's only.                *)
(***************************************************************************)
EXTENDS Naturals, FiniteSets

CONSTANTS
    Threads,         \* host threads
    NoThread,        \* nobody holds the lock
    SlotCount,       \* k_slot_count
    GenerationMax,   \* k_generation_max
    MaxOpens,        \* bound: databases opened
    MaxCalls         \* bound: calls made

ASSUME SlotsAssumption ==
    /\ NoThread \notin Threads
    /\ SlotCount \in Nat \ {0} /\ GenerationMax \in Nat \ {0}
    /\ MaxOpens \in Nat /\ MaxCalls \in Nat

VARIABLES
    table,    \* the holder of g_mutex
    slots,    \* g_slots
    staged,   \* staged[t]: the thread-local g_staged_path is not empty
    call,     \* call[t]: the call t is in
    opened,   \* databases opened so far
    live,     \* databases open now
    issued,   \* every token ever returned, with the database it was for
    calls     \* calls made so far

vars == <<table, slots, staged, call, opened, live, issued, calls>>

-----------------------------------------------------------------------------
Indices == 1..SlotCount
Generations == 1..GenerationMax
Databases == 1..MaxOpens
Holders == Threads \cup {NoThread}

(* handle: esdb_transaction: none, active, or ended but not destroyed;     *)
(* of: the database it was begun on; open: SQLite is in a transaction.     *)
Slot ==
    [database: 0..MaxOpens, handle: {"none", "active", "ended"},
     of: 0..MaxOpens, open: BOOLEAN, holder: Holders,
     generation: Generations, retired: BOOLEAN]

FreshSlot ==
    [database |-> 0, handle |-> "none", of |-> 0, open |-> FALSE,
     holder |-> NoThread, generation |-> 1, retired |-> FALSE]

(* encode_handle: a token is the slot and the generation it was issued in. *)
Token == [slot: Indices, generation: Generations]
NoToken == [slot |-> 1, generation |-> 1]

(* query: querySql; store: objectStore*, health, dataVersion. *)
SlotCalls == {"begin", "commit", "rollback", "query", "store"}
Operations == SlotCalls \cup {"none", "open", "close", "terminate"}

Call ==
    [pc: {"idle", "publish", "table", "slot", "work"}, op: Operations,
     token: Token, at: 0..(SlotCount + 1), database: 0..MaxOpens]

NoCall == [pc |-> "idle", op |-> "none", token |-> NoToken, at |-> 0,
           database |-> 0]

TypeOK ==
    /\ table \in Holders
    /\ slots \in [Indices -> Slot]
    /\ staged \in [Threads -> BOOLEAN]
    /\ call \in [Threads -> Call]
    /\ opened \in 0..MaxOpens
    /\ live \subseteq Databases
    /\ issued \subseteq [token: Token, database: Databases]
    /\ calls \in 0..MaxCalls

Init ==
    /\ table = NoThread
    /\ slots = [i \in Indices |-> FreshSlot]
    /\ staged = [t \in Threads |-> FALSE]
    /\ call = [t \in Threads |-> NoCall]
    /\ opened = 0
    /\ live = {}
    /\ issued = {}
    /\ calls = 0

-----------------------------------------------------------------------------
(* lookup_slot_unlocked finds a slot for the token. *)
LookupSlot(token) ==
    LET s == slots[token.slot]
    IN  ~s.retired /\ s.database # 0 /\ s.generation = token.generation

(* Mutant of AdvanceGeneration: no limit. *)
AdvanceForever(s) == [s EXCEPT !.generation = @ + 1]

(* advance_generation. *)
AdvanceGeneration(s) ==
    IF s.generation >= GenerationMax THEN [s EXCEPT !.retired = TRUE]
    ELSE [s EXCEPT !.generation = @ + 1]

(* esdb_transaction_destroy, which rolls back if need be, and esdb_close.  *)
CloseSlot(s) ==
    AdvanceGeneration(
        [s EXCEPT !.handle = "none", !.of = 0, !.open = FALSE,
                  !.database = 0])

Becomes(t, record) == call' = [call EXCEPT ![t] = record]
Released(s) == [s EXCEPT !.holder = NoThread]

-----------------------------------------------------------------------------
(* A call begins. *)

Begins(t) == call[t].pc = "idle" /\ calls < MaxCalls /\ calls' = calls + 1

(* stage, stageHex. *)
Stage(t) ==
    /\ Begins(t)
    /\ staged' = [staged EXCEPT ![t] = TRUE]
    /\ UNCHANGED <<table, slots, call, opened, live, issued>>

(* openStaged up to the successful esdb_open, which runs without locks. *)
OpenDatabase(t) ==
    /\ Begins(t)
    /\ staged[t]
    /\ opened < MaxOpens
    /\ opened' = opened + 1
    /\ live' = live \cup {opened + 1}
    /\ Becomes(t, [NoCall EXCEPT !.pc = "publish", !.op = "open",
                                 !.database = opened + 1])
    /\ UNCHANGED <<table, slots, staged, issued>>

(* An entry point that takes a handle: any token the host ever got. *)
CallWith(t, op, token) ==
    /\ Begins(t)
    /\ \E e \in issued : e.token = token
    /\ Becomes(t, [NoCall EXCEPT !.pc = "table", !.op = op, !.token = token,
                                 !.at = token.slot])
    /\ UNCHANGED <<table, slots, staged, opened, live, issued>>

(* ESTerminate. *)
CallTerminate(t) ==
    /\ Begins(t)
    /\ Becomes(t, [NoCall EXCEPT !.pc = "table", !.op = "terminate", !.at = 1])
    /\ UNCHANGED <<table, slots, staged, opened, live, issued>>

-----------------------------------------------------------------------------
(* Mutant of Exhausted: the new database is dropped, not closed. *)
ExhaustedLeaks(t) == live' = live /\ UNCHANGED <<slots, issued>>

(* openStaged when no slot is free: ADAPTER_HANDLE_EXHAUSTED. *)
Exhausted(t) ==
    live' = live \ {call[t].database} /\ UNCHANGED <<slots, issued>>

(* openStaged under the table lock: the first slot that is neither used    *)
(* nor retired.                                                            *)
PublishSlot(t) ==
    LET free == {i \in Indices : slots[i].database = 0 /\ ~slots[i].retired}
    IN  /\ call[t].pc = "publish"
        /\ table = NoThread
        /\ \/ /\ free = {}
              /\ Exhausted(t)
           \/ \E i \in free :
                 /\ \A j \in free : i <= j
                 /\ slots' = [slots EXCEPT ![i].database = call[t].database]
                 /\ issued' = issued \cup
                       {[token |-> [slot |-> i,
                                    generation |-> slots[i].generation],
                         database |-> call[t].database]}
                 /\ live' = live
        /\ Becomes(t, NoCall)
        /\ UNCHANGED <<table, staged, opened, calls>>

(* Mutant of TakeTable: lock_slot gives the table lock back before it      *)
(* waits for the slot.                                                     *)
TakeTableBriefly(t) ==
    /\ call[t].pc = "table"
    /\ table = NoThread
    /\ IF call[t].op # "terminate" /\ ~LookupSlot(call[t].token)
       THEN table' = table /\ Becomes(t, NoCall)
       ELSE /\ table' = IF call[t].op \in SlotCalls THEN table ELSE t
            /\ Becomes(t, [call[t] EXCEPT !.pc = "slot"])
    /\ UNCHANGED <<slots, staged, opened, live, issued, calls>>

(* Mutant of TakeTable: the error path forgets the lock. *)
TakeTableForever(t) ==
    /\ call[t].pc = "table"
    /\ table = NoThread
    /\ table' = t
    /\ IF call[t].op # "terminate" /\ ~LookupSlot(call[t].token)
       THEN Becomes(t, NoCall)
       ELSE Becomes(t, [call[t] EXCEPT !.pc = "slot"])
    /\ UNCHANGED <<slots, staged, opened, live, issued, calls>>

(* lock_slot, close: g_mutex and the lookup; a token that is not found is  *)
(* ADAPTER_INVALID_HANDLE.  The table lock is kept while the thread waits  *)
(* for the slot.  ESTerminate takes g_mutex as well.                       *)
TakeTable(t) ==
    /\ call[t].pc = "table"
    /\ table = NoThread
    /\ IF call[t].op # "terminate" /\ ~LookupSlot(call[t].token)
       THEN table' = table /\ Becomes(t, NoCall)
       ELSE table' = t /\ Becomes(t, [call[t] EXCEPT !.pc = "slot"])
    /\ UNCHANGED <<slots, staged, opened, live, issued, calls>>

(* operation_mutex; only close keeps the table lock from here on. *)
TakeSlot(t) ==
    LET i == call[t].at
    IN  /\ call[t].pc = "slot" /\ call[t].op # "terminate"
        /\ slots[i].holder = NoThread
        /\ slots' = [slots EXCEPT ![i].holder = t]
        /\ table' = IF call[t].op = "close" THEN table ELSE NoThread
        /\ Becomes(t, [call[t] EXCEPT !.pc = "work",
                                      !.database = slots[i].database])
        /\ UNCHANGED <<staged, opened, live, issued, calls>>

-----------------------------------------------------------------------------
(* The work of a call under the slot's lock: the slots s may become. *)

(* transactionBegin: refused when the slot has a transaction, fails when   *)
(* SQLite is in one already, when the runtime's own flag (see              *)
(* RuntimeTransaction) still says so, or when SQLite cannot begin.         *)
BeginWork(s) ==
    IF s.handle # "none" \/ s.open THEN {s}
    ELSE {s, [s EXCEPT !.handle = "active", !.of = s.database, !.open = TRUE]}

(* transactionCommit, transactionRollback.  esdb_commit and esdb_rollback  *)
(* refuse an ended transaction; they succeed; they fail with the           *)
(* transaction still open; or they fail and it is gone, which ends it.  A  *)
(* failure leaves slot->transaction as it is.                              *)
FinishWork(s) ==
    LET done == [s EXCEPT !.handle = "none", !.of = 0, !.open = FALSE]
        gone == [s EXCEPT !.handle = "ended", !.open = FALSE]
    IN  CASE s.handle # "active" -> {s}
          [] s.handle = "active" /\ ~s.open -> {gone}
          [] OTHER -> {s, done, gone}

(* querySql: esdb_query runs any one statement, BEGIN and COMMIT included, *)
(* and reconciles; a transaction that is no longer active is destroyed.    *)
QueryWork(s) ==
    LET Reconciled(u) ==
            IF u.handle = "ended" \/ (u.handle = "active" /\ ~u.open)
            THEN [u EXCEPT !.handle = "none", !.of = 0] ELSE u
    IN  {Reconciled([s EXCEPT !.open = b]) : b \in BOOLEAN}

(* The other calls; a failing statement of an ObjectStore mutation can     *)
(* make SQLite roll the transaction back.                                  *)
StoreWork(s) == {s, [s EXCEPT !.open = FALSE]}

WorkOf(op, s) ==
    CASE op = "begin" -> BeginWork(s)
      [] op \in {"commit", "rollback"} -> FinishWork(s)
      [] op = "query" -> QueryWork(s)
      [] op = "store" -> StoreWork(s)

Work(t) ==
    LET i == call[t].at
    IN  /\ call[t].pc = "work" /\ call[t].op \in SlotCalls
        /\ \E s \in WorkOf(call[t].op, slots[i]) :
              slots' = [slots EXCEPT ![i] = Released(s)]
        /\ Becomes(t, NoCall)
        /\ UNCHANGED <<table, staged, opened, live, issued, calls>>

(* close. *)
CloseWork(t) ==
    LET i == call[t].at
    IN  /\ call[t].pc = "work" /\ call[t].op = "close"
        /\ slots' = [slots EXCEPT ![i] = Released(CloseSlot(slots[i]))]
        /\ live' = live \ {slots[i].database}
        /\ table' = NoThread
        /\ Becomes(t, NoCall)
        /\ UNCHANGED <<staged, opened, issued, calls>>

(* ESTerminate: one slot after the other, under both locks. *)
TerminateSlot(t) ==
    LET i == call[t].at
    IN  /\ call[t].pc = "slot" /\ call[t].op = "terminate"
        /\ i <= SlotCount
        /\ slots[i].holder = NoThread
        /\ slots' = IF slots[i].database = 0 THEN slots
                    ELSE [slots EXCEPT ![i] = CloseSlot(slots[i])]
        /\ live' = live \ {slots[i].database}
        /\ Becomes(t, [call[t] EXCEPT !.at = i + 1])
        /\ UNCHANGED <<table, staged, opened, issued, calls>>

TerminateReturn(t) ==
    /\ call[t].pc = "slot" /\ call[t].op = "terminate"
    /\ call[t].at > SlotCount
    /\ table' = NoThread
    /\ staged' = [staged EXCEPT ![t] = FALSE]
    /\ Becomes(t, NoCall)
    /\ UNCHANGED <<slots, opened, live, issued, calls>>

-----------------------------------------------------------------------------
Proceed(t) ==
    \/ PublishSlot(t) \/ TakeTable(t) \/ TakeSlot(t)
    \/ Work(t) \/ CloseWork(t) \/ TerminateSlot(t) \/ TerminateReturn(t)

Next ==
    \E t \in Threads :
        \/ Stage(t) \/ OpenDatabase(t) \/ CallTerminate(t)
        \/ \E op \in SlotCalls \cup {"close"}, e \in issued :
              CallWith(t, op, e.token)
        \/ Proceed(t)

Spec == Init /\ [][Next]_vars

(* Locks that stay free are granted and database work ends (the busy       *)
(* handler has a timeout).  MaxCalls keeps others from overtaking a thread *)
(* for ever, which a mutex alone would not.                                *)
FairSpec == Spec /\ \A t \in Threads : WF_vars(Proceed(t))

-----------------------------------------------------------------------------
(* Properties. *)

Working(t) == call[t].pc = "work"

(* A call works on the database its token was issued for, and alone, as    *)
(* long as it works: no close, termination, reuse of the slot or retired   *)
(* generation can put another database, or none, or a second thread under  *)
(* it, and no other database was ever given the same token (lock_slot,     *)
(* close, advance_generation; docs/ABI.md, "Handle and transaction         *)
(* safety").                                                               *)
WorksOnItsDatabase ==
    \A t \in Threads : Working(t) =>
        /\ {e.database : e \in {f \in issued : f.token = call[t].token}}
              = {call[t].database}
        /\ slots[call[t].at].database = call[t].database
        /\ \A u \in Threads \ {t} : Working(u) => call[u].at # call[t].at

(* Every open database can be reached: it is in exactly one slot or about  *)
(* to be put there, also when the table was full; and nothing but open     *)
(* databases is in a slot.                                                 *)
NoDatabaseLost ==
    LET Places(d) ==
            {i \in Indices : slots[i].database = d}
              \cup {t \in Threads : call[t].pc = "publish"
                                       /\ call[t].database = d}
    IN  \A d \in Databases : Cardinality(Places(d)) = IF d \in live THEN 1 ELSE 0

(* The transaction a slot owns was begun on the slot's database: close and *)
(* termination leave none behind for the database that comes next.         *)
TransactionOfItsDatabase ==
    \A i \in Indices :
        slots[i].handle # "none" =>
            slots[i].of = slots[i].database /\ slots[i].database # 0

(* Databases, slots and transactions stay together, when the table is full *)
(* and when a commit fails too (openStaged, close, ESTerminate).           *)
TableConsistent == NoDatabaseLost /\ TransactionOfItsDatabase

(* Every call returns: the order of g_mutex and operation_mutex has no     *)
(* cycle and no path keeps a lock (lock_slot, close, ESTerminate).         *)
CallReturns ==
    \A t \in Threads : call[t].pc # "idle" ~> call[t].pc = "idle"
=============================================================================
