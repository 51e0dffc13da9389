----------------------------- MODULE MemoryStore -----------------------------
(***************************************************************************)
(* The process-memory Store (src/esdb_store.cpp) of one name: the registry *)
(* entry, the states behind it, the handles and subscriptions of several   *)
(* threads.  Names share nothing but the registry mutex.                   *)
(*                                                                         *)
(* What runs under registry_mutex() or under a state's mutex is one step.  *)
(* Opening, subscribing and polling leave the mutex before they are done   *)
(* and are several steps; the callbacks of a poll run without any lock but *)
(* poll_mutex and may use the Store themselves.                            *)
(*                                                                         *)
(* get, exists, count, scan, revision and retained_floor copy under the    *)
(* state's mutex and change nothing; they have no action here.             *)
(***************************************************************************)
EXTENDS Naturals, Sequences, FiniteSets

CONSTANTS
    Threads,        \* callers, each with at most one esdb_store handle
    Subs,           \* esdb_store_subscription objects
    Keys,
    Capacity,       \* ESDB_STORE_CHANGE_CAPACITY
    MaxRevision,    \* ESDB_REVISION_MAX
    MaxPatch,       \* ESDB_STORE_PATCH_MAX_ENTRIES
    MaxLimit,       \* ESDB_STORE_CHANGE_LIMIT_MAX
    MaxStates       \* bound: states of the name alive at the same time

ASSUME CapacityAssumption == Capacity \in Nat \ {0}
ASSUME MaxRevisionAssumption == MaxRevision \in Nat
ASSUME MaxPatchAssumption == MaxPatch \in Nat
ASSUME MaxLimitAssumption == MaxLimit \in Nat \ {0}
ASSUME MaxStatesAssumption == MaxStates \in Nat

VARIABLES
    current,    \* the state the registry holds for the name, 0 if none
    state,      \* state[i]: a MemoryStoreState some shared_ptr owns
    log,        \* log[i]: history variable, every change ever published
    call,       \* call[t]: what thread t is doing
    handle,     \* handle[t]: the state of t's handle, 0 if it has none
    sub,        \* sub[s]: state and cursor of a subscription
    got         \* got[s]: history variable, changes s was called back with

vars == <<current, state, log, call, handle, sub, got>>

-----------------------------------------------------------------------------
States == 1..MaxStates
Revisions == 0..MaxRevision
NoKey == <<>>

(* A MemoryChange, and the key of a CLEAR is absent.  The value a put wrote *)
(* is identified by its revision.                                           *)
Change == [revision: Revisions, operation: {"put", "delete", "clear"},
           key: Keys \cup {NoKey}]

(* A MemoryStoreState; records[k] is the revision of the record, 0: none. *)
EmptyState == [records |-> [k \in Keys |-> 0], changes |-> <<>>,
               revision |-> 0, retained_floor |-> 0,
               handle_count |-> 0, subscription_count |-> 0]

MemoryStoreState ==
    [records: [Keys -> Revisions], changes: Seq(Change),
     revision: Revisions, retained_floor: Revisions,
     handle_count: Nat, subscription_count: Nat]

(* A call that is not one step: open and subscribe between the unlock and  *)
(* the allocation, poll between its callbacks.                             *)
IdleCall == [op |-> "idle"]
OpenCall(i) == [op |-> "open", of |-> i]
SubscribeCall(s, r) == [op |-> "subscribe", sub |-> s, after |-> r]
PollCall(s, snapshot) == [op |-> "poll", sub |-> s, snapshot |-> snapshot,
                          delivered |-> 0]

NoSub == [of |-> 0, revision |-> 0, start |-> 0]

TypeOK ==
    /\ current \in 0..MaxStates
    /\ state \in [States -> MemoryStoreState]
    /\ log \in [States -> Seq(Change)]
    /\ handle \in [Threads -> 0..MaxStates]
    /\ sub \in [Subs -> [of: 0..MaxStates, revision: Revisions,
                         start: Revisions]]
    /\ got \in [Subs -> SUBSET Change]
    /\ call \in [Threads ->
                   {IdleCall}
                   \cup [op: {"open"}, of: States]
                   \cup [op: {"subscribe"}, sub: Subs, after: Revisions]
                   \cup [op: {"poll"}, sub: Subs, snapshot: Seq(Change),
                         delivered: Nat]]

Init ==
    /\ current = 0
    /\ state = [i \in States |-> EmptyState]
    /\ log = [i \in States |-> <<>>]
    /\ call = [t \in Threads |-> IdleCall]
    /\ handle = [t \in Threads |-> 0]
    /\ sub = [s \in Subs |-> NoSub]
    /\ got = [s \in Subs |-> {}]

-----------------------------------------------------------------------------
(* Handles and the registry. *)

Idle(t) == call[t].op = "idle"
Become(t, c) == call' = [call EXCEPT ![t] = c]

(* No shared_ptr refers to state i: not the registry's, nor one of a       *)
(* handle, of an open that is under way or of a subscription.              *)
Unreferenced(i) ==
    /\ i # current
    /\ \A t \in Threads : handle[t] # i
    /\ \A t \in Threads : call[t].op = "open" => call[t].of # i
    /\ \A s \in Subs : sub[s].of # i

Counted(st) == [st EXCEPT !.handle_count = @ + 1]

(* esdb_store_open up to the unlock of registry_mutex: find the state or   *)
(* make one, and count the handle.                                         *)
OpenCount(t) ==
    /\ Idle(t) /\ handle[t] = 0
    /\ \E i \in States :
          /\ \/ /\ i = current
                /\ state' = [state EXCEPT ![i] = Counted(@)]
                /\ UNCHANGED <<current, log>>
             \/ /\ current = 0 /\ Unreferenced(i)
                /\ current' = i
                /\ state' = [state EXCEPT ![i] = Counted(EmptyState)]
                /\ log' = [log EXCEPT ![i] = <<>>]
          /\ Become(t, OpenCall(i))
    /\ UNCHANGED <<handle, sub, got>>

OpenReturn(t) ==
    /\ call[t].op = "open"
    /\ handle' = [handle EXCEPT ![t] = call[t].of]
    /\ Become(t, IdleCall)
    /\ UNCHANGED <<current, state, log, sub, got>>

(* new (std::nothrow) esdb_store() returned null. *)
OpenFails(t) ==
    /\ call[t].op = "open"
    /\ state' = [state EXCEPT ![call[t].of].handle_count = @ - 1]
    /\ Become(t, IdleCall)
    /\ UNCHANGED <<current, log, handle, sub, got>>

Close(t) ==
    /\ Idle(t) /\ handle[t] # 0
    /\ state' = [state EXCEPT ![handle[t]].handle_count = @ - 1]
    /\ handle' = [handle EXCEPT ![t] = 0]
    /\ UNCHANGED <<current, log, call, sub, got>>

(* Mutant of Unused: subscriptions do not keep a Store alive. *)
UnusedIgnoresSubscriptions(i) == state[i].handle_count = 0

(* esdb_store_destroy; ESDB_ERR_BUSY while a count is not zero. *)
Unused(i) == state[i].handle_count = 0 /\ state[i].subscription_count = 0

Destroy ==
    /\ current # 0
    /\ Unused(current)
    /\ current' = 0
    /\ UNCHANGED <<state, log, call, handle, sub, got>>

-----------------------------------------------------------------------------
(* Mutations.  A failed allocation leaves the state as it was: put puts    *)
(* the old record back, patch drops its copies, delete and clear append    *)
(* the change first.                                                       *)

(* Mutant of Retain: >= for > in the loop. *)
RetainOffByOne(st, batch) ==
    LET all == st.changes \o batch
        drop == IF Len(all) >= Capacity THEN Len(all) - Capacity + 1 ELSE 0
    IN  [st EXCEPT !.changes = SubSeq(all, drop + 1, Len(all)),
                   !.retained_floor = IF drop = 0 THEN @
                                                  ELSE all[drop].revision]

(* retain_change for every change of a batch: append, then pop the front   *)
(* until Capacity changes are left; the floor is the last one popped.      *)
Retain(st, batch) ==
    LET all == st.changes \o batch
        drop == IF Len(all) > Capacity THEN Len(all) - Capacity ELSE 0
    IN  [st EXCEPT !.changes = SubSeq(all, drop + 1, Len(all)),
                   !.retained_floor = IF drop = 0 THEN @
                                                  ELSE all[drop].revision]

(* The changes of a batch get the next revisions. *)
Numbered(st, ops) ==
    [j \in DOMAIN ops |-> [revision |-> st.revision + j,
                           operation |-> ops[j].operation,
                           key |-> ops[j].key]]

(* The records after the changes of a batch. *)
Touches(c, k) == c.operation = "clear" \/ c.key = k

RecordsAfter(records, batch) ==
    [k \in Keys |->
        LET touching == {j \in DOMAIN batch : Touches(batch[j], k)}
            last == batch[CHOOSE j \in touching : \A l \in touching : l <= j]
        IN  IF touching = {} THEN records[k]
            ELSE IF last.operation = "put" THEN last.revision ELSE 0]

(* The state once a batch is applied and published. *)
Published(st, batch) ==
    [Retain(st, batch) EXCEPT !.records = RecordsAfter(@, batch),
                              !.revision = @ + Len(batch)]

(* t's handle, held while t is idle or inside a callback of its own poll. *)
Holds(t, i) == handle[t] = i /\ call[t].op \in {"idle", "poll"}

(* Mutant of Mutate: the revision domain is not checked. *)
MutateUnchecked(i, ops) ==
    LET batch == Numbered(state[i], ops)
    IN  /\ state' = [state EXCEPT ![i] = Published(@, batch)]
        /\ log' = [log EXCEPT ![i] = @ \o batch]
        /\ UNCHANGED <<current, call, handle, sub, got>>

(* The revision domain is checked before anything changes. *)
Mutate(i, ops) ==
    LET batch == Numbered(state[i], ops)
    IN  /\ state[i].revision + Len(ops) <= MaxRevision
        /\ state' = [state EXCEPT ![i] = Published(@, batch)]
        /\ log' = [log EXCEPT ![i] = @ \o batch]
        /\ UNCHANGED <<current, call, handle, sub, got>>

Op(operation, key) == [operation |-> operation, key |-> key]

Put(t, k) ==
    \E i \in States : Holds(t, i) /\ Mutate(i, <<Op("put", k)>>)

(* An empty patch is a no-op. *)
Patch(t, ks) ==
    \E i \in States :
        /\ Holds(t, i)
        /\ ks # <<>>
        /\ Mutate(i, [j \in DOMAIN ks |-> Op("put", ks[j])])

(* A missing key changes nothing. *)
Delete(t, k) ==
    \E i \in States :
        /\ Holds(t, i)
        /\ state[i].records[k] # 0
        /\ Mutate(i, <<Op("delete", k)>>)

(* An empty Store has nothing to clear. *)
Clear(t) ==
    \E i \in States :
        /\ Holds(t, i)
        /\ \E k \in Keys : state[i].records[k] # 0
        /\ Mutate(i, <<Op("clear", NoKey)>>)

-----------------------------------------------------------------------------
(* Subscriptions. *)

Free(s) ==
    /\ sub[s].of = 0
    /\ \A t \in Threads : call[t].op = "subscribe" => call[t].sub # s

(* The check on after_revision, under the state's mutex: the history after *)
(* r must still be there (ESDB_ERR_GAP) and r must not be ahead.           *)
Retained(st, r) == st.retained_floor <= r /\ r <= st.revision

SubscribeCheck(t, s, r) ==
    /\ Idle(t) /\ handle[t] # 0 /\ Free(s)
    /\ Retained(state[handle[t]], r)
    /\ Become(t, SubscribeCall(s, r))
    /\ UNCHANGED <<current, state, log, handle, sub, got>>

SubscribeReturn(t) ==
    /\ call[t].op = "subscribe"
    /\ sub' = [sub EXCEPT ![call[t].sub] =
                 [of |-> handle[t], revision |-> call[t].after,
                  start |-> call[t].after]]
    /\ state' = [state EXCEPT ![handle[t]].subscription_count = @ + 1]
    /\ got' = [got EXCEPT ![call[t].sub] = {}]
    /\ Become(t, IdleCall)
    /\ UNCHANGED <<current, log, handle>>

SubscribeFails(t) ==
    /\ call[t].op = "subscribe"
    /\ Become(t, IdleCall)
    /\ UNCHANGED <<current, state, log, handle, sub, got>>

(* Mutant of Polled: no poll_mutex. *)
NeverPolled(s) == FALSE

(* poll_mutex, taken with try_lock: a second poll returns ESDB_ERR_BUSY. *)
Polled(s) == \E t \in Threads : call[t].op = "poll" /\ call[t].sub = s

(* A subscription is not destroyed under a running poll. *)
SubscriptionDestroy(s) ==
    /\ sub[s].of # 0 /\ ~Polled(s)
    /\ state' = [state EXCEPT ![sub[s].of].subscription_count = @ - 1]
    /\ sub' = [sub EXCEPT ![s] = NoSub]
    /\ got' = [got EXCEPT ![s] = {}]
    /\ UNCHANGED <<current, log, call, handle>>

(* The snapshot of changes_since_impl: of the changes after r, in the      *)
(* journal's order, the first ones up to limit.                            *)
SnapshotAfter(st, r, limit) ==
    LET newer == {j \in DOMAIN st.changes : st.changes[j].revision > r}
        Nth(n) == CHOOSE j \in newer : Cardinality({l \in newer : l <= j}) = n
        size == IF Cardinality(newer) > limit THEN limit ELSE Cardinality(newer)
    IN  [n \in 1..size |-> st.changes[Nth(n)]]

(* ESDB_ERR_GAP, without a snapshot, when the cursor was overtaken. *)
PollBegin(t, s, limit) ==
    /\ Idle(t) /\ sub[s].of # 0 /\ ~Polled(s)
    /\ Retained(state[sub[s].of], sub[s].revision)
    /\ Become(t, PollCall(s, SnapshotAfter(state[sub[s].of],
                                           sub[s].revision, limit)))
    /\ UNCHANGED <<current, state, log, handle, sub, got>>

(* Mutant of PublishCursor: an early stop skips the rest of the snapshot. *)
PublishSnapshotEnd(t, n) ==
    LET s == call[t].sub
        last == Len(call[t].snapshot)
    IN  sub' = [sub EXCEPT ![s].revision =
                  IF n = 0 THEN @ ELSE call[t].snapshot[last].revision]

(* The poll ends with ESDB_OK: the cursor is what was delivered last. *)
PublishCursor(t, n) ==
    LET s == call[t].sub
    IN  sub' = [sub EXCEPT ![s].revision =
                  IF n = 0 THEN @ ELSE call[t].snapshot[n].revision]

(* One callback.  It goes on, asks to stop, or throws; a throw ends the    *)
(* poll with ESDB_ERR_INTERNAL and leaves the cursor alone.                *)
PollDeliver(t, answer) ==
    /\ call[t].op = "poll"
    /\ LET n == call[t].delivered + 1
       IN  /\ n <= Len(call[t].snapshot)
           /\ got' = [got EXCEPT ![call[t].sub] = @ \cup {call[t].snapshot[n]}]
           /\ \/ /\ answer = "continue"
                 /\ Become(t, [call[t] EXCEPT !.delivered = n])
                 /\ sub' = sub
              \/ /\ answer = "stop"
                 /\ Become(t, IdleCall)
                 /\ PublishCursor(t, n)
              \/ /\ answer = "throw"
                 /\ Become(t, IdleCall)
                 /\ sub' = sub
    /\ UNCHANGED <<current, state, log, handle>>

PollEnd(t) ==
    /\ call[t].op = "poll"
    /\ call[t].delivered = Len(call[t].snapshot)
    /\ PublishCursor(t, call[t].delivered)
    /\ Become(t, IdleCall)
    /\ UNCHANGED <<current, state, log, handle, got>>

-----------------------------------------------------------------------------
Patches == UNION {[1..n -> Keys] : n \in 1..MaxPatch}

Next ==
    \/ Destroy
    \/ \E s \in Subs : SubscriptionDestroy(s)
    \/ \E t \in Threads :
        \/ OpenCount(t) \/ OpenReturn(t) \/ OpenFails(t) \/ Close(t)
        \/ \E k \in Keys : Put(t, k) \/ Delete(t, k)
        \/ \E ks \in Patches : Patch(t, ks)
        \/ Clear(t)
        \/ \E s \in Subs, r \in Revisions : SubscribeCheck(t, s, r)
        \/ SubscribeReturn(t) \/ SubscribeFails(t)
        \/ \E s \in Subs, limit \in 1..MaxLimit : PollBegin(t, s, limit)
        \/ \E a \in {"continue", "stop", "throw"} : PollDeliver(t, a)
        \/ PollEnd(t)

Spec == Init /\ [][Next]_vars

-----------------------------------------------------------------------------
(* Properties. *)

(* Two users of the name never work on two different Stores: every handle, *)
(* every handle being opened and every subscription is on the state the    *)
(* registry holds, whatever open, close and destroy interleave             *)
(* (esdb_store_destroy's BUSY check against esdb_store_open's count).      *)
OneLiveStore ==
    /\ \A t \in Threads : handle[t] # 0 => handle[t] = current
    /\ \A t \in Threads : call[t].op = "open" => call[t].of = current
    /\ \A s \in Subs : sub[s].of # 0 => sub[s].of = current

(* The retained journal is exactly the history after retained_floor, and   *)
(* the floor is as low as Capacity allows: ESDB_ERR_GAP is reported if and *)
(* only if history was dropped (retain_change and the loop of patch).  The *)
(* floor is the newest revision retain_change has dropped; docs/STORE.md   *)
(* (line 79) calls it the oldest retained one, which is one more.          *)
JournalWindow ==
    \A i \in States :
        LET st == state[i]
        IN  /\ st.revision = Len(log[i])
            /\ st.retained_floor = IF st.revision > Capacity
                                   THEN st.revision - Capacity ELSE 0
            /\ st.changes = SubSeq(log[i], st.retained_floor + 1, st.revision)

(* The n-th change has revision n, and the records are the replay of all   *)
(* changes: k holds n exactly when change n put k and no later change put, *)
(* deleted or cleared it (repeated keys of a patch included).              *)
RecordsReplayLog ==
    \A i \in States :
        LET Wiped(k, n) == \/ log[i][n].operation = "clear"
                           \/ log[i][n].key = k
        IN  /\ \A n \in DOMAIN log[i] : log[i][n].revision = n
            /\ \A k \in Keys : state[i].records[k] <= Len(log[i])
            /\ \A k \in Keys, n \in DOMAIN log[i] :
                  state[i].records[k] = n <=>
                      /\ log[i][n].operation = "put" /\ log[i][n].key = k
                      /\ \A m \in (n + 1)..Len(log[i]) : ~Wiped(k, m)

(* Journal and records of a Store are its history, also where a batch      *)
(* overflows the journal or names a key twice (esdb_store_patch).          *)
ContentIsHistory == JournalWindow /\ RecordsReplayLog

(* A subscription whose cursor is at r has been called back with every     *)
(* change since it started up to r: concurrent polls, early stops, throws, *)
(* mutations made by the callbacks and a limited journal never skip one.   *)
NoSilentLoss ==
    \A s \in Subs :
        sub[s].of # 0 =>
            \A r \in (sub[s].start + 1)..sub[s].revision :
                log[sub[s].of][r] \in got[s]

(* The cursor of a live subscription never goes back. *)
CursorNeverRegresses ==
    [][\A s \in Subs :
          sub[s].of # 0 /\ sub'[s].of # 0
              => sub'[s].revision >= sub[s].revision]_sub
=============================================================================
