-------------------------- MODULE MemoryStoreProofs --------------------------
(***************************************************************************)
(* Proofs about MemoryStore for every number of threads, subscriptions,    *)
(* keys and states, and every capacity, limit and size of a patch.         *)
(*                                                                         *)
(* None of the properties is inductive.  OneLiveStore rests on the counts  *)
(* that esdb_store_destroy checks: they are the numbers of handles, opens  *)
(* under way and subscriptions (CountInv).  NoSilentLoss rests on what a   *)
(* poll that has left the state's mutex still knows: its snapshot is the   *)
(* part of the history behind its cursor, and nobody else moves that       *)
(* cursor (PollOK).                                                        *)
(***************************************************************************)
EXTENDS MemoryStore, FiniteSetTheorems, SequenceTheorems, WellFoundedInduction,
        TLAPS

Users(i) ==
    {t \in Threads : handle[t] = i \/ (call[t].op = "open" /\ call[t].of = i)}
Subscribers(i) == {s \in Subs : sub[s].of = i}

CountOK(i) ==
    /\ IsFiniteSet(Users(i)) /\ IsFiniteSet(Subscribers(i))
    /\ state[i].handle_count = Cardinality(Users(i))
    /\ state[i].subscription_count = Cardinality(Subscribers(i))

CountInv == \A i \in States : CountOK(i)

(* JournalWindow of one state, change by change. *)
Floor(revision) == IF revision > Capacity THEN revision - Capacity ELSE 0

WindowOK(st, l) ==
    /\ st.revision = Len(l)
    /\ st.retained_floor = Floor(Len(l))
    /\ Len(st.changes) = Len(l) - Floor(Len(l))
    /\ \A j \in 1..(Len(l) - Floor(Len(l))) : st.changes[j] = l[Floor(Len(l)) + j]

(* RecordsReplayLog of one state. *)
PutLast(l, k, n) ==
    /\ l[n].operation = "put" /\ l[n].key = k
    /\ \A m \in (n + 1)..Len(l) : ~Touches(l[m], k)

NumberedOK(l) == \A n \in 1..Len(l) : l[n].revision = n

ReplayOK(records, l) ==
    \A k \in Keys :
        /\ records[k] <= Len(l)
        /\ \A n \in 1..Len(l) : records[k] = n <=> PutLast(l, k, n)

ContentInv ==
    \A i \in States : /\ WindowOK(state[i], log[i]) /\ NumberedOK(log[i])
                      /\ ReplayOK(state[i].records, log[i])

(* What a poll that has left the state's mutex still knows. *)
PollOK(t) ==
    LET s == call[t].sub
        l == log[sub[s].of]
    IN  /\ sub[s].of # 0
        /\ call[t].delivered <= Len(call[t].snapshot)
        /\ sub[s].revision + Len(call[t].snapshot) <= Len(l)
        /\ \A j \in 1..Len(call[t].snapshot) :
              call[t].snapshot[j] = l[sub[s].revision + j]
        /\ \A j \in 1..call[t].delivered : call[t].snapshot[j] \in got[s]

CallOK(t) ==
    /\ call[t].op = "open" => handle[t] = 0
    /\ call[t].op = "subscribe" =>
          /\ handle[t] # 0 /\ sub[call[t].sub].of = 0
          /\ call[t].after <= Len(log[handle[t]])
    /\ call[t].op = "poll" => PollOK(t)

CallInv == \A t \in Threads : CallOK(t)

(* A subscription is made by one thread and polled by one thread. *)
Exclusive ==
    \A t, u \in Threads :
        call[t].op \in {"subscribe", "poll"} /\ call[u].op = call[t].op
            /\ call[u].sub = call[t].sub => t = u

SubOK(s) ==
    sub[s].of # 0 =>
        /\ sub[s].start <= sub[s].revision
        /\ sub[s].revision <= Len(log[sub[s].of])
        /\ \A r \in (sub[s].start + 1)..sub[s].revision :
              log[sub[s].of][r] \in got[s]

SubInv == \A s \in Subs : SubOK(s)

IInv ==
    /\ TypeOK /\ OneLiveStore /\ CountInv /\ ContentInv
    /\ CallInv /\ Exclusive /\ SubInv

-----------------------------------------------------------------------------
(* Numbers and sequences. *)

(* A nonempty set of numbers has a least one. *)
LEMMA NatMin ==
    ASSUME NEW T, T \subseteq Nat, T # {}
    PROVE  \E x \in T : \A y \in T : x <= y
<1>1. \A x, y \in Nat : <<y, x>> \in OpToRel(<, Nat) <=> y < x
  BY DEF OpToRel
<1>2. PICK R : /\ IsWellFoundedOn(R, Nat)
               /\ \A x, y \in Nat : <<y, x>> \in R <=> y < x
  BY <1>1, NatLessThanWellFounded, Zenon
<1>3. PICK x \in T : \A y \in T : ~(<<y, x>> \in R)
  BY <1>2, WFMin, Zenon
<1>4. \A y \in T : ~(y < x)
  BY <1>2, <1>3, Zenon
<1>5. \A y \in T : x <= y
  BY <1>4
<1> QED
  BY <1>5

(* A nonempty bounded set of numbers has a greatest one. *)
LEMMA NatMax ==
    ASSUME NEW T, NEW n \in Nat, T \subseteq 0..n, T # {}
    PROVE  \E x \in T : \A y \in T : y <= x
<1> DEFINE U == {n - j : j \in T}
<1>1. U \subseteq Nat /\ U # {}
  <2>1. \A j \in T : n - j \in Nat
    OBVIOUS
  <2>2. PICK j \in T : TRUE
    OBVIOUS
  <2> QED
    BY <2>1, <2>2
<1>2. PICK x \in U : \A y \in U : x <= y
  BY <1>1, NatMin
<1>3. PICK j \in T : x = n - j
  BY <1>2
<1>4. \A k \in T : n - j <= n - k
  BY <1>2, <1>3
<1>5. \A k \in T : k <= j
  BY <1>4
<1> QED
  BY <1>5

LEMMA ConcatAt ==
    ASSUME NEW S, NEW a \in Seq(S), NEW b \in Seq(S)
    PROVE  /\ a \o b \in Seq(S) /\ Len(a \o b) = Len(a) + Len(b)
           /\ \A j \in 1..Len(a) : (a \o b)[j] = a[j]
           /\ \A j \in 1..Len(b) : (a \o b)[Len(a) + j] = b[j]
OBVIOUS

LEMMA SubSeqAt ==
    ASSUME NEW S, NEW s \in Seq(S), NEW m \in Nat, m <= Len(s)
    PROVE  /\ SubSeq(s, m + 1, Len(s)) \in Seq(S)
           /\ Len(SubSeq(s, m + 1, Len(s))) = Len(s) - m
           /\ \A j \in 1..(Len(s) - m) : SubSeq(s, m + 1, Len(s))[j] = s[m + j]
OBVIOUS

-----------------------------------------------------------------------------
(* The operators of a mutation. *)

(* What the loop of retain_change pops off a journal of n changes. *)
Dropped(n) == IF n > Capacity THEN n - Capacity ELSE 0

LEMMA FloorMoves ==
    ASSUME NEW a \in Nat, NEW b \in Nat, NEW n, n = (a + b) - Floor(a)
    PROVE  /\ Dropped(n) \in Nat /\ Dropped(n) <= n
           /\ Floor(a) + Dropped(n) = Floor(a + b)
BY CapacityAssumption DEF Floor, Dropped

(* retain_change: the journal is the end of the longer history, as long as *)
(* Capacity allows, and the floor is where it begins.                      *)
LEMMA RetainOK ==
    ASSUME NEW st \in MemoryStoreState, NEW l \in Seq(Change),
           NEW batch \in Seq(Change), WindowOK(st, l), NumberedOK(l \o batch)
    PROVE  LET r == Retain(st, batch)
               h == l \o batch
           IN  /\ r.changes \in Seq(Change)
               /\ r.retained_floor = Floor(Len(h))
               /\ Len(r.changes) = Len(h) - Floor(Len(h))
               /\ \A j \in 1..(Len(h) - Floor(Len(h))) :
                     r.changes[j] = h[Floor(Len(h)) + j]
<1> DEFINE h == l \o batch
           all == st.changes \o batch
           f == Floor(Len(l))
           drop == IF Len(all) > Capacity THEN Len(all) - Capacity ELSE 0
           r == Retain(st, batch)
<1>1. /\ st.changes \in Seq(Change) /\ Len(l) \in Nat /\ Len(batch) \in Nat
      /\ Capacity \in Nat /\ Capacity > 0
  BY CapacityAssumption DEF MemoryStoreState
<1>2. f \in Nat /\ f <= Len(l) /\ Len(st.changes) = Len(l) - f
  BY <1>1 DEF Floor, WindowOK
<1>3. /\ h \in Seq(Change) /\ Len(h) = Len(l) + Len(batch)
      /\ \A j \in 1..Len(l) : h[j] = l[j]
      /\ \A j \in 1..Len(batch) : h[Len(l) + j] = batch[j]
  BY ConcatAt
<1>4. /\ all \in Seq(Change) /\ Len(all) = Len(st.changes) + Len(batch)
      /\ \A j \in 1..Len(st.changes) : all[j] = st.changes[j]
      /\ \A j \in 1..Len(batch) : all[Len(st.changes) + j] = batch[j]
  BY <1>1, ConcatAt
<1>5. /\ r.changes = SubSeq(all, drop + 1, Len(all))
      /\ r.retained_floor = IF drop = 0 THEN st.retained_floor ELSE all[drop].revision
  BY DEF Retain, MemoryStoreState
<1>w. /\ st.retained_floor = f
      /\ \A j \in 1..(Len(l) - f) : st.changes[j] = l[f + j]
  BY DEF WindowOK
<1> HIDE DEF h, all, f, r
<1>6. Len(all) = Len(h) - f
  BY <1>1, <1>2, <1>3, <1>4
<1>7. \A j \in 1..Len(all) : all[j] = h[f + j]
  <2> SUFFICES ASSUME NEW j \in 1..Len(all) PROVE all[j] = h[f + j]
    OBVIOUS
  <2>1. CASE j <= Len(st.changes)
    <3>1. j \in 1..Len(st.changes) /\ j \in 1..(Len(l) - f) /\ f + j \in 1..Len(l)
      BY <1>1, <1>2, <1>4, <2>1
    <3> QED
      BY <1>3, <1>4, <1>w, <3>1
  <2>2. CASE j > Len(st.changes)
    <3>1. PICK k \in 1..Len(batch) : j = Len(st.changes) + k
      <4>1. j - Len(st.changes) \in 1..Len(batch)
            /\ j = Len(st.changes) + (j - Len(st.changes))
        BY <1>1, <1>2, <1>4, <2>2
      <4> QED
        BY <4>1
    <3>2. f + j = Len(l) + k
      BY <1>1, <1>2, <3>1
    <3>3. all[j] = batch[k] /\ h[Len(l) + k] = batch[k]
      BY <1>3, <1>4, <3>1
    <3> QED
      BY <3>2, <3>3
  <2> QED
    BY <1>1, <1>2, <1>4, <2>1, <2>2
<1>8. drop \in Nat /\ drop <= Len(all) /\ f + drop = Floor(Len(h))
  <2>1. drop = Dropped(Len(all)) /\ f = Floor(Len(l))
    BY DEF Dropped, f
  <2>2. Len(all) = (Len(l) + Len(batch)) - Floor(Len(l))
    BY <1>3, <1>6, <2>1
  <2> HIDE DEF drop
  <2>3. /\ Dropped(Len(all)) \in Nat /\ Dropped(Len(all)) <= Len(all)
        /\ Floor(Len(l)) + Dropped(Len(all)) = Floor(Len(l) + Len(batch))
    BY <1>1, <2>2, FloorMoves, ZenonT(60)
  <2> QED
    BY <1>3, <2>1, <2>3
<1> HIDE DEF drop
<1>9. /\ r.changes \in Seq(Change) /\ Len(r.changes) = Len(all) - drop
      /\ \A j \in 1..(Len(all) - drop) : r.changes[j] = all[drop + j]
  <2>1. LET q == SubSeq(all, drop + 1, Len(all))
        IN  /\ q \in Seq(Change) /\ Len(q) = Len(all) - drop
            /\ \A j \in 1..(Len(all) - drop) : q[j] = all[drop + j]
    BY <1>4, <1>8, SubSeqAt
  <2> QED
    BY <1>5, <2>1, Zenon
<1>10. r.retained_floor = f + drop
  <2>1. CASE drop = 0
    BY <1>2, <1>5, <1>w, <2>1
  <2>2. CASE drop # 0
    <3>1. drop \in 1..Len(all) /\ f + drop \in 1..Len(h)
      BY <1>1, <1>2, <1>3, <1>6, <1>8, <2>2
    <3>2. all[drop] = h[f + drop] /\ h[f + drop].revision = f + drop
      BY <1>7, <3>1 DEF NumberedOK, h
    <3> QED
      BY <1>5, <2>2, <3>2
  <2> QED
    BY <2>1, <2>2
<1>11. Len(all) - drop = Len(h) - Floor(Len(h))
  BY <1>1, <1>2, <1>3, <1>6, <1>8
<1>12. ASSUME NEW j \in 1..(Len(h) - Floor(Len(h)))
       PROVE  r.changes[j] = h[Floor(Len(h)) + j]
  <2>1. /\ j \in 1..(Len(all) - drop) /\ drop + j \in 1..Len(all)
        /\ f + (drop + j) = Floor(Len(h)) + j
    BY <1>2, <1>4, <1>8, <1>11, SMTT(60)
  <2>2. r.changes[j] = all[drop + j] /\ all[drop + j] = h[f + (drop + j)]
    BY <1>7, <1>9, <2>1
  <2> QED
    BY <2>1, <2>2
<1> QED
  BY <1>8, <1>9, <1>10, <1>11, <1>12 DEF r, h

(* The records of a batch are its replay: the last change that touches a   *)
(* key decides, a repeated key of a patch included.                        *)
LEMMA RecordsOK ==
    ASSUME NEW records \in [Keys -> Nat], NEW l \in Seq(Change),
           NEW batch \in Seq(Change), ReplayOK(records, l), NumberedOK(l \o batch)
    PROVE  /\ RecordsAfter(records, batch) \in [Keys -> Nat]
           /\ ReplayOK(RecordsAfter(records, batch), l \o batch)
<1> DEFINE h == l \o batch
           after == RecordsAfter(records, batch)
<1>1. /\ h \in Seq(Change) /\ Len(h) = Len(l) + Len(batch)
      /\ \A j \in 1..Len(l) : h[j] = l[j]
      /\ \A j \in 1..Len(batch) : h[Len(l) + j] = batch[j]
      /\ Len(l) \in Nat /\ Len(batch) \in Nat /\ DOMAIN batch = 1..Len(batch)
  BY ConcatAt
<1>2. ASSUME NEW k \in Keys
      PROVE  /\ after[k] \in Nat /\ after[k] <= Len(h)
             /\ \A n \in 1..Len(h) : after[k] = n <=> PutLast(h, k, n)
  <2> DEFINE touching == {j \in DOMAIN batch : Touches(batch[j], k)}
             top == CHOOSE j \in touching : \A m \in touching : m <= j
  <2>1. after[k] = IF touching = {} THEN records[k]
                   ELSE IF batch[top].operation = "put" THEN batch[top].revision ELSE 0
    BY DEF RecordsAfter
  <2>2. /\ records[k] \in Nat /\ records[k] <= Len(l)
        /\ \A n \in 1..Len(l) : records[k] = n <=> PutLast(l, k, n)
    BY DEF ReplayOK
  <2>3. touching \subseteq 1..Len(batch)
    BY <1>1
  <2> HIDE DEF after, h
  <2>4. CASE touching = {}
    <3>1. \A j \in 1..Len(batch) : ~Touches(batch[j], k)
      BY <1>1, <2>4
    <3>2. ASSUME NEW n \in 1..Len(h), n > Len(l) PROVE ~Touches(h[n], k)
      <4>1. n - Len(l) \in 1..Len(batch) /\ Len(l) + (n - Len(l)) = n
        BY <1>1, <3>2
      <4> QED
        BY <1>1, <3>1, <4>1
    <3>3. ASSUME NEW n \in 1..Len(h) PROVE after[k] = n <=> PutLast(h, k, n)
      <4>1. CASE n <= Len(l)
        <5>1. n \in 1..Len(l) /\ h[n] = l[n]
          BY <1>1, <4>1
        <5>2. (\A m \in (n + 1)..Len(h) : ~Touches(h[m], k))
                <=> (\A m \in (n + 1)..Len(l) : ~Touches(l[m], k))
          <6>1. ASSUME \A m \in (n + 1)..Len(h) : ~Touches(h[m], k),
                       NEW m \in (n + 1)..Len(l)
                PROVE  ~Touches(l[m], k)
            <7>1. m \in 1..Len(l) /\ m \in (n + 1)..Len(h)
              BY <1>1, <5>1, <6>1
            <7> QED
              BY <1>1, <6>1, <7>1
          <6>2. ASSUME \A m \in (n + 1)..Len(l) : ~Touches(l[m], k),
                       NEW m \in (n + 1)..Len(h)
                PROVE  ~Touches(h[m], k)
            <7>1. CASE m <= Len(l)
              <8>1. m \in 1..Len(l) /\ m \in (n + 1)..Len(l)
                BY <1>1, <5>1, <6>2, <7>1
              <8> QED
                BY <1>1, <6>2, <8>1
            <7>2. CASE m > Len(l)
              <8>1. m \in 1..Len(h)
                BY <1>1, <5>1, <6>2, <7>2
              <8> QED
                BY <3>2, <7>2, <8>1
            <7> QED
              BY <1>1, <5>1, <7>1, <7>2
          <6> QED
            BY <6>1, <6>2
        <5>3. PutLast(h, k, n) <=> PutLast(l, k, n)
          BY <5>1, <5>2 DEF PutLast
        <5> QED
          BY <2>1, <2>2, <2>4, <5>1, <5>3
      <4>2. CASE n > Len(l)
        <5>1. ~PutLast(h, k, n)
          BY <3>2, <4>2 DEF PutLast, Touches
        <5> QED
          BY <1>1, <2>1, <2>2, <2>4, <4>2, <5>1
      <4> QED
        BY <1>1, <4>1, <4>2
    <3> QED
      BY <1>1, <2>1, <2>2, <2>4, <3>3
  <2>5. CASE touching # {}
    <3>1. \E j \in touching : \A m \in touching : m <= j
      <4>1. touching \subseteq 0..Len(batch)
        BY <1>1, <2>3
      <4> HIDE DEF touching
      <4> QED
        BY <1>1, <2>5, <4>1, NatMax
    <3>2. top \in touching /\ \A m \in touching : m <= top
      BY <3>1
    <3> HIDE DEF top
    <3>3. /\ top \in 1..Len(batch) /\ Touches(batch[top], k)
          /\ \A m \in 1..Len(batch) : m > top => ~Touches(batch[m], k)
      <4>1. top \in 1..Len(batch) /\ Touches(batch[top], k)
        BY <1>1, <3>2
      <4>2. ASSUME NEW m \in 1..Len(batch), m > top, Touches(batch[m], k)
            PROVE  FALSE
        <5>1. m <= top
          BY <1>1, <3>2, <4>2
        <5> QED
          BY <4>1, <4>2, <5>1
      <4> QED
        BY <4>1, <4>2
    <3> DEFINE p == Len(l) + top
    <3>4. p \in 1..Len(h) /\ p > Len(l) /\ h[p] = batch[top]
      BY <1>1, <3>3
    <3>5. h[p].revision = p
      BY <3>4 DEF NumberedOK, h
    <3>6. \A m \in 1..Len(h) : m > p => ~Touches(h[m], k)
      <4> SUFFICES ASSUME NEW m \in 1..Len(h), m > p PROVE ~Touches(h[m], k)
        OBVIOUS
      <4>1. m - Len(l) \in 1..Len(batch) /\ m - Len(l) > top
            /\ Len(l) + (m - Len(l)) = m
        BY <1>1, <3>3
      <4> QED
        BY <1>1, <3>3, <4>1
    <3> HIDE DEF p
    <3>7. after[k] = IF h[p].operation = "put" THEN p ELSE 0
      BY <2>1, <2>5, <3>4, <3>5
    <3>8. ASSUME NEW n \in 1..Len(h) PROVE after[k] = n <=> PutLast(h, k, n)
      <4>1. CASE n < p
        <5>1. p \in (n + 1)..Len(h)
          BY <1>1, <3>4, <4>1
        <5>2. ~PutLast(h, k, n)
          BY <3>3, <3>4, <5>1 DEF PutLast
        <5> QED
          BY <3>4, <3>7, <4>1, <5>2
      <4>2. CASE n = p
        <5>1. \A m \in (n + 1)..Len(h) : ~Touches(h[m], k)
          <6> SUFFICES ASSUME NEW m \in (n + 1)..Len(h) PROVE ~Touches(h[m], k)
            OBVIOUS
          <6>1. m \in 1..Len(h) /\ m > p
            BY <1>1, <4>2
          <6> QED
            BY <3>6, <6>1
        <5>2. h[p].operation = "put" => h[p].key = k
          BY <3>3, <3>4 DEF Touches
        <5> QED
          BY <3>4, <3>7, <4>2, <5>1, <5>2 DEF PutLast
      <4>3. CASE n > p
        <5>1. ~PutLast(h, k, n)
          BY <3>6, <4>3 DEF PutLast, Touches
        <5> QED
          BY <3>4, <3>7, <4>3, <5>1
      <4> QED
        BY <3>4, <4>1, <4>2, <4>3
    <3> QED
      BY <1>1, <3>4, <3>7, <3>8
  <2> QED
    BY <2>4, <2>5
<1>3. after = [k \in Keys |-> after[k]]
  BY DEF RecordsAfter
<1> HIDE DEF h, after
<1>4. after \in [Keys -> Nat]
  BY <1>2, <1>3
<1>5. ReplayOK(after, h)
  BY <1>2 DEF ReplayOK
<1> QED
  BY <1>4, <1>5 DEF h, after

LEMMA FloorOK ==
    ASSUME NEW a \in Nat
    PROVE  Floor(a) \in Nat /\ Floor(a) <= a
BY CapacityAssumption DEF Floor

LEMMA IntervalSize ==
    ASSUME NEW d \in Nat, NEW m \in Nat, d <= m
    PROVE  Cardinality((d + 1)..m) = m - d
<1>1. PICK a \in Int : a = d + 1
  OBVIOUS
<1>2. m \in Int
  OBVIOUS
<1>3. Cardinality(a..m) = IF a > m THEN 0 ELSE m - a + 1
  BY <1>1, <1>2, FS_Interval
<1>4. CASE a > m
  BY <1>1, <1>3, <1>4
<1>5. CASE ~(a > m)
  BY <1>1, <1>3, <1>5
<1> QED
  BY <1>4, <1>5

(* changes_since_impl: the snapshot is the history behind r, from its      *)
(* first change on and without a gap.                                      *)
LEMMA SnapshotOK ==
    ASSUME NEW st \in MemoryStoreState, NEW l \in Seq(Change), WindowOK(st, l),
           NumberedOK(l), NEW r \in Nat, Retained(st, r), NEW limit \in Nat
    PROVE  LET q == SnapshotAfter(st, r, limit)
           IN  /\ q \in Seq(Change) /\ r + Len(q) <= Len(l)
               /\ \A n \in 1..Len(q) : q[n] = l[r + n]
<1> DEFINE newer == {j \in DOMAIN st.changes : st.changes[j].revision > r}
           Nth(n) == CHOOSE j \in newer : Cardinality({x \in newer : x <= j}) = n
           size == IF Cardinality(newer) > limit THEN limit ELSE Cardinality(newer)
           q == SnapshotAfter(st, r, limit)
<1>1. q = [n \in 1..size |-> st.changes[Nth(n)]]
  BY DEF SnapshotAfter
<1>2. PICK f \in Nat : f = Floor(Len(l)) /\ f <= Len(l)
  <2>1. Len(l) \in Nat
    OBVIOUS
  <2> QED
    BY <2>1, FloorOK
<1>3. /\ st.changes \in Seq(Change) /\ Len(st.changes) = Len(l) - f
      /\ \A j \in 1..(Len(l) - f) : st.changes[j] = l[f + j]
      /\ f <= r /\ r <= Len(l) /\ Len(l) \in Nat
  BY <1>2 DEF WindowOK, Retained, MemoryStoreState
<1>4. PICK d \in Nat : r = f + d
  <2>1. r - f \in Nat /\ r = f + (r - f)
    BY <1>2, <1>3
  <2> QED
    BY <2>1
<1>5. PICK m \in Nat : m = Len(l) - f
  BY <1>2
<1>6. DOMAIN st.changes = 1..m /\ d <= m
  BY <1>2, <1>3, <1>4, <1>5, SMTT(60)
<1>7. \A j \in 1..m : st.changes[j].revision = f + j
  <2> SUFFICES ASSUME NEW j \in 1..m PROVE st.changes[j].revision = f + j
    OBVIOUS
  <2>1. f + j \in 1..Len(l) /\ j \in 1..(Len(l) - f)
    BY <1>2, <1>5
  <2>2. st.changes[j] = l[f + j] /\ l[f + j].revision = f + j
    BY <1>3, <2>1 DEF NumberedOK
  <2> QED
    BY <2>2
<1>8. newer = (d + 1)..m
  BY <1>4, <1>6, <1>7, SMTT(60)
<1>9. ASSUME NEW j \in newer
      PROVE  Cardinality({x \in newer : x <= j}) = j - d
  <2>1. {x \in newer : x <= j} = (d + 1)..j /\ j \in Nat /\ d + 1 <= j
    BY <1>8
  <2>2. Cardinality((d + 1)..j) = j - d
    BY <2>1, IntervalSize
  <2> QED
    BY <2>1, <2>2
<1>10. Cardinality(newer) = m - d
  <2>1. Cardinality((d + 1)..m) = m - d
    BY <1>6, IntervalSize
  <2> QED
    BY <1>6, <1>8, <2>1
<1>11. size \in Nat /\ size <= m - d
  BY <1>6, <1>10
<1>12. ASSUME NEW n \in 1..size PROVE d + n \in 1..m /\ Nth(n) = d + n
  <2>1. d + n \in newer /\ d + n \in 1..m
    BY <1>8, <1>11
  <2>2. \A j \in newer : Cardinality({x \in newer : x <= j}) = n <=> j = d + n
    <3> SUFFICES ASSUME NEW j \in newer
                 PROVE  Cardinality({x \in newer : x <= j}) = n <=> j = d + n
      OBVIOUS
    <3>1. Cardinality({x \in newer : x <= j}) = j - d /\ j \in Nat
      BY <1>8, <1>9
    <3> HIDE DEF newer
    <3> QED
      BY <3>1
  <2> QED
    BY <2>1, <2>2
<1> HIDE DEF newer, Nth, size, q
<1>13. \A n \in 1..size : q[n] = l[r + n] /\ q[n] \in Change
  <2> SUFFICES ASSUME NEW n \in 1..size PROVE q[n] = l[r + n] /\ q[n] \in Change
    OBVIOUS
  <2>1. q[n] = st.changes[d + n] /\ d + n \in 1..m
    BY <1>1, <1>12
  <2>2. st.changes[d + n] = l[f + (d + n)] /\ st.changes[d + n] \in Change
    BY <1>3, <1>5, <2>1
  <2>3. f + (d + n) = r + n
    BY <1>4, <1>11
  <2> QED
    BY <2>1, <2>2, <2>3
<1>14. q \in Seq(Change) /\ Len(q) = size
  <2>1. q \in [1..size -> Change]
    BY <1>1, <1>13
  <2> QED
    BY <1>11, <2>1
<1>15. r + size <= Len(l)
  BY <1>2, <1>4, <1>5, <1>6, <1>11, SMTT(60)
<1> QED
  BY <1>13, <1>14, <1>15 DEF q

-----------------------------------------------------------------------------
(* The parts of the invariant. *)

CallSet ==
    {IdleCall}
    \cup [op: {"open"}, of: States]
    \cup [op: {"subscribe"}, sub: Subs, after: Revisions]
    \cup [op: {"poll"}, sub: Subs, snapshot: Seq(Change), delivered: Nat]

Subscription == [of: 0..MaxStates, revision: Revisions, start: Revisions]

LEMMA CallShape ==
    ASSUME NEW c \in CallSet
    PROVE  /\ c.op \in {"idle", "open", "subscribe", "poll"}
           /\ c.op = "open" => c.of \in States
           /\ c.op = "subscribe" => c.sub \in Subs /\ c.after \in Revisions
           /\ c.op = "poll" =>
                 c.sub \in Subs /\ c.snapshot \in Seq(Change) /\ c.delivered \in Nat
BY DEF CallSet, IdleCall

LEMMA CallMade ==
    /\ IdleCall \in CallSet /\ IdleCall.op = "idle"
    /\ \A i \in States : /\ OpenCall(i) \in CallSet
                         /\ OpenCall(i).op = "open" /\ OpenCall(i).of = i
    /\ \A s \in Subs, r \in Revisions :
          /\ SubscribeCall(s, r) \in CallSet /\ SubscribeCall(s, r).op = "subscribe"
          /\ SubscribeCall(s, r).sub = s /\ SubscribeCall(s, r).after = r
    /\ \A s \in Subs, q \in Seq(Change) :
          /\ PollCall(s, q) \in CallSet /\ PollCall(s, q).op = "poll"
          /\ PollCall(s, q).sub = s /\ PollCall(s, q).snapshot = q
          /\ PollCall(s, q).delivered = 0
BY DEF CallSet, IdleCall, OpenCall, SubscribeCall, PollCall

LEMMA Types ==
    ASSUME TypeOK
    PROVE  /\ current \in 0..MaxStates
           /\ state \in [States -> MemoryStoreState] /\ log \in [States -> Seq(Change)]
           /\ handle \in [Threads -> 0..MaxStates]
           /\ sub \in [Subs -> Subscription] /\ got \in [Subs -> SUBSET Change]
           /\ call \in [Threads -> CallSet]
           /\ \A x \in 0..MaxStates : x # 0 => x \in States
           /\ \A s \in Subs : sub[s].of # 0 => sub[s].of \in States
           /\ \A t \in Threads : handle[t] # 0 => handle[t] \in States
<1>1. \A x \in 0..MaxStates : x # 0 => x \in States
  BY MaxStatesAssumption DEF States
<1>2. sub \in [Subs -> Subscription] /\ handle \in [Threads -> 0..MaxStates]
  BY DEF TypeOK, Subscription
<1>3. \A s \in Subs : sub[s].of \in 0..MaxStates
  BY <1>2 DEF Subscription
<1>4. \A s \in Subs : sub[s].of # 0 => sub[s].of \in States
  BY <1>1, <1>3
<1>5. \A t \in Threads : handle[t] # 0 => handle[t] \in States
  BY <1>1, <1>2
<1> QED
  BY <1>1, <1>2, <1>4, <1>5 DEF TypeOK, CallSet

(* The counts of a state whose users and subscribers stay. *)
LEMMA SameCount ==
    ASSUME NEW i \in States, CountOK(i),
           Users(i)' = Users(i), Subscribers(i)' = Subscribers(i),
           state'[i].handle_count = state[i].handle_count,
           state'[i].subscription_count = state[i].subscription_count
    PROVE  CountOK(i)'
BY DEF CountOK

LEMMA SameUsers ==
    ASSUME UNCHANGED <<call, handle>>
    PROVE  \A i \in States : Users(i)' = Users(i)
BY DEF Users

LEMMA SameSubscribers ==
    ASSUME UNCHANGED sub
    PROVE  \A i \in States : Subscribers(i)' = Subscribers(i)
BY DEF Subscribers

SameContent(a, b) ==
    /\ a.records = b.records /\ a.changes = b.changes
    /\ a.revision = b.revision /\ a.retained_floor = b.retained_floor

LEMMA QuietContent ==
    ASSUME ContentInv, \A i \in States : SameContent(state'[i], state[i]),
           UNCHANGED log
    PROVE  ContentInv'
BY DEF ContentInv, SameContent, WindowOK

(* A count that moves leaves the rest of the state alone. *)
LEMMA CountMoves ==
    ASSUME NEW st \in MemoryStoreState, NEW n \in Nat
    PROVE  /\ [st EXCEPT !.handle_count = n] \in MemoryStoreState
           /\ SameContent([st EXCEPT !.handle_count = n], st)
           /\ [st EXCEPT !.handle_count = n].handle_count = n
           /\ [st EXCEPT !.handle_count = n].subscription_count = st.subscription_count
           /\ [st EXCEPT !.subscription_count = n] \in MemoryStoreState
           /\ SameContent([st EXCEPT !.subscription_count = n], st)
           /\ [st EXCEPT !.subscription_count = n].handle_count = st.handle_count
           /\ [st EXCEPT !.subscription_count = n].subscription_count = n
BY DEF MemoryStoreState, SameContent

LEMMA HandleCountMoves ==
    ASSUME TypeOK, NEW i \in States, NEW n \in Nat,
           state' = [state EXCEPT ![i] = [state[i] EXCEPT !.handle_count = n]]
    PROVE  /\ state' \in [States -> MemoryStoreState]
           /\ \A j \in States :
                 /\ SameContent(state'[j], state[j])
                 /\ state'[j].subscription_count = state[j].subscription_count
                 /\ j # i => state'[j].handle_count = state[j].handle_count
           /\ state'[i].handle_count = n
<1>1. state \in [States -> MemoryStoreState]
  BY Types
<1>2. state[i] \in MemoryStoreState
  BY <1>1
<1>3. PICK st : st = [state[i] EXCEPT !.handle_count = n]
  OBVIOUS
<1>4. /\ st \in MemoryStoreState /\ SameContent(st, state[i]) /\ st.handle_count = n
      /\ st.subscription_count = state[i].subscription_count
  BY <1>2, <1>3, CountMoves
<1>5. state' = [state EXCEPT ![i] = st]
  BY <1>3
<1>6. \A j \in States : SameContent(state[j], state[j])
  BY DEF SameContent
<1> QED
  BY <1>1, <1>4, <1>5, <1>6

LEMMA SubscriptionCountMoves ==
    ASSUME TypeOK, NEW i \in States, NEW n \in Nat,
           state' = [state EXCEPT ![i] = [state[i] EXCEPT !.subscription_count = n]]
    PROVE  /\ state' \in [States -> MemoryStoreState]
           /\ \A j \in States :
                 /\ SameContent(state'[j], state[j])
                 /\ state'[j].handle_count = state[j].handle_count
                 /\ j # i => state'[j].subscription_count = state[j].subscription_count
           /\ state'[i].subscription_count = n
<1>1. state \in [States -> MemoryStoreState]
  BY Types
<1>2. state[i] \in MemoryStoreState
  BY <1>1
<1>3. PICK st : st = [state[i] EXCEPT !.subscription_count = n]
  OBVIOUS
<1>4. /\ st \in MemoryStoreState /\ SameContent(st, state[i])
      /\ st.subscription_count = n /\ st.handle_count = state[i].handle_count
  BY <1>2, <1>3, CountMoves
<1>5. state' = [state EXCEPT ![i] = st]
  BY <1>3
<1>6. \A j \in States : SameContent(state[j], state[j])
  BY DEF SameContent
<1> QED
  BY <1>1, <1>4, <1>5, <1>6

-----------------------------------------------------------------------------
(* What a step of one thread leaves alone. *)

(* Thread t goes on with call c and handle h. *)
Moves(t, c, h) ==
    /\ t \in Threads /\ c \in CallSet /\ h \in 0..MaxStates
    /\ call' = [call EXCEPT ![t] = c] /\ handle' = [handle EXCEPT ![t] = h]

LEMMA Moved ==
    ASSUME TypeOK, NEW t, NEW c, NEW h, Moves(t, c, h)
    PROVE  /\ call' \in [Threads -> CallSet] /\ handle' \in [Threads -> 0..MaxStates]
           /\ call'[t] = c /\ handle'[t] = h
           /\ \A u \in Threads : u # t => call'[u] = call[u] /\ handle'[u] = handle[u]
BY Types DEF Moves

LEMMA KeepsHandle ==
    ASSUME TypeOK, NEW t \in Threads, NEW c \in CallSet, Become(t, c),
           UNCHANGED handle
    PROVE  Moves(t, c, handle[t])
BY Types DEF Moves, Become

LEMMA UsersMove ==
    ASSUME TypeOK, NEW t, NEW c, NEW h, Moves(t, c, h), NEW i
    PROVE  /\ (h = i \/ (c.op = "open" /\ c.of = i)) => Users(i)' = Users(i) \cup {t}
           /\ ~(h = i \/ (c.op = "open" /\ c.of = i)) => Users(i)' = Users(i) \ {t}
<1>1. /\ t \in Threads /\ call'[t] = c /\ handle'[t] = h
      /\ \A u \in Threads : u # t => call'[u] = call[u] /\ handle'[u] = handle[u]
  BY Moved DEF Moves
<1>2. \A u : u # t => (u \in Users(i)' <=> u \in Users(i))
  BY <1>1 DEF Users
<1>3. t \in Users(i)' <=> (h = i \/ (c.op = "open" /\ c.of = i))
  BY <1>1 DEF Users
<1> QED
  BY <1>2, <1>3

LEMMA ExclusiveStays ==
    ASSUME TypeOK, Exclusive, NEW t, NEW c, NEW h, Moves(t, c, h),
           c.op \in {"subscribe", "poll"} =>
               \A u \in Threads : u # t /\ call[u].op = c.op => call[u].sub # c.sub
    PROVE  Exclusive'
<1>1. /\ t \in Threads /\ call'[t] = c
      /\ \A u \in Threads : u # t => call'[u] = call[u]
  BY Moved DEF Moves
<1> SUFFICES ASSUME NEW u \in Threads, NEW v \in Threads,
                    call'[u].op \in {"subscribe", "poll"}, call'[v].op = call'[u].op,
                    call'[v].sub = call'[u].sub
             PROVE  u = v
  BY DEF Exclusive
<1>2. CASE u # t /\ v # t
  BY <1>1, <1>2 DEF Exclusive
<1>3. CASE u = t
  BY <1>1, <1>3
<1>4. CASE v = t
  BY <1>1, <1>4
<1> QED
  BY <1>2, <1>3, <1>4

(* The history of a state only gets longer. *)
Extended(i) ==
    /\ Len(log[i]) \in Nat /\ Len(log'[i]) \in Nat /\ Len(log[i]) <= Len(log'[i])
    /\ \A j \in 1..Len(log[i]) : log'[i][j] = log[i][j]

LEMMA SameExtended ==
    ASSUME TypeOK, NEW i \in States, log'[i] = log[i]
    PROVE  Extended(i)
BY Types DEF Extended

(* A subscription, as a step that does not poll it sees it. *)
Kept(s) ==
    sub'[s] = sub[s] /\ got[s] \subseteq got'[s]
        /\ (sub[s].of # 0 => Extended(sub[s].of))

LEMMA SubStays ==
    ASSUME TypeOK, NEW s \in Subs, SubOK(s), Kept(s)
    PROVE  SubOK(s)'
<1> SUFFICES ASSUME sub[s].of # 0
             PROVE  /\ sub[s].start <= sub[s].revision
                    /\ sub[s].revision <= Len(log'[sub[s].of])
                    /\ \A r \in (sub[s].start + 1)..sub[s].revision :
                          log'[sub[s].of][r] \in got'[s]
  BY DEF SubOK, Kept
<1>1. /\ sub[s].revision \in Nat /\ sub[s].start \in Nat
  BY Types, MaxRevisionAssumption DEF Subscription, Revisions
<1>2. /\ sub[s].start <= sub[s].revision
      /\ sub[s].revision <= Len(log[sub[s].of])
      /\ \A r \in (sub[s].start + 1)..sub[s].revision :
            log[sub[s].of][r] \in got[s]
  BY DEF SubOK
<1>3. PICK a \in Nat : a = Len(log[sub[s].of])
  BY DEF Kept, Extended
<1>4. /\ Len(log'[sub[s].of]) \in Nat /\ a <= Len(log'[sub[s].of])
      /\ \A j \in 1..a : log'[sub[s].of][j] = log[sub[s].of][j]
      /\ got[s] \subseteq got'[s]
  BY <1>3 DEF Kept, Extended
<1>5. \A r \in (sub[s].start + 1)..sub[s].revision : r \in 1..a
  BY <1>1, <1>2, <1>3
<1> QED
  BY <1>1, <1>2, <1>3, <1>4, <1>5, SMTT(60)

LEMMA CallStays ==
    ASSUME TypeOK, NEW t \in Threads, CallOK(t),
           call'[t] = call[t], handle'[t] = handle[t],
           call[t].op = "subscribe" => /\ sub'[call[t].sub].of = 0
                                       /\ Extended(handle[t]),
           call[t].op = "poll" => Kept(call[t].sub)
    PROVE  CallOK(t)'
<1>1. call[t] \in CallSet
  BY Types
<1>2. ASSUME call[t].op = "subscribe"
      PROVE  /\ handle[t] # 0 /\ sub'[call[t].sub].of = 0
             /\ call[t].after <= Len(log'[handle[t]])
  <2>1. call[t].after \in Nat /\ handle[t] # 0 /\ call[t].after <= Len(log[handle[t]])
    BY <1>1, <1>2, CallShape, MaxRevisionAssumption DEF CallOK, Revisions
  <2> QED
    BY <1>2, <2>1, SMTT(60) DEF Extended
<1>3. ASSUME call[t].op = "poll" PROVE PollOK(t)'
  <2>1. PICK s \in Subs : s = call[t].sub
    BY <1>1, <1>3, CallShape
  <2>2. /\ call[t].snapshot \in Seq(Change) /\ call[t].delivered \in Nat
        /\ sub[s].revision \in Nat
    BY <1>1, <1>3, CallShape, Types, MaxRevisionAssumption DEF Subscription, Revisions
  <2>3. PICK n \in Nat : n = Len(call[t].snapshot)
    BY <2>2
  <2>4. /\ sub[s].of # 0 /\ call[t].delivered <= n
        /\ sub[s].revision + n <= Len(log[sub[s].of])
        /\ \A j \in 1..n : call[t].snapshot[j] = log[sub[s].of][sub[s].revision + j]
        /\ \A j \in 1..call[t].delivered : call[t].snapshot[j] \in got[s]
    <3>1. PollOK(t)
      BY <1>3 DEF CallOK
    <3>2. PICK d, r, o : d = call[t].delivered /\ r = sub[s].revision /\ o = sub[s].of
      OBVIOUS
    <3>3. o # 0 /\ d <= n
      BY <2>1, <2>3, <3>1, <3>2, Zenon DEF PollOK
    <3>4. r + n <= Len(log[o])
      BY <2>1, <2>3, <3>1, <3>2, Zenon DEF PollOK
    <3>5. \A j \in 1..n : call[t].snapshot[j] = log[o][r + j]
      BY <2>1, <2>3, <3>1, <3>2, Zenon DEF PollOK
    <3>6. \A j \in 1..d : call[t].snapshot[j] \in got[s]
      BY <2>1, <2>3, <3>1, <3>2, Zenon DEF PollOK
    <3> QED
      BY <3>2, <3>3, <3>4, <3>5, <3>6
  <2>5. /\ sub'[s] = sub[s] /\ got[s] \subseteq got'[s]
        /\ Len(log[sub[s].of]) \in Nat /\ Len(log'[sub[s].of]) \in Nat
        /\ Len(log[sub[s].of]) <= Len(log'[sub[s].of])
        /\ \A j \in 1..Len(log[sub[s].of]) : log'[sub[s].of][j] = log[sub[s].of][j]
    BY <1>3, <2>1, <2>4 DEF Kept, Extended
  <2>6. \A j \in 1..n : sub[s].revision + j \in 1..Len(log[sub[s].of])
    BY <2>2, <2>4, <2>5, SMTT(60)
  <2>7. sub[s].revision + n <= Len(log'[sub[s].of])
    BY <2>2, <2>4, <2>5, SMTT(60)
  <2>8. \A j \in 1..n : call[t].snapshot[j] = log'[sub[s].of][sub[s].revision + j]
    BY <2>4, <2>5, <2>6
  <2>9. \A j \in 1..call[t].delivered : call[t].snapshot[j] \in got'[s]
    BY <2>4, <2>5
  <2> QED
    BY <2>1, <2>3, <2>4, <2>5, <2>7, <2>8, <2>9, ZenonT(60) DEF PollOK
<1> QED
  BY <1>2, <1>3 DEF CallOK

(* A step of t that touches no history and no subscription. *)
LEMMA Quiet ==
    ASSUME IInv, NEW t, NEW c, NEW h, Moves(t, c, h), UNCHANGED <<log, sub, got>>
    PROVE  /\ \A u \in Threads : u # t => CallOK(u)'
           /\ SubInv'
           /\ \A i \in States : Subscribers(i)' = Subscribers(i)
<1>1. \A i \in States : Extended(i)
  BY SameExtended DEF IInv
<1>2. \A s \in Subs : Kept(s)
  <2>1. \A s \in Subs : sub[s].of # 0 => sub[s].of \in States
    BY Types DEF IInv
  <2> QED
    BY <1>1, <2>1 DEF Kept
<1>3. ASSUME NEW u \in Threads, u # t PROVE CallOK(u)'
  <2>1. call'[u] = call[u] /\ handle'[u] = handle[u]
    BY <1>3, Moved DEF IInv
  <2>2. CallOK(u) /\ call[u] \in CallSet
    BY Types DEF IInv, CallInv
  <2>3. call[u].op = "subscribe" => sub'[call[u].sub].of = 0 /\ Extended(handle[u])
    <3>1. call[u].op = "subscribe" => handle[u] # 0 /\ sub[call[u].sub].of = 0
      BY <2>2 DEF CallOK
    <3>2. handle[u] # 0 => handle[u] \in States
      BY Types DEF IInv
    <3> QED
      BY <1>1, <3>1, <3>2
  <2>4. call[u].op = "poll" => Kept(call[u].sub)
    BY <1>2, <2>2, CallShape
  <2> QED
    BY <2>1, <2>2, <2>3, <2>4, CallStays DEF IInv
<1>4. SubInv'
  BY <1>2, SubStays DEF IInv, SubInv
<1> QED
  BY <1>3, <1>4, SameSubscribers

(* The pieces of TypeOK put together again. *)
LEMMA TypesMade ==
    ASSUME current' \in 0..MaxStates,
           state' \in [States -> MemoryStoreState], log' \in [States -> Seq(Change)],
           handle' \in [Threads -> 0..MaxStates], sub' \in [Subs -> Subscription],
           got' \in [Subs -> SUBSET Change], call' \in [Threads -> CallSet]
    PROVE  TypeOK'
BY DEF TypeOK, Subscription, CallSet

LEMMA OthersUsers ==
    ASSUME IInv, NEW t, NEW c, NEW h, Moves(t, c, h), NEW i \in States,
           ~(h = i \/ (c.op = "open" /\ c.of = i)), t \notin Users(i)
    PROVE  Users(i)' = Users(i)
BY UsersMove DEF IInv

LEMMA StateNotZero == 0 \notin States
BY DEF States

-----------------------------------------------------------------------------
(* The steps. *)

LEMMA DestroyStep ==
    ASSUME IInv, Destroy
    PROVE  IInv'
<1>1. UNCHANGED <<state, log, call, handle, sub, got>> /\ current' = 0
  BY DEF Destroy
<1>2. current \in States
  BY Types DEF IInv, Destroy
<1>3. Users(current) = {} /\ Subscribers(current) = {}
  <2>1. CountOK(current)
    BY <1>2 DEF IInv, CountInv
  <2>2. Cardinality(Users(current)) = 0 /\ Cardinality(Subscribers(current)) = 0
    BY <2>1 DEF CountOK, Destroy, Unused
  <2> QED
    BY <2>1, <2>2, FS_EmptySet, Zenon DEF CountOK
<1>4. /\ \A t \in Threads : handle[t] # current
      /\ \A t \in Threads : call[t].op = "open" => call[t].of # current
      /\ \A s \in Subs : sub[s].of # current
  BY <1>3 DEF Users, Subscribers
<1>5. OneLiveStore'
  BY <1>1, <1>4 DEF IInv, OneLiveStore
<1>6. TypeOK'
  BY <1>1, MaxStatesAssumption DEF IInv, TypeOK
<1>7. CountInv' /\ ContentInv' /\ CallInv' /\ Exclusive' /\ SubInv'
  <2>1. \A i \in States : Users(i)' = Users(i) /\ Subscribers(i)' = Subscribers(i)
    BY <1>1 DEF Users, Subscribers
  <2>2. CountInv'
    BY <1>1, <2>1 DEF IInv, CountInv, CountOK
  <2>3. ContentInv'
    BY <1>1 DEF IInv, ContentInv
  <2>4. CallInv' /\ Exclusive' /\ SubInv'
    BY <1>1 DEF IInv, CallInv, CallOK, PollOK, Exclusive, SubInv, SubOK
  <2> QED
    BY <2>2, <2>3, <2>4
<1> QED
  BY <1>5, <1>6, <1>7 DEF IInv

(* A handle is counted for a thread that has none. *)
LEMMA OpenCountStep ==
    ASSUME IInv, NEW t \in Threads, OpenCount(t)
    PROVE  IInv'
<1>1. PICK i \in States :
          /\ \/ /\ i = current
                /\ state' = [state EXCEPT ![i] = Counted(@)]
                /\ UNCHANGED <<current, log>>
             \/ /\ current = 0 /\ Unreferenced(i)
                /\ current' = i
                /\ state' = [state EXCEPT ![i] = Counted(EmptyState)]
                /\ log' = [log EXCEPT ![i] = <<>>]
          /\ Become(t, OpenCall(i))
  BY DEF OpenCount
<1>2. /\ OpenCall(i) \in CallSet /\ OpenCall(i).op = "open" /\ OpenCall(i).of = i
  BY CallMade
<1>3. PICK c \in CallSet : c = OpenCall(i) /\ c.op = "open" /\ c.of = i
  BY <1>2
<1>4. Moves(t, c, 0)
  <2>1. UNCHANGED handle /\ handle[t] = 0
    BY DEF OpenCount
  <2>2. Moves(t, c, handle[t])
    BY <1>1, <1>3, <2>1, KeepsHandle DEF IInv
  <2> QED
    BY <2>1, <2>2
<1>5. /\ call' \in [Threads -> CallSet] /\ call'[t] = c /\ handle' = handle
      /\ \A u \in Threads : u # t => call'[u] = call[u]
  BY <1>4, Moved DEF IInv, OpenCount
<1>6. Exclusive'
  BY <1>3, <1>4, ExclusiveStays DEF IInv
<1>7. UNCHANGED <<handle, sub, got>>
  BY DEF OpenCount
<1>8. \A j : t \notin Users(j) \/ j = 0
  BY DEF OpenCount, Idle, Users
<1>9. \A j \in States : j # i => Users(j)' = Users(j)
  <2> SUFFICES ASSUME NEW j \in States, j # i PROVE Users(j)' = Users(j)
    OBVIOUS
  <2>1. j # 0
    BY StateNotZero
  <2> QED
    BY <1>3, <1>4, <1>8, <2>1, OthersUsers
<1>10. Users(i)' = Users(i) \cup {t} /\ t \notin Users(i)
  <2>1. i # 0
    BY StateNotZero
  <2> QED
    BY <1>3, <1>4, <1>8, <2>1, UsersMove DEF IInv
<1>11. CallOK(t)'
  <2>1. handle'[t] = 0 /\ call'[t].op = "open"
    BY <1>3, <1>5 DEF OpenCount
  <2> QED
    BY <2>1 DEF CallOK
<1>12. CountOK(i) /\ CountInv
  BY DEF IInv, CountInv
<1>13. CASE /\ i = current /\ UNCHANGED <<current, log>>
            /\ state' = [state EXCEPT ![i] = Counted(@)]
  <2>1. state[i] \in MemoryStoreState
    BY Types DEF IInv
  <2>2. PICK n \in Nat : n = state[i].handle_count + 1
    BY <2>1 DEF MemoryStoreState
  <2>3. state' = [state EXCEPT ![i] = [state[i] EXCEPT !.handle_count = n]]
    BY <1>13, <2>2 DEF Counted
  <2>4. /\ state' \in [States -> MemoryStoreState]
        /\ \A j \in States :
              /\ SameContent(state'[j], state[j])
              /\ state'[j].subscription_count = state[j].subscription_count
              /\ j # i => state'[j].handle_count = state[j].handle_count
        /\ state'[i].handle_count = n
    BY <2>3, HandleCountMoves DEF IInv
  <2>5. /\ \A u \in Threads : u # t => CallOK(u)'
        /\ SubInv' /\ \A j \in States : Subscribers(j)' = Subscribers(j)
    BY <1>4, <1>7, <1>13, Quiet
  <2>6. CallInv'
    BY <1>11, <2>5 DEF CallInv
  <2>7. CountInv'
    <3>1. CountOK(i)'
      <4>1. IsFiniteSet(Users(i)) /\ Cardinality(Users(i)) = state[i].handle_count
        BY <1>12 DEF CountOK
      <4>2. IsFiniteSet(Users(i)') /\ Cardinality(Users(i)') = state[i].handle_count + 1
        BY <1>10, <4>1, FS_AddElement
      <4> QED
        BY <1>12, <2>2, <2>4, <2>5, <4>2 DEF CountOK
    <3>2. ASSUME NEW j \in States, j # i PROVE CountOK(j)'
      BY <1>9, <1>12, <2>4, <2>5, <3>2, SameCount DEF CountInv
    <3> QED
      BY <3>1, <3>2 DEF CountInv
  <2>8. ContentInv'
    BY <1>13, <2>4, QuietContent DEF IInv
  <2>9. OneLiveStore'
    BY <1>3, <1>5, <1>7, <1>13 DEF IInv, OneLiveStore
  <2>10. TypeOK'
    <3>1. /\ current' \in 0..MaxStates /\ log' \in [States -> Seq(Change)]
          /\ handle' \in [Threads -> 0..MaxStates] /\ sub' \in [Subs -> Subscription]
          /\ got' \in [Subs -> SUBSET Change]
      BY <1>7, <1>13, Types DEF IInv
    <3> QED
      BY <1>5, <2>4, <3>1, TypesMade
  <2> QED
    BY <1>6, <2>5, <2>6, <2>7, <2>8, <2>9, <2>10 DEF IInv
<1>14. CASE /\ current = 0 /\ Unreferenced(i) /\ current' = i
            /\ state' = [state EXCEPT ![i] = Counted(EmptyState)]
            /\ log' = [log EXCEPT ![i] = <<>>]
  <2>1. \A u \in Threads : handle[u] = 0
    BY <1>14 DEF IInv, OneLiveStore
  <2>2. \A s \in Subs : sub[s].of = 0
    BY <1>14 DEF IInv, OneLiveStore
  <2>3. \A u \in Threads : u # t => call[u].op = "idle"
    <3> SUFFICES ASSUME NEW u \in Threads PROVE call[u].op = "idle"
      OBVIOUS
    <3>1. call[u] \in CallSet /\ CallOK(u)
      BY Types DEF IInv, CallInv
    <3>2. /\ call[u].op \in {"idle", "open", "subscribe", "poll"}
          /\ call[u].op = "open" => call[u].of \in States
          /\ call[u].op = "poll" => call[u].sub \in Subs
      BY <3>1, CallShape
    <3>3. call[u].op # "open"
      BY <1>14, <3>2, StateNotZero DEF IInv, OneLiveStore
    <3>4. call[u].op # "subscribe"
      BY <2>1, <3>1 DEF CallOK
    <3>5. call[u].op # "poll"
      BY <2>2, <3>1, <3>2 DEF CallOK, PollOK
    <3> QED
      BY <3>2, <3>3, <3>4, <3>5
  <2>4. CallInv'
    <3>1. ASSUME NEW u \in Threads, u # t PROVE CallOK(u)'
      <4>1. call'[u].op = "idle"
        BY <1>5, <2>3, <3>1
      <4> QED
        BY <4>1 DEF CallOK
    <3> QED
      BY <1>11, <3>1 DEF CallInv
  <2>5. SubInv'
    BY <1>7, <2>2 DEF SubInv, SubOK
  <2>6. OneLiveStore'
    <3>1. /\ \A u \in Threads : handle'[u] = 0
          /\ \A s \in Subs : sub'[s].of = 0
      BY <1>7, <2>1, <2>2
    <3>2. \A u \in Threads : call'[u].op = "open" => call'[u].of = i
      BY <1>3, <1>5, <2>3
    <3> QED
      BY <1>14, <3>1, <3>2 DEF OneLiveStore
  <2>7. PICK st : st = Counted(EmptyState)
    OBVIOUS
  <2>8. /\ st \in MemoryStoreState /\ st.handle_count = 1
        /\ st.subscription_count = 0
    <3>1. 0 \in Revisions /\ <<>> \in Seq(Change) /\ 0 \in Nat /\ 1 \in Nat
      BY MaxRevisionAssumption DEF Revisions
    <3>2. [k \in Keys |-> 0] \in [Keys -> Revisions]
      BY <3>1
    <3>3. /\ EmptyState \in MemoryStoreState /\ EmptyState.subscription_count = 0
          /\ EmptyState.handle_count = 0
      BY <3>1, <3>2, Zenon DEF EmptyState, MemoryStoreState
    <3>4. st = [EmptyState EXCEPT !.handle_count = 1]
      BY <2>7, <3>3 DEF Counted
    <3> QED
      BY <3>1, <3>3, <3>4, CountMoves
  <2>9. /\ WindowOK(st, <<>>) /\ NumberedOK(<<>>) /\ ReplayOK(st.records, <<>>)
    <3>1. Floor(0) = 0
      BY CapacityAssumption DEF Floor
    <3> QED
      BY <2>7, <3>1 DEF Counted, EmptyState, WindowOK, NumberedOK, ReplayOK
  <2>10. /\ state' \in [States -> MemoryStoreState] /\ state'[i] = st
         /\ \A j \in States : j # i => state'[j] = state[j]
         /\ log' \in [States -> Seq(Change)] /\ log'[i] = <<>>
         /\ \A j \in States : j # i => log'[j] = log[j]
    BY <1>14, <2>7, <2>8, Types DEF IInv
  <2>11. ContentInv'
    <3>1. ASSUME NEW j \in States
          PROVE  /\ WindowOK(state'[j], log'[j]) /\ NumberedOK(log'[j])
                 /\ ReplayOK(state'[j].records, log'[j])
      <4>1. CASE j = i
        BY <2>9, <2>10, <4>1
      <4>2. CASE j # i
        BY <2>10, <4>2 DEF IInv, ContentInv
      <4> QED
        BY <4>1, <4>2
    <3> QED
      BY <3>1 DEF ContentInv
  <2>12. \A j \in States : Subscribers(j)' = Subscribers(j)
    BY <1>7, SameSubscribers
  <2>13. CountInv'
    <3>1. CountOK(i)'
      <4>1. Users(i) = {} /\ Subscribers(i) = {}
        BY <1>14 DEF Unreferenced, Users, Subscribers
      <4>2. IsFiniteSet(Users(i)') /\ Cardinality(Users(i)') = 1
        <5>1. IsFiniteSet(Users(i)) /\ Cardinality(Users(i)) = 0
          BY <4>1, FS_EmptySet, Zenon
        <5> QED
          BY <1>10, <5>1, FS_AddElement
      <4>3. IsFiniteSet(Subscribers(i)') /\ Cardinality(Subscribers(i)') = 0
        BY <2>12, <4>1, FS_EmptySet
      <4> QED
        BY <2>8, <2>10, <4>2, <4>3 DEF CountOK
    <3>2. ASSUME NEW j \in States, j # i PROVE CountOK(j)'
      BY <1>9, <1>12, <2>10, <2>12, <3>2, SameCount DEF CountInv
    <3> QED
      BY <3>1, <3>2 DEF CountInv
  <2>14. TypeOK'
    <3>1. /\ current' \in 0..MaxStates
          /\ handle' \in [Threads -> 0..MaxStates] /\ sub' \in [Subs -> Subscription]
          /\ got' \in [Subs -> SUBSET Change]
      BY <1>7, <1>14, Types, MaxStatesAssumption DEF IInv, States
    <3> QED
      BY <1>5, <2>10, <3>1, TypesMade
  <2> QED
    BY <1>6, <2>4, <2>5, <2>6, <2>11, <2>13, <2>14 DEF IInv
<1> QED
  BY <1>1, <1>13, <1>14

(* A step that only moves the call or the handle of t. *)
LEMMA CallStep ==
    ASSUME IInv, NEW t, NEW c, NEW h, Moves(t, c, h),
           UNCHANGED <<current, state, log, sub, got>>, CallOK(t)',
           h # 0 => h = current, c.op = "open" => c.of = current,
           \A i \in States : Users(i)' = Users(i),
           c.op \in {"subscribe", "poll"} =>
               \A u \in Threads : u # t /\ call[u].op = c.op => call[u].sub # c.sub
    PROVE  IInv'
<1>1. /\ \A u \in Threads : u # t => CallOK(u)'
      /\ SubInv' /\ \A i \in States : Subscribers(i)' = Subscribers(i)
  BY Quiet
<1>2. CallInv'
  BY <1>1 DEF CallInv
<1>3. Exclusive'
  BY ExclusiveStays DEF IInv
<1>4. /\ t \in Threads /\ call'[t] = c /\ handle'[t] = h
      /\ call' \in [Threads -> CallSet] /\ handle' \in [Threads -> 0..MaxStates]
      /\ \A u \in Threads : u # t => call'[u] = call[u] /\ handle'[u] = handle[u]
  BY Moved DEF IInv, Moves
<1>5. OneLiveStore'
  BY <1>4 DEF IInv, OneLiveStore
<1>6. CountInv'
  BY <1>1, SameCount DEF IInv, CountInv
<1>7. ContentInv'
  BY DEF IInv, ContentInv
<1>8. TypeOK'
  <2>1. /\ current' \in 0..MaxStates /\ log' \in [States -> Seq(Change)]
        /\ state' \in [States -> MemoryStoreState] /\ sub' \in [Subs -> Subscription]
        /\ got' \in [Subs -> SUBSET Change]
    BY Types DEF IInv
  <2> QED
    BY <1>4, <2>1, TypesMade
<1> QED
  BY <1>1, <1>2, <1>3, <1>5, <1>6, <1>7, <1>8 DEF IInv

LEMMA OpenReturnStep ==
    ASSUME IInv, NEW t \in Threads, OpenReturn(t)
    PROVE  IInv'
<1>1. call[t] \in CallSet /\ CallOK(t) /\ call[t].op = "open"
  BY Types DEF IInv, CallInv, OpenReturn
<1>2. PICK h \in States : h = call[t].of /\ h = current
  BY <1>1, CallShape DEF IInv, OneLiveStore
<1>3. PICK c \in CallSet : c = IdleCall /\ c.op = "idle"
  BY CallMade
<1>4. h \in 0..MaxStates /\ handle[t] = 0
  BY <1>1, <1>2, MaxStatesAssumption DEF CallOK, States
<1>5. Moves(t, c, h)
  BY <1>2, <1>3, <1>4 DEF Moves, OpenReturn, Become
<1>6. \A i \in States : Users(i)' = Users(i)
  <2> SUFFICES ASSUME NEW i \in States PROVE Users(i)' = Users(i)
    OBVIOUS
  <2>1. /\ h = i => Users(i)' = Users(i) \cup {t}
        /\ h # i => Users(i)' = Users(i) \ {t}
    BY <1>3, <1>5, UsersMove DEF IInv
  <2>2. t \in Users(i) <=> h = i
    BY <1>1, <1>2, <1>4, StateNotZero DEF Users
  <2> QED
    BY <2>1, <2>2
<1>7. CallOK(t)'
  <2>1. call'[t].op = "idle"
    BY <1>3, <1>5, Moved DEF IInv
  <2> QED
    BY <2>1 DEF CallOK
<1> QED
  BY <1>2, <1>3, <1>5, <1>6, <1>7, CallStep DEF OpenReturn

LEMMA SameUsersMoved ==
    ASSUME IInv, NEW t \in Threads, NEW c \in CallSet, Become(t, c), UNCHANGED handle,
           c.op # "open", call[t].op # "open"
    PROVE  /\ Moves(t, c, handle[t])
           /\ \A i \in States : Users(i)' = Users(i)
<1>1. Moves(t, c, handle[t])
  BY KeepsHandle DEF IInv
<1>2. ASSUME NEW i \in States PROVE Users(i)' = Users(i)
  <2>1. /\ handle[t] = i => Users(i)' = Users(i) \cup {t}
        /\ handle[t] # i => Users(i)' = Users(i) \ {t}
    BY <1>1, UsersMove DEF IInv
  <2>2. t \in Users(i) <=> handle[t] = i
    BY DEF Users
  <2> QED
    BY <2>1, <2>2
<1> QED
  BY <1>1, <1>2

LEMMA SubscribeFailsStep ==
    ASSUME IInv, NEW t \in Threads, SubscribeFails(t)
    PROVE  IInv'
<1>1. PICK c \in CallSet : c = IdleCall /\ c.op = "idle"
  BY CallMade
<1>2. Moves(t, c, handle[t]) /\ \A i \in States : Users(i)' = Users(i)
  BY <1>1, SameUsersMoved DEF SubscribeFails
<1>3. CallOK(t)'
  <2>1. call'[t].op = "idle"
    BY <1>1, <1>2, Moved DEF IInv
  <2> QED
    BY <2>1 DEF CallOK
<1>4. handle[t] # 0 => handle[t] = current
  BY DEF IInv, OneLiveStore
<1> QED
  BY <1>1, <1>2, <1>3, <1>4, CallStep DEF SubscribeFails

LEMMA SubscribeCheckStep ==
    ASSUME IInv, NEW t \in Threads, NEW s \in Subs, NEW r \in Revisions,
           SubscribeCheck(t, s, r)
    PROVE  IInv'
<1>1. PICK c \in CallSet : /\ c = SubscribeCall(s, r) /\ c.op = "subscribe"
                           /\ c.sub = s /\ c.after = r
  BY CallMade
<1>2. Moves(t, c, handle[t]) /\ \A i \in States : Users(i)' = Users(i)
  BY <1>1, SameUsersMoved DEF SubscribeCheck, Idle
<1>3. handle[t] # 0 => handle[t] = current
  BY DEF IInv, OneLiveStore
<1>4. PICK i \in States : i = handle[t]
  BY Types DEF IInv, SubscribeCheck
<1>5. r <= Len(log[i])
  BY <1>4 DEF IInv, ContentInv, WindowOK, SubscribeCheck, Retained
<1>6. CallOK(t)'
  <2>1. /\ call'[t] = c /\ handle'[t] = i /\ i # 0 /\ sub'[s].of = 0
        /\ c.after <= Len(log'[i])
    BY <1>1, <1>2, <1>4, <1>5, Moved DEF IInv, SubscribeCheck, Free
  <2> QED
    BY <1>1, <2>1 DEF CallOK
<1>7. \A u \in Threads : u # t /\ call[u].op = c.op => call[u].sub # c.sub
  BY <1>1 DEF SubscribeCheck, Free
<1> QED
  BY <1>1, <1>2, <1>3, <1>6, <1>7, CallStep DEF SubscribeCheck

LEMMA PollBeginStep ==
    ASSUME IInv, NEW t \in Threads, NEW s \in Subs, NEW limit \in 1..MaxLimit,
           PollBegin(t, s, limit)
    PROVE  IInv'
<1>1. PICK i \in States : i = sub[s].of
  BY Types DEF IInv, PollBegin
<1>2. PICK r \in Nat : r = sub[s].revision
  BY Types, MaxRevisionAssumption DEF IInv, Subscription, Revisions
<1>3. PICK q : q = SnapshotAfter(state[i], r, limit)
  OBVIOUS
<1>4. /\ q \in Seq(Change) /\ r + Len(q) <= Len(log[i])
      /\ \A n \in 1..Len(q) : q[n] = log[i][r + n]
  <2>1. /\ state[i] \in MemoryStoreState /\ log[i] \in Seq(Change)
        /\ WindowOK(state[i], log[i]) /\ NumberedOK(log[i])
    BY Types DEF IInv, ContentInv
  <2>2. Retained(state[i], r) /\ limit \in Nat
    BY <1>1, <1>2, MaxLimitAssumption DEF PollBegin
  <2> QED
    BY <1>3, <2>1, <2>2, SnapshotOK
<1>5. PICK c \in CallSet : /\ c = PollCall(s, q) /\ c.op = "poll" /\ c.sub = s
                           /\ c.snapshot = q /\ c.delivered = 0
  BY <1>4, CallMade
<1>6. Moves(t, c, handle[t]) /\ \A j \in States : Users(j)' = Users(j)
  BY <1>1, <1>2, <1>3, <1>5, SameUsersMoved DEF PollBegin, Idle
<1>7. CallOK(t)'
  <2>1. call'[t] = c /\ sub' = sub /\ log' = log /\ got' = got /\ i # 0
    BY <1>6, Moved, StateNotZero DEF IInv, PollBegin
  <2>2. \A j \in 1..0 : q[j] \in got[s]
    OBVIOUS
  <2>3. 0 <= Len(q)
    BY <1>4
  <2>4. PollOK(t)'
    BY <1>1, <1>2, <1>4, <1>5, <2>1, <2>2, <2>3, ZenonT(60) DEF PollOK
  <2> QED
    BY <1>5, <2>1, <2>4 DEF CallOK
<1>8. \A u \in Threads : u # t /\ call[u].op = c.op => call[u].sub # c.sub
  BY <1>5 DEF PollBegin, Polled
<1>9. handle[t] # 0 => handle[t] = current
  BY DEF IInv, OneLiveStore
<1> QED
  BY <1>5, <1>6, <1>7, <1>8, <1>9, CallStep DEF PollBegin

(* t gives back the count of its handle, or of the one it was opening. *)
LEMMA LeaveStep ==
    ASSUME IInv, NEW t, NEW c, Moves(t, c, 0), c.op = "idle",
           NEW i \in States, t \in Users(i), \A j \in States : t \in Users(j) => j = i,
           state' = [state EXCEPT ![i].handle_count = @ - 1],
           UNCHANGED <<current, log, sub, got>>
    PROVE  IInv'
<1>1. /\ \A u \in Threads : u # t => CallOK(u)'
      /\ SubInv' /\ \A j \in States : Subscribers(j)' = Subscribers(j)
  BY Quiet
<1>2. /\ t \in Threads /\ call'[t] = c /\ handle'[t] = 0
      /\ call' \in [Threads -> CallSet] /\ handle' \in [Threads -> 0..MaxStates]
      /\ \A u \in Threads : u # t => call'[u] = call[u] /\ handle'[u] = handle[u]
  BY Moved DEF IInv, Moves
<1>3. CallInv'
  <2>1. CallOK(t)'
    BY <1>2 DEF CallOK
  <2> QED
    BY <1>1, <2>1 DEF CallInv
<1>4. Exclusive'
  BY ExclusiveStays DEF IInv
<1>5. OneLiveStore'
  BY <1>2 DEF IInv, OneLiveStore
<1>6. \A j \in States : Users(j)' = Users(j) \ {t}
  BY UsersMove, StateNotZero DEF IInv
<1>7. CountOK(i) /\ CountInv
  BY DEF IInv, CountInv
<1>8. /\ IsFiniteSet(Users(i)) /\ Cardinality(Users(i)) \in Nat
      /\ state[i].handle_count = Cardinality(Users(i))
  BY <1>7, FS_CardinalityType DEF CountOK
<1>9. /\ IsFiniteSet(Users(i)') /\ Cardinality(Users(i)') \in Nat
      /\ Cardinality(Users(i)') = state[i].handle_count - 1
  <2>1. IsFiniteSet(Users(i) \ {t})
        /\ Cardinality(Users(i) \ {t}) = Cardinality(Users(i)) - 1
    BY <1>8, FS_RemoveElement
  <2>2. Cardinality(Users(i) \ {t}) \in Nat
    BY <2>1, FS_CardinalityType
  <2> QED
    BY <1>6, <1>8, <2>1, <2>2
<1>10. PICK n \in Nat : n = state[i].handle_count - 1 /\ n = Cardinality(Users(i)')
  BY <1>9
<1>11. state' = [state EXCEPT ![i] = [state[i] EXCEPT !.handle_count = n]]
  BY <1>10
<1>12. /\ state' \in [States -> MemoryStoreState]
       /\ \A j \in States :
             /\ SameContent(state'[j], state[j])
             /\ state'[j].subscription_count = state[j].subscription_count
             /\ j # i => state'[j].handle_count = state[j].handle_count
       /\ state'[i].handle_count = n
  BY <1>11, HandleCountMoves DEF IInv
<1>13. CountInv'
  <2>1. CountOK(i)'
    BY <1>1, <1>7, <1>9, <1>10, <1>12 DEF CountOK
  <2>2. ASSUME NEW j \in States, j # i PROVE CountOK(j)'
    <3>1. Users(j)' = Users(j)
      BY <1>6, <2>2
    <3> QED
      BY <1>1, <1>7, <1>12, <2>2, <3>1, SameCount DEF CountInv
  <2> QED
    BY <2>1, <2>2 DEF CountInv
<1>14. ContentInv'
  BY <1>12, QuietContent DEF IInv
<1>15. TypeOK'
  <2>1. /\ current' \in 0..MaxStates /\ log' \in [States -> Seq(Change)]
        /\ sub' \in [Subs -> Subscription] /\ got' \in [Subs -> SUBSET Change]
    BY Types DEF IInv
  <2> QED
    BY <1>2, <1>12, <2>1, TypesMade
<1> QED
  BY <1>1, <1>3, <1>4, <1>5, <1>13, <1>14, <1>15 DEF IInv

LEMMA OpenFailsStep ==
    ASSUME IInv, NEW t \in Threads, OpenFails(t)
    PROVE  IInv'
<1>1. call[t] \in CallSet /\ CallOK(t) /\ call[t].op = "open"
  BY Types DEF IInv, CallInv, OpenFails
<1>2. PICK i \in States : i = call[t].of
  BY <1>1, CallShape
<1>3. PICK c \in CallSet : c = IdleCall /\ c.op = "idle"
  BY CallMade
<1>4. Moves(t, c, 0)
  <2>1. handle[t] = 0
    BY <1>1 DEF CallOK
  <2>2. Moves(t, c, handle[t])
    BY <1>3, KeepsHandle DEF IInv, OpenFails
  <2> QED
    BY <2>1, <2>2
<1>5. t \in Users(i) /\ \A j \in States : t \in Users(j) => j = i
  BY <1>1, <1>2, StateNotZero DEF Users, CallOK
<1> QED
  BY <1>2, <1>3, <1>4, <1>5, LeaveStep DEF OpenFails

LEMMA CloseStep ==
    ASSUME IInv, NEW t \in Threads, Close(t)
    PROVE  IInv'
<1>1. PICK i \in States : i = handle[t]
  BY Types DEF IInv, Close
<1>2. PICK c \in CallSet : c = call[t] /\ c.op = "idle"
  BY Types DEF IInv, Close, Idle
<1>3. Moves(t, c, 0)
  <2>1. call' = [call EXCEPT ![t] = c] /\ handle' = [handle EXCEPT ![t] = 0]
    BY <1>2, Types DEF IInv, Close
  <2>2. 0 \in 0..MaxStates
    BY MaxStatesAssumption
  <2> QED
    BY <1>2, <2>1, <2>2 DEF Moves
<1>4. t \in Users(i) /\ \A j \in States : t \in Users(j) => j = i
  BY <1>1, <1>2 DEF Users
<1> QED
  BY <1>1, <1>2, <1>3, <1>4, LeaveStep DEF Close

(* The changes a mutation is asked for. *)
Request == [operation: {"put", "delete", "clear"}, key: Keys \cup {NoKey}]

LEMMA NumberedBatch ==
    ASSUME NEW st \in MemoryStoreState, NEW l \in Seq(Change), NumberedOK(l),
           st.revision = Len(l), NEW ops \in Seq(Request),
           st.revision + Len(ops) <= MaxRevision
    PROVE  LET batch == Numbered(st, ops)
           IN  /\ batch \in Seq(Change) /\ Len(batch) = Len(ops)
               /\ NumberedOK(l \o batch)
<1> DEFINE batch == Numbered(st, ops)
<1>1. PICK n \in Nat : n = Len(ops) /\ DOMAIN ops = 1..n
  OBVIOUS
<1>2. PICK r \in Nat : r = st.revision /\ r = Len(l)
  OBVIOUS
<1>3. ASSUME NEW j \in 1..n
      PROVE  batch[j] \in Change /\ batch[j].revision = r + j
  <2>0. ops[j] \in Request
    BY <1>1
  <2>1. ops[j].operation \in {"put", "delete", "clear"} /\ ops[j].key \in Keys \cup {NoKey}
    BY <2>0 DEF Request
  <2>2. r + j \in Revisions
    BY <1>1, <1>2, MaxRevisionAssumption DEF Revisions
  <2>3. batch[j] = [revision |-> r + j, operation |-> ops[j].operation,
                    key |-> ops[j].key]
    BY <1>1, <1>2 DEF Numbered
  <2> HIDE DEF batch
  <2> QED
    BY <2>1, <2>2, <2>3 DEF Change
<1>4. batch \in [1..n -> Change]
  BY <1>1, <1>3 DEF Numbered
<1> HIDE DEF batch
<1>5. batch \in Seq(Change) /\ Len(batch) = n
  BY <1>4
<1>6. /\ Len(l \o batch) = r + n
      /\ \A j \in 1..r : (l \o batch)[j] = l[j]
      /\ \A j \in 1..n : (l \o batch)[r + j] = batch[j]
  <2>1. /\ Len(l \o batch) = Len(l) + Len(batch)
        /\ \A j \in 1..Len(l) : (l \o batch)[j] = l[j]
        /\ \A j \in 1..Len(batch) : (l \o batch)[Len(l) + j] = batch[j]
    <3>1. PICK b \in Seq(Change) : b = batch
      BY <1>5
    <3>2. /\ Len(l \o b) = Len(l) + Len(b)
          /\ \A j \in 1..Len(l) : (l \o b)[j] = l[j]
          /\ \A j \in 1..Len(b) : (l \o b)[Len(l) + j] = b[j]
      BY ConcatAt
    <3> QED
      BY <3>1, <3>2
  <2> QED
    BY <1>2, <1>5, <2>1
<1>7. NumberedOK(l \o batch)
  <2> SUFFICES ASSUME NEW j \in 1..(r + n) PROVE (l \o batch)[j].revision = j
    BY <1>6 DEF NumberedOK
  <2>1. CASE j <= r
    <3>1. j \in 1..r
      BY <2>1
    <3> QED
      BY <1>2, <1>6, <3>1 DEF NumberedOK
  <2>2. CASE j > r
    <3>1. PICK k \in 1..n : j = r + k
      <4>1. j - r \in 1..n /\ j = r + (j - r)
        BY <2>2
      <4> QED
        BY <4>1
    <3> QED
      BY <1>3, <1>6, <3>1
  <2>3. j <= r \/ j > r
    BY <1>1, <1>2
  <2> QED
    BY <2>1, <2>2, <2>3
<1> QED
  BY <1>1, <1>5, <1>7 DEF batch

LEMMA MutateStep ==
    ASSUME IInv, NEW i \in States, NEW ops \in Seq(Request), Mutate(i, ops)
    PROVE  IInv'
<1>1. PICK batch : batch = Numbered(state[i], ops)
  OBVIOUS
<1>2. /\ state[i].revision + Len(ops) <= MaxRevision
      /\ state' = [state EXCEPT ![i] = Published(@, batch)]
      /\ log' = [log EXCEPT ![i] = @ \o batch]
      /\ UNCHANGED <<current, call, handle, sub, got>>
  BY <1>1 DEF Mutate
<1>3. PICK st \in MemoryStoreState : st = state[i]
  BY Types DEF IInv
<1>4. PICK l \in Seq(Change) : l = log[i]
  BY Types DEF IInv
<1>5. WindowOK(st, l) /\ NumberedOK(l) /\ ReplayOK(st.records, l)
  BY <1>3, <1>4 DEF IInv, ContentInv
<1>6. /\ batch \in Seq(Change) /\ Len(batch) = Len(ops) /\ NumberedOK(l \o batch)
  <2>1. st.revision = Len(l)
    BY <1>5 DEF WindowOK
  <2> QED
    BY <1>1, <1>2, <1>3, <1>5, <2>1, NumberedBatch
<1>7. PICK m : m = l \o batch
  OBVIOUS
<1>8. /\ m \in Seq(Change) /\ Len(m) = Len(l) + Len(batch)
      /\ \A j \in 1..Len(l) : m[j] = l[j]
  <2>1. /\ l \o batch \in Seq(Change) /\ Len(l \o batch) = Len(l) + Len(batch)
        /\ \A j \in 1..Len(l) : (l \o batch)[j] = l[j]
    BY <1>6, ConcatAt
  <2> QED
    BY <1>7, <2>1
<1>9. PICK ret : ret = Retain(st, batch)
  OBVIOUS
<1>10. /\ ret.changes \in Seq(Change) /\ ret.retained_floor = Floor(Len(m))
       /\ Len(ret.changes) = Len(m) - Floor(Len(m))
       /\ \A j \in 1..(Len(m) - Floor(Len(m))) : ret.changes[j] = m[Floor(Len(m)) + j]
  BY <1>5, <1>6, <1>7, <1>9, RetainOK
<1>11. PICK recs : recs = RecordsAfter(st.records, batch)
  OBVIOUS
<1>12. recs \in [Keys -> Nat] /\ ReplayOK(recs, m)
  <2>1. st.records \in [Keys -> Nat]
    BY MaxRevisionAssumption DEF MemoryStoreState, Revisions
  <2> QED
    BY <1>5, <1>6, <1>7, <1>11, <2>1, RecordsOK
<1>13. Len(m) \in Revisions /\ Len(m) = st.revision + Len(ops) /\ Len(m) \in Nat
  <2>1. st.revision = Len(l) /\ Len(l) \in Nat /\ Len(batch) \in Nat
    BY <1>5, <1>6 DEF WindowOK
  <2>2. Len(m) = Len(l) + Len(batch) /\ Len(m) = st.revision + Len(ops)
    BY <1>6, <1>8, <2>1
  <2>3. Len(m) <= MaxRevision
    BY <1>2, <1>3, <2>2
  <2> QED
    BY <2>1, <2>2, <2>3, MaxRevisionAssumption DEF Revisions
<1>14. PICK new : /\ new = Published(st, batch)
                  /\ new = [ret EXCEPT !.records = RecordsAfter(@, batch),
                                       !.revision = @ + Len(batch)]
  BY <1>9 DEF Published
<1>15. /\ new.records = recs /\ new.changes = ret.changes
       /\ new.revision = Len(m) /\ new.retained_floor = Floor(Len(m))
       /\ new.handle_count = st.handle_count
       /\ new.subscription_count = st.subscription_count
       /\ new = [records |-> recs, changes |-> ret.changes, revision |-> Len(m),
                 retained_floor |-> Floor(Len(m)), handle_count |-> st.handle_count,
                 subscription_count |-> st.subscription_count]
  <2>1. PICK ch, fl : ret = [st EXCEPT !.changes = ch, !.retained_floor = fl]
    BY <1>9, Zenon DEF Retain
  <2>2. st = [records |-> st.records, changes |-> st.changes,
              revision |-> st.revision, retained_floor |-> st.retained_floor,
              handle_count |-> st.handle_count,
              subscription_count |-> st.subscription_count]
    BY DEF MemoryStoreState
  <2>3. ret = [records |-> st.records, changes |-> ch,
               revision |-> st.revision, retained_floor |-> fl,
               handle_count |-> st.handle_count,
               subscription_count |-> st.subscription_count]
    BY <2>1, <2>2
  <2>4. ch = ret.changes /\ fl = Floor(Len(m))
    BY <1>10, <2>3
  <2> QED
    BY <1>6, <1>11, <1>13, <1>14, <2>3, <2>4
<1>16. new \in MemoryStoreState
  <2>1. Floor(Len(m)) \in Revisions
    <3>1. PICK a \in Nat : a = Len(m)
      BY <1>13
    <3>2. Floor(a) \in Nat /\ Floor(a) <= a
      BY FloorOK
    <3> QED
      BY <1>13, <3>1, <3>2, MaxRevisionAssumption DEF Revisions
  <2>2. recs \in [Keys -> Revisions]
    <3>1. \A k \in Keys : recs[k] \in Nat /\ recs[k] <= Len(m)
      BY <1>12 DEF ReplayOK
    <3>2. \A k \in Keys : recs[k] \in Revisions
      BY <1>13, <3>1, MaxRevisionAssumption DEF Revisions
    <3> QED
      BY <1>12, <3>2
  <2>3. st.handle_count \in Nat /\ st.subscription_count \in Nat
    BY DEF MemoryStoreState
  <2> QED
    BY <1>10, <1>13, <1>15, <2>1, <2>2, <2>3 DEF MemoryStoreState
<1>17. /\ state' \in [States -> MemoryStoreState] /\ state'[i] = new
       /\ \A j \in States : j # i => state'[j] = state[j]
       /\ log' \in [States -> Seq(Change)] /\ log'[i] = m
       /\ \A j \in States : j # i => log'[j] = log[j]
  <2>1. state' = [state EXCEPT ![i] = new] /\ log' = [log EXCEPT ![i] = m]
    <3>1. state' = [state EXCEPT ![i] = Published(st, batch)]
      BY <1>2, <1>3
    <3>2. log' = [log EXCEPT ![i] = m]
      BY <1>2, <1>4, <1>7
    <3> QED
      BY <1>14, <3>1, <3>2
  <2>2. state \in [States -> MemoryStoreState] /\ log \in [States -> Seq(Change)]
    BY Types DEF IInv
  <2> QED
    BY <1>8, <1>16, <2>1, <2>2
<1>18. ContentInv'
  <2>1. WindowOK(new, m) /\ NumberedOK(m) /\ ReplayOK(new.records, m)
    BY <1>6, <1>7, <1>10, <1>12, <1>15 DEF WindowOK
  <2>2. ASSUME NEW j \in States
        PROVE  /\ WindowOK(state'[j], log'[j]) /\ NumberedOK(log'[j])
               /\ ReplayOK(state'[j].records, log'[j])
    <3>1. CASE j = i
      BY <1>17, <2>1, <3>1
    <3>2. CASE j # i
      BY <1>17, <3>2 DEF IInv, ContentInv
    <3> QED
      BY <3>1, <3>2
  <2> QED
    BY <2>2 DEF ContentInv
<1>19. \A j \in States : Extended(j)
  <2>1. Extended(i)
    BY <1>4, <1>6, <1>8, <1>17 DEF Extended
  <2>2. ASSUME NEW j \in States, j # i PROVE Extended(j)
    BY <1>17, <2>2, SameExtended DEF IInv
  <2> QED
    BY <2>1, <2>2
<1>20. \A s \in Subs : Kept(s)
  <2>1. \A s \in Subs : sub[s].of # 0 => sub[s].of \in States
    BY Types DEF IInv
  <2> QED
    BY <1>2, <1>19, <2>1 DEF Kept
<1>21. SubInv'
  BY <1>20, SubStays DEF IInv, SubInv
<1>22. CallInv'
  <2> SUFFICES ASSUME NEW u \in Threads PROVE CallOK(u)'
    BY DEF CallInv
  <2>1. CallOK(u) /\ call[u] \in CallSet
    BY Types DEF IInv, CallInv
  <2>2. call[u].op = "subscribe" => sub'[call[u].sub].of = 0 /\ Extended(handle[u])
    <3>1. call[u].op = "subscribe" => handle[u] # 0 /\ sub[call[u].sub].of = 0
      BY <2>1 DEF CallOK
    <3>2. handle[u] # 0 => handle[u] \in States
      BY Types DEF IInv
    <3> QED
      BY <1>2, <1>19, <3>1, <3>2
  <2>3. call[u].op = "poll" => Kept(call[u].sub)
    BY <1>20, <2>1, CallShape
  <2>4. call'[u] = call[u] /\ handle'[u] = handle[u] /\ TypeOK
    BY <1>2 DEF IInv
  <2> QED
    BY <2>1, <2>2, <2>3, <2>4, CallStays
<1>23. CountInv'
  <2>1. \A j \in States : /\ state'[j].handle_count = state[j].handle_count
                          /\ state'[j].subscription_count = state[j].subscription_count
    BY <1>3, <1>15, <1>17
  <2> QED
    BY <1>2, <2>1, SameCount, SameUsers, SameSubscribers DEF IInv, CountInv
<1>24. OneLiveStore' /\ Exclusive'
  BY <1>2 DEF IInv, OneLiveStore, Exclusive
<1>25. TypeOK'
  <2>1. /\ current' \in 0..MaxStates /\ handle' \in [Threads -> 0..MaxStates]
        /\ sub' \in [Subs -> Subscription] /\ got' \in [Subs -> SUBSET Change]
        /\ call' \in [Threads -> CallSet]
    BY <1>2, Types DEF IInv
  <2> QED
    BY <1>17, <2>1, TypesMade
<1> QED
  BY <1>18, <1>21, <1>22, <1>23, <1>24, <1>25 DEF IInv

LEMMA ClientMutates ==
    ASSUME IInv, NEW t \in Threads,
           \/ \E k \in Keys : Put(t, k) \/ Delete(t, k)
           \/ \E ks \in Patches : Patch(t, ks)
           \/ Clear(t)
    PROVE  IInv'
<1>1. /\ \A k \in Keys : /\ <<Op("put", k)>> \in Seq(Request)
                         /\ <<Op("delete", k)>> \in Seq(Request)
      /\ <<Op("clear", NoKey)>> \in Seq(Request)
  BY DEF Op, Request
<1>2. ASSUME NEW ks \in Patches
      PROVE  [j \in DOMAIN ks |-> Op("put", ks[j])] \in Seq(Request)
  <2>1. PICK n \in 1..MaxPatch : ks \in [1..n -> Keys]
    BY DEF Patches
  <2>2. n \in Nat /\ DOMAIN ks = 1..n
    BY <2>1, MaxPatchAssumption
  <2>3. \A j \in 1..n : Op("put", ks[j]) \in Request
    BY <2>1 DEF Op, Request
  <2> QED
    BY <2>2, <2>3
<1>3. PICK i \in States, ops \in Seq(Request) : Mutate(i, ops)
  BY <1>1, <1>2 DEF Put, Delete, Patch, Clear
<1> QED
  BY <1>3, MutateStep

LEMMA SubscribeReturnStep ==
    ASSUME IInv, NEW t \in Threads, SubscribeReturn(t)
    PROVE  IInv'
<1>1. call[t] \in CallSet /\ CallOK(t) /\ call[t].op = "subscribe"
  BY Types DEF IInv, CallInv, SubscribeReturn
<1>2. PICK s \in Subs, r \in Revisions : s = call[t].sub /\ r = call[t].after
  BY <1>1, CallShape
<1>3. handle[t] # 0 /\ sub[s].of = 0 /\ r <= Len(log[handle[t]])
  BY <1>1, <1>2 DEF CallOK
<1>4. PICK i \in States : i = handle[t] /\ i = current /\ i # 0
  BY <1>3, Types DEF IInv, OneLiveStore
<1>5. PICK c \in CallSet : c = IdleCall /\ c.op = "idle"
  BY CallMade
<1>6. Moves(t, c, handle[t]) /\ \A j \in States : Users(j)' = Users(j)
  BY <1>1, <1>5, SameUsersMoved DEF SubscribeReturn
<1>7. /\ call' \in [Threads -> CallSet] /\ call'[t] = c /\ handle' = handle
      /\ \A u \in Threads : u # t => call'[u] = call[u]
  BY <1>6, Moved DEF IInv, SubscribeReturn
<1>8. PICK new : new = [of |-> i, revision |-> r, start |-> r]
  OBVIOUS
<1>9. new \in Subscription /\ new.of = i /\ new.revision = r /\ new.start = r
  <2>1. i \in 0..MaxStates
    BY MaxStatesAssumption DEF States
  <2> QED
    BY <1>8, <2>1 DEF Subscription
<1>10. /\ sub' \in [Subs -> Subscription] /\ sub'[s] = new
       /\ \A x \in Subs : x # s => sub'[x] = sub[x] /\ got'[x] = got[x]
       /\ got' \in [Subs -> SUBSET Change]
  <2>1. sub' = [sub EXCEPT ![s] = new] /\ got' = [got EXCEPT ![s] = {}]
    BY <1>2, <1>4, <1>8 DEF SubscribeReturn
  <2>2. sub \in [Subs -> Subscription] /\ got \in [Subs -> SUBSET Change]
    BY Types DEF IInv
  <2> QED
    BY <1>9, <2>1, <2>2
<1>11. UNCHANGED <<current, log>>
  BY DEF SubscribeReturn
<1>12. \A x \in Subs : x # s => Kept(x)
  <2>1. \A x \in Subs : sub[x].of # 0 => sub[x].of \in States
    BY Types DEF IInv
  <2>2. \A j \in States : Extended(j)
    BY <1>11, SameExtended DEF IInv
  <2> QED
    BY <1>10, <2>1, <2>2 DEF Kept
<1>13. SubInv'
  <2>1. SubOK(s)'
    <3>1. r \in Nat
      BY MaxRevisionAssumption DEF Revisions
    <3>2. r <= r /\ r <= Len(log[i]) /\ \A x \in (r + 1)..r : log[i][x] \in got'[s]
      BY <1>3, <1>4, <3>1
    <3> QED
      BY <1>9, <1>10, <1>11, <3>2 DEF SubOK
  <2>2. ASSUME NEW x \in Subs, x # s PROVE SubOK(x)'
    BY <1>12, <2>2, SubStays DEF IInv, SubInv
  <2> QED
    BY <2>1, <2>2 DEF SubInv
<1>14. CallInv'
  <2>1. CallOK(t)'
    BY <1>5, <1>7 DEF CallOK
  <2>2. ASSUME NEW u \in Threads, u # t PROVE CallOK(u)'
    <3>1. CallOK(u) /\ call[u] \in CallSet
      BY Types DEF IInv, CallInv
    <3>2. call[u].op = "subscribe" => sub'[call[u].sub].of = 0 /\ Extended(handle[u])
      <4> SUFFICES ASSUME call[u].op = "subscribe"
                   PROVE  sub'[call[u].sub].of = 0 /\ Extended(handle[u])
        OBVIOUS
      <4>1. handle[u] # 0 /\ sub[call[u].sub].of = 0 /\ call[u].sub \in Subs
        BY <3>1, CallShape DEF CallOK
      <4>2. call[u].sub # s
        BY <1>1, <1>2, <2>2 DEF IInv, Exclusive
      <4>3. handle[u] \in States
        BY <4>1, Types DEF IInv
      <4>4. Extended(handle[u])
        BY <1>11, <4>3, SameExtended DEF IInv
      <4> QED
        BY <1>10, <4>1, <4>2, <4>4
    <3>3. call[u].op = "poll" => Kept(call[u].sub)
      <4>1. call[u].op = "poll" => call[u].sub \in Subs /\ sub[call[u].sub].of # 0
        BY <3>1, CallShape DEF CallOK, PollOK
      <4> QED
        BY <1>3, <1>12, <4>1, SMTT(60)
    <3> QED
      BY <1>7, <2>2, <3>1, <3>2, <3>3, CallStays DEF IInv
  <2> QED
    BY <2>1, <2>2 DEF CallInv
<1>15. Exclusive'
  BY <1>5, <1>6, ExclusiveStays DEF IInv
<1>16. OneLiveStore'
  BY <1>4, <1>5, <1>7, <1>9, <1>10, <1>11 DEF IInv, OneLiveStore
<1>17. /\ Subscribers(i)' = Subscribers(i) \cup {s} /\ s \notin Subscribers(i)
       /\ \A j \in States : j # i => Subscribers(j)' = Subscribers(j)
  <2>1. s \notin Subscribers(i)
    BY <1>3, <1>4 DEF Subscribers
  <2>2. \A x \in Subs : sub'[x].of = i <=> (sub[x].of = i \/ x = s)
    BY <1>9, <1>10
  <2>3. \A x \in Subs, j \in States : j # i => (sub'[x].of = j <=> sub[x].of = j)
    BY <1>3, <1>9, <1>10, StateNotZero
  <2> QED
    BY <2>1, <2>2, <2>3 DEF Subscribers
<1>18. CountOK(i) /\ CountInv
  BY DEF IInv, CountInv
<1>19. PICK n \in Nat : n = state[i].subscription_count + 1
  <2>1. state[i] \in MemoryStoreState
    BY Types DEF IInv
  <2> QED
    BY <2>1 DEF MemoryStoreState
<1>20. state' = [state EXCEPT ![i] = [state[i] EXCEPT !.subscription_count = n]]
  BY <1>4, <1>19 DEF SubscribeReturn
<1>21. /\ state' \in [States -> MemoryStoreState]
       /\ \A j \in States :
             /\ SameContent(state'[j], state[j])
             /\ state'[j].handle_count = state[j].handle_count
             /\ j # i => state'[j].subscription_count = state[j].subscription_count
       /\ state'[i].subscription_count = n
  BY <1>20, SubscriptionCountMoves DEF IInv
<1>22. CountInv'
  <2>1. CountOK(i)'
    <3>1. /\ IsFiniteSet(Subscribers(i))
          /\ Cardinality(Subscribers(i)) = state[i].subscription_count
      BY <1>18 DEF CountOK
    <3>2. IsFiniteSet(Subscribers(i)') /\ Cardinality(Subscribers(i)') = n
      BY <1>17, <1>19, <3>1, FS_AddElement
    <3> QED
      BY <1>6, <1>18, <1>21, <3>2 DEF CountOK
  <2>2. ASSUME NEW j \in States, j # i PROVE CountOK(j)'
    BY <1>6, <1>17, <1>18, <1>21, <2>2, SameCount DEF CountInv
  <2> QED
    BY <2>1, <2>2 DEF CountInv
<1>23. ContentInv'
  BY <1>11, <1>21, QuietContent DEF IInv
<1>24. TypeOK'
  <2>1. /\ current' \in 0..MaxStates /\ log' \in [States -> Seq(Change)]
        /\ handle' \in [Threads -> 0..MaxStates]
    BY <1>7, <1>11, Types DEF IInv
  <2> QED
    BY <1>7, <1>10, <1>21, <2>1, TypesMade
<1> QED
  BY <1>13, <1>14, <1>15, <1>16, <1>22, <1>23, <1>24 DEF IInv

LEMMA SubscriptionDestroyStep ==
    ASSUME IInv, NEW s \in Subs, SubscriptionDestroy(s)
    PROVE  IInv'
<1>1. PICK i \in States : i = sub[s].of /\ i # 0
  BY Types DEF IInv, SubscriptionDestroy
<1>2. UNCHANGED <<current, log, call, handle>>
  BY DEF SubscriptionDestroy
<1>3. NoSub \in Subscription /\ NoSub.of = 0
  <2>1. 0 \in 0..MaxStates /\ 0 \in Revisions
    BY MaxStatesAssumption, MaxRevisionAssumption DEF Revisions
  <2> QED
    BY <2>1 DEF NoSub, Subscription
<1>4. /\ sub' \in [Subs -> Subscription] /\ sub'[s].of = 0
      /\ \A x \in Subs : x # s => sub'[x] = sub[x] /\ got'[x] = got[x]
      /\ got' \in [Subs -> SUBSET Change]
  <2>1. sub \in [Subs -> Subscription] /\ got \in [Subs -> SUBSET Change]
    BY Types DEF IInv
  <2> QED
    BY <1>3, <2>1 DEF SubscriptionDestroy
<1>5. \A j \in States : Extended(j)
  BY <1>2, SameExtended DEF IInv
<1>6. \A x \in Subs : x # s => Kept(x)
  <2>1. \A x \in Subs : sub[x].of # 0 => sub[x].of \in States
    BY Types DEF IInv
  <2> QED
    BY <1>4, <1>5, <2>1 DEF Kept
<1>7. SubInv'
  <2>1. SubOK(s)'
    BY <1>4 DEF SubOK
  <2>2. ASSUME NEW x \in Subs, x # s PROVE SubOK(x)'
    BY <1>6, <2>2, SubStays DEF IInv, SubInv
  <2> QED
    BY <2>1, <2>2 DEF SubInv
<1>8. CallInv'
  <2> SUFFICES ASSUME NEW u \in Threads PROVE CallOK(u)'
    BY DEF CallInv
  <2>1. CallOK(u) /\ call[u] \in CallSet
    BY Types DEF IInv, CallInv
  <2>2. call[u].op = "subscribe" => sub'[call[u].sub].of = 0 /\ Extended(handle[u])
    <3> SUFFICES ASSUME call[u].op = "subscribe"
                 PROVE  sub'[call[u].sub].of = 0 /\ Extended(handle[u])
      OBVIOUS
    <3>1. handle[u] # 0 /\ sub[call[u].sub].of = 0 /\ call[u].sub \in Subs
      BY <2>1, CallShape DEF CallOK
    <3>2. handle[u] \in States
      BY <3>1, Types DEF IInv
    <3> QED
      BY <1>4, <1>5, <3>1, <3>2
  <2>3. call[u].op = "poll" => Kept(call[u].sub)
    <3>1. call[u].op = "poll" => call[u].sub \in Subs /\ call[u].sub # s
      BY <2>1, CallShape DEF SubscriptionDestroy, Polled
    <3> QED
      BY <1>6, <3>1
  <2>4. call'[u] = call[u] /\ handle'[u] = handle[u] /\ TypeOK
    BY <1>2 DEF IInv
  <2> QED
    BY <2>1, <2>2, <2>3, <2>4, CallStays
<1>9. Exclusive' /\ OneLiveStore'
  BY <1>2, <1>4 DEF IInv, Exclusive, OneLiveStore
<1>10. /\ Subscribers(i)' = Subscribers(i) \ {s} /\ s \in Subscribers(i)
       /\ \A j \in States : j # i => Subscribers(j)' = Subscribers(j)
  <2>1. s \in Subscribers(i)
    BY <1>1 DEF Subscribers
  <2>2. \A x \in Subs : sub'[x].of = i <=> (sub[x].of = i /\ x # s)
    BY <1>1, <1>4
  <2>3. \A x \in Subs, j \in States : j # i => (sub'[x].of = j <=> sub[x].of = j)
    BY <1>1, <1>4, StateNotZero
  <2> QED
    BY <2>1, <2>2, <2>3 DEF Subscribers
<1>11. CountOK(i) /\ CountInv
  BY DEF IInv, CountInv
<1>12. PICK n \in Nat : /\ n = state[i].subscription_count - 1
                        /\ IsFiniteSet(Subscribers(i)')
                        /\ n = Cardinality(Subscribers(i)')
  <2>1. /\ IsFiniteSet(Subscribers(i))
        /\ Cardinality(Subscribers(i)) = state[i].subscription_count
    BY <1>11 DEF CountOK
  <2>2. /\ IsFiniteSet(Subscribers(i)')
        /\ Cardinality(Subscribers(i)') = state[i].subscription_count - 1
    BY <1>10, <2>1, FS_RemoveElement
  <2>3. Cardinality(Subscribers(i)') \in Nat
    BY <2>2, FS_CardinalityType
  <2> QED
    BY <2>2, <2>3
<1>13. state' = [state EXCEPT ![i] = [state[i] EXCEPT !.subscription_count = n]]
  BY <1>1, <1>12 DEF SubscriptionDestroy
<1>14. /\ state' \in [States -> MemoryStoreState]
       /\ \A j \in States :
             /\ SameContent(state'[j], state[j])
             /\ state'[j].handle_count = state[j].handle_count
             /\ j # i => state'[j].subscription_count = state[j].subscription_count
       /\ state'[i].subscription_count = n
  BY <1>13, SubscriptionCountMoves DEF IInv
<1>15. \A j \in States : Users(j)' = Users(j)
  BY <1>2, SameUsers
<1>16. CountInv'
  <2>1. CountOK(i)'
    BY <1>11, <1>12, <1>14, <1>15 DEF CountOK
  <2>2. ASSUME NEW j \in States, j # i PROVE CountOK(j)'
    BY <1>10, <1>11, <1>14, <1>15, <2>2, SameCount DEF CountInv
  <2> QED
    BY <2>1, <2>2 DEF CountInv
<1>17. ContentInv'
  BY <1>2, <1>14, QuietContent DEF IInv
<1>18. TypeOK'
  <2>1. /\ current' \in 0..MaxStates /\ log' \in [States -> Seq(Change)]
        /\ handle' \in [Threads -> 0..MaxStates] /\ call' \in [Threads -> CallSet]
    BY <1>2, Types DEF IInv
  <2> QED
    BY <1>4, <1>14, <2>1, TypesMade
<1> QED
  BY <1>7, <1>8, <1>9, <1>16, <1>17, <1>18 DEF IInv

(* A step of the poll of s: callbacks may be added, and the cursor moves   *)
(* forward over changes that were delivered.                               *)
LEMMA PollStep ==
    ASSUME IInv, NEW t \in Threads, call[t].op = "poll", NEW s \in Subs, s = call[t].sub,
           NEW c \in CallSet, Become(t, c), UNCHANGED <<current, state, log, handle>>,
           c.op \in {"idle", "poll"}, c.op = "poll" => c.sub = s, CallOK(t)',
           got' \in [Subs -> SUBSET Change], got[s] \subseteq got'[s],
           \A x \in Subs : x # s => got'[x] = got[x],
           NEW k \in Nat, sub' = [sub EXCEPT ![s] = [sub[s] EXCEPT !.revision = k]],
           sub[s].revision <= k, k <= Len(log[sub[s].of]),
           \A r \in (sub[s].revision + 1)..k : log[sub[s].of][r] \in got'[s]
    PROVE  IInv'
<1>1. Moves(t, c, handle[t]) /\ \A i \in States : Users(i)' = Users(i)
  BY SameUsersMoved
<1>2. /\ call' \in [Threads -> CallSet] /\ call'[t] = c
      /\ \A u \in Threads : u # t => call'[u] = call[u]
  BY <1>1, Moved, SMTT(60) DEF IInv
<1>3. call[t] \in CallSet /\ CallOK(t) /\ PollOK(t) /\ sub[s].of # 0
  BY Types DEF IInv, CallInv, CallOK, PollOK
<1>4. PICK i \in States : i = sub[s].of
  BY <1>3, Types DEF IInv
<1>5. k \in Revisions
  <2>1. Len(log[i]) = state[i].revision /\ state[i] \in MemoryStoreState
    BY Types DEF IInv, ContentInv, WindowOK
  <2>2. state[i].revision \in Revisions
    BY <2>1 DEF MemoryStoreState
  <2> QED
    BY <1>4, <2>1, <2>2, MaxRevisionAssumption DEF Revisions
<1>6. sub[s] \in Subscription
  BY Types DEF IInv
<1>7. PICK new \in Subscription : /\ new = [sub[s] EXCEPT !.revision = k] /\ new.of = i
                                  /\ new.revision = k /\ new.start = sub[s].start
  BY <1>4, <1>5, <1>6 DEF Subscription
<1>8. /\ sub' \in [Subs -> Subscription] /\ sub'[s] = new
      /\ \A x \in Subs : x # s => sub'[x] = sub[x]
  BY <1>7, Types DEF IInv
<1>9. \A x \in Subs : x # s => Kept(x)
  <2>1. \A x \in Subs : sub[x].of # 0 => sub[x].of \in States
    BY Types DEF IInv
  <2>2. \A j \in States : Extended(j)
    BY SameExtended DEF IInv
  <2> QED
    BY <1>8, <2>1, <2>2 DEF Kept
<1>10. SubInv'
  <2>1. SubOK(s)'
    <3>1. PICK a \in Nat, b \in Nat : a = sub[s].start /\ b = sub[s].revision
      BY <1>6, MaxRevisionAssumption DEF Subscription, Revisions
    <3>2. a <= b /\ \A r \in (a + 1)..b : log[i][r] \in got[s]
      BY <1>3, <1>4, <3>1 DEF IInv, SubInv, SubOK
    <3>3. \A r \in (a + 1)..k : r \in (a + 1)..b \/ r \in (b + 1)..k
      BY <3>1, <3>2
    <3>4. \A r \in (a + 1)..k : log[i][r] \in got'[s]
      BY <1>4, <3>1, <3>2, <3>3
    <3>5. a <= k /\ k <= Len(log'[i])
      BY <1>4, <3>1, <3>2
    <3> QED
      BY <1>7, <1>8, <3>1, <3>4, <3>5 DEF SubOK
  <2>2. ASSUME NEW x \in Subs, x # s PROVE SubOK(x)'
    BY <1>9, <2>2, SubStays DEF IInv, SubInv
  <2> QED
    BY <2>1, <2>2 DEF SubInv
<1>11. CallInv'
  <2>1. ASSUME NEW u \in Threads, u # t PROVE CallOK(u)'
    <3>1. CallOK(u) /\ call[u] \in CallSet
      BY Types DEF IInv, CallInv
    <3>2. call[u].op = "subscribe" => sub'[call[u].sub].of = 0 /\ Extended(handle[u])
      <4> SUFFICES ASSUME call[u].op = "subscribe"
                   PROVE  sub'[call[u].sub].of = 0 /\ Extended(handle[u])
        OBVIOUS
      <4>1. handle[u] # 0 /\ sub[call[u].sub].of = 0 /\ call[u].sub \in Subs
        BY <3>1, CallShape DEF CallOK
      <4>2. handle[u] \in States
        BY <4>1, Types DEF IInv
      <4>3. Extended(handle[u])
        BY <4>2, SameExtended DEF IInv
      <4> QED
        BY <1>3, <1>8, <4>1, <4>3
    <3>3. call[u].op = "poll" => Kept(call[u].sub)
      <4>1. call[u].op = "poll" => call[u].sub \in Subs /\ call[u].sub # s
        BY <2>1, <3>1, CallShape DEF IInv, Exclusive
      <4> QED
        BY <1>9, <4>1
    <3> QED
      BY <1>2, <2>1, <3>1, <3>2, <3>3, CallStays DEF IInv
  <2> QED
    BY <2>1 DEF CallInv
<1>12. Exclusive'
  <2>1. c.op \in {"subscribe", "poll"} =>
            \A u \in Threads : u # t /\ call[u].op = c.op => call[u].sub # c.sub
    BY DEF IInv, Exclusive
  <2> QED
    BY <1>1, <2>1, ExclusiveStays DEF IInv
<1>13. OneLiveStore'
  BY <1>2, <1>4, <1>7, <1>8 DEF IInv, OneLiveStore
<1>14. CountInv'
  <2>1. \A x \in Subs : sub'[x].of = sub[x].of
    BY <1>4, <1>7, <1>8
  <2>2. \A j \in States : Subscribers(j)' = Subscribers(j)
    BY <2>1 DEF Subscribers
  <2> QED
    BY <1>1, <2>2, SameCount DEF IInv, CountInv
<1>15. ContentInv'
  BY DEF IInv, ContentInv
<1>16. TypeOK'
  <2>1. /\ current' \in 0..MaxStates /\ log' \in [States -> Seq(Change)]
        /\ state' \in [States -> MemoryStoreState] /\ handle' \in [Threads -> 0..MaxStates]
    BY Types DEF IInv
  <2> QED
    BY <1>2, <1>8, <2>1, TypesMade
<1> QED
  BY <1>10, <1>11, <1>12, <1>13, <1>14, <1>15, <1>16 DEF IInv

(* The facts a poll relies on. *)
PollKnows(t, s, q, d, i, r) ==
    /\ call[t].sub = s /\ call[t].snapshot = q /\ call[t].delivered = d
    /\ call[t] = [op |-> "poll", sub |-> s, snapshot |-> q, delivered |-> d]
    /\ sub[s].of = i /\ sub[s].revision = r
    /\ d <= Len(q) /\ r + Len(q) <= Len(log[i]) /\ Len(log[i]) \in Nat
    /\ \A j \in 1..Len(q) : q[j] = log[i][r + j] /\ q[j].revision = r + j
    /\ \A j \in 1..d : q[j] \in got[s]

LEMMA PollFacts ==
    ASSUME IInv, NEW t \in Threads, call[t].op = "poll"
    PROVE  \E s \in Subs, q \in Seq(Change), d \in Nat, i \in States, r \in Nat :
              PollKnows(t, s, q, d, i, r)
<1>1. call[t] \in CallSet /\ PollOK(t)
  BY Types DEF IInv, CallInv, CallOK
<1>2. PICK s \in Subs, q \in Seq(Change), d \in Nat :
          call[t] = [op |-> "poll", sub |-> s, snapshot |-> q, delivered |-> d]
  BY <1>1 DEF CallSet, IdleCall
<1>3. PICK i \in States : i = sub[s].of
  BY <1>1, <1>2, Types DEF IInv, PollOK
<1>4. PICK r \in Nat : r = sub[s].revision
  BY Types, MaxRevisionAssumption DEF IInv, Subscription, Revisions
<1>5. /\ d <= Len(q) /\ r + Len(q) <= Len(log[i])
      /\ \A j \in 1..Len(q) : q[j] = log[i][r + j]
      /\ \A j \in 1..d : q[j] \in got[s]
  BY <1>1, <1>2, <1>3, <1>4 DEF PollOK
<1>6. log[i] \in Seq(Change) /\ Len(log[i]) \in Nat /\ NumberedOK(log[i])
  BY Types DEF IInv, ContentInv
<1>7. \A j \in 1..Len(q) : q[j].revision = r + j
  <2> SUFFICES ASSUME NEW j \in 1..Len(q) PROVE q[j].revision = r + j
    OBVIOUS
  <2>1. r + j \in 1..Len(log[i])
    BY <1>4, <1>5, <1>6
  <2> QED
    BY <1>5, <1>6, <2>1 DEF NumberedOK
<1>8. PollKnows(t, s, q, d, i, r)
  BY <1>2, <1>3, <1>4, <1>5, <1>6, <1>7 DEF PollKnows
<1> QED
  BY <1>8, Zenon

(* The cursor a poll publishes after n callbacks. *)
CursorAt(s, k) == sub' = [sub EXCEPT ![s] = [sub[s] EXCEPT !.revision = k]]

LEMMA Publish ==
    ASSUME NEW t, NEW s, NEW q \in Seq(Change), NEW d, NEW i, NEW r \in Nat,
           PollKnows(t, s, q, d, i, r), NEW n \in Nat, n <= Len(q),
           PublishCursor(t, n)
    PROVE  CursorAt(s, r + n)
<1>1. sub' = [sub EXCEPT ![s] = [sub[s] EXCEPT !.revision =
                 IF n = 0 THEN sub[s].revision ELSE q[n].revision]]
  BY DEF PublishCursor, PollKnows
<1>2. (IF n = 0 THEN sub[s].revision ELSE q[n].revision) = r + n
  <2>1. CASE n = 0
    BY <2>1 DEF PollKnows
  <2>2. CASE n # 0
    <3>1. n \in 1..Len(q)
      BY <2>2
    <3> QED
      BY <2>2, <3>1 DEF PollKnows
  <2> QED
    BY <2>1, <2>2
<1> QED
  BY <1>1, <1>2 DEF CursorAt

LEMMA PollEndStep ==
    ASSUME IInv, NEW t \in Threads, PollEnd(t)
    PROVE  IInv'
<1>1. call[t].op = "poll" /\ call[t].delivered = Len(call[t].snapshot)
  BY DEF PollEnd
<1>2. PICK s \in Subs, q \in Seq(Change), d \in Nat, i \in States, r \in Nat :
          PollKnows(t, s, q, d, i, r)
  BY <1>1, PollFacts, Zenon
<1>k. /\ call[t].sub = s /\ call[t].snapshot = q /\ call[t].delivered = d
      /\ sub[s].of = i /\ sub[s].revision = r
      /\ d <= Len(q) /\ r + Len(q) <= Len(log[i]) /\ Len(log[i]) \in Nat
      /\ \A j \in 1..Len(q) : q[j] = log[i][r + j] /\ q[j].revision = r + j
      /\ \A j \in 1..d : q[j] \in got[s]
  BY <1>2 DEF PollKnows
<1>3. CursorAt(s, r + d)
  <2>1. PublishCursor(t, d) /\ d <= Len(q)
    BY <1>k DEF PollEnd
  <2> QED
    BY <1>2, <2>1, Publish, Zenon
<1>4. PICK k \in Nat : k = r + d
  OBVIOUS
<1>5. PICK c \in CallSet : c = IdleCall /\ c.op = "idle"
  BY CallMade
<1>6. CallOK(t)'
  <2>1. call'[t] = IdleCall
    BY Types DEF IInv, PollEnd, Become
  <2> QED
    BY <1>5, <2>1 DEF CallOK
<1>7. \A x \in (r + 1)..k : log[i][x] \in got[s]
  <2> SUFFICES ASSUME NEW x \in (r + 1)..k PROVE log[i][x] \in got[s]
    OBVIOUS
  <2>1. PICK j \in 1..d : x = r + j
    <3>1. x - r \in 1..d /\ x = r + (x - r)
      BY <1>2, <1>k, <1>4
    <3> QED
      BY <3>1
  <2>2. j \in 1..Len(q)
    BY <1>2, <1>k, <2>1
  <2> QED
    BY <1>2, <1>k, <2>1, <2>2
<1>8. r <= k /\ k <= Len(log[i])
  BY <1>2, <1>k, <1>4
<1>9. got' = got /\ got \in [Subs -> SUBSET Change]
  BY Types DEF IInv, PollEnd
<1>10. UNCHANGED <<current, state, log, handle>> /\ Become(t, c)
  BY <1>5 DEF PollEnd
<1> QED
  BY <1>1, <1>2, <1>k, <1>3, <1>4, <1>5, <1>6, <1>7, <1>8, <1>9, <1>10, PollStep
     DEF CursorAt

LEMMA PollDeliverStep ==
    ASSUME IInv, NEW t \in Threads, NEW answer, PollDeliver(t, answer)
    PROVE  IInv'
<1>1. call[t].op = "poll" /\ UNCHANGED <<current, state, log, handle>>
  BY DEF PollDeliver
<1>2. PICK s \in Subs, q \in Seq(Change), d \in Nat, i \in States, r \in Nat :
          PollKnows(t, s, q, d, i, r)
  BY <1>1, PollFacts, Zenon
<1>k. /\ call[t].sub = s /\ call[t].snapshot = q /\ call[t].delivered = d
      /\ call[t] = [op |-> "poll", sub |-> s, snapshot |-> q, delivered |-> d]
      /\ sub[s].of = i /\ sub[s].revision = r
      /\ d <= Len(q) /\ r + Len(q) <= Len(log[i]) /\ Len(log[i]) \in Nat
      /\ \A j \in 1..Len(q) : q[j] = log[i][r + j] /\ q[j].revision = r + j
      /\ \A j \in 1..d : q[j] \in got[s]
  BY <1>2 DEF PollKnows
<1>3. PICK n \in Nat : n = d + 1
  BY <1>2, <1>k
<1>4. /\ n <= Len(q) /\ got' = [got EXCEPT ![s] = @ \cup {q[n]}]
      /\ \/ /\ answer = "continue" /\ Become(t, [call[t] EXCEPT !.delivered = n])
            /\ sub' = sub
         \/ answer = "stop" /\ Become(t, IdleCall) /\ PublishCursor(t, n)
         \/ answer = "throw" /\ Become(t, IdleCall) /\ sub' = sub
  BY <1>2, <1>k, <1>3 DEF PollDeliver
<1>5. n \in 1..Len(q) /\ q[n] \in Change
  BY <1>3, <1>4
<1>6. /\ got' \in [Subs -> SUBSET Change] /\ got'[s] = got[s] \cup {q[n]}
      /\ \A x \in Subs : x # s => got'[x] = got[x]
  BY <1>4, <1>5, Types DEF IInv
<1>7. \A j \in 1..n : q[j] \in got'[s]
  <2> SUFFICES ASSUME NEW j \in 1..n PROVE q[j] \in got'[s]
    OBVIOUS
  <2>1. j \in 1..d \/ j = n
    BY <1>3
  <2> QED
    BY <1>2, <1>k, <1>6, <2>1
<1>8. PICK idle \in CallSet : idle = IdleCall /\ idle.op = "idle"
  BY CallMade
<1>9. ASSUME Become(t, IdleCall) PROVE CallOK(t)'
  <2>1. call'[t] = IdleCall
    BY <1>9, Types DEF IInv, Become
  <2> QED
    BY <1>8, <2>1 DEF CallOK
<1>10. sub' = sub => /\ sub' = [sub EXCEPT ![s] = [sub[s] EXCEPT !.revision = r]]
                     /\ \A x \in (r + 1)..r : log[i][x] \in got'[s]
                     /\ r <= r /\ r <= Len(log[i])
  <2>1. sub[s] \in Subscription /\ sub \in [Subs -> Subscription]
    BY Types DEF IInv
  <2>2. [sub[s] EXCEPT !.revision = r] = sub[s]
    BY <1>2, <1>k, <2>1 DEF Subscription
  <2>3. r <= r /\ r <= Len(log[i]) /\ \A x \in (r + 1)..r : log[i][x] \in got'[s]
    BY <1>2, <1>k
  <2> QED
    BY <2>1, <2>2, <2>3
<1>11. CASE answer = "throw" /\ Become(t, IdleCall) /\ sub' = sub
  BY <1>1, <1>2, <1>k, <1>6, <1>8, <1>9, <1>10, <1>11, PollStep
<1>12. CASE answer = "stop" /\ Become(t, IdleCall) /\ PublishCursor(t, n)
  <2>1. CursorAt(s, r + n)
    BY <1>2, <1>4, <1>12, Publish, Zenon
  <2>2. PICK k \in Nat : k = r + n
    OBVIOUS
  <2>3. \A x \in (r + 1)..k : log[i][x] \in got'[s]
    <3> SUFFICES ASSUME NEW x \in (r + 1)..k PROVE log[i][x] \in got'[s]
      OBVIOUS
    <3>1. PICK j \in 1..n : x = r + j
      <4>1. x - r \in 1..n /\ x = r + (x - r)
        BY <1>2, <1>k, <1>3, <2>2
      <4> QED
        BY <4>1
    <3>2. j \in 1..Len(q)
      BY <1>3, <1>4, <3>1
    <3> QED
      BY <1>2, <1>k, <1>7, <3>1, <3>2
  <2>4. r <= k /\ k <= Len(log[i])
    BY <1>2, <1>k, <1>3, <1>4, <2>2
  <2> QED
    BY <1>1, <1>2, <1>k, <1>6, <1>8, <1>9, <1>12, <2>1, <2>2, <2>3, <2>4, PollStep
       DEF CursorAt
<1>13. CASE /\ answer = "continue" /\ Become(t, [call[t] EXCEPT !.delivered = n])
            /\ sub' = sub
  <2>1. PICK c : c = [op |-> "poll", sub |-> s, snapshot |-> q, delivered |-> n]
    OBVIOUS
  <2>2. /\ c \in CallSet /\ c.op = "poll" /\ c.sub = s /\ c.snapshot = q
        /\ c.delivered = n
    BY <2>1 DEF CallSet
  <2>3. Become(t, c)
    BY <1>2, <1>k, <1>13, <2>1
  <2>4. CallOK(t)'
    <3>1. call'[t] = c
      BY <2>3, Types DEF IInv, Become
    <3>2. /\ sub'[s].of # 0 /\ n <= Len(q) /\ sub'[s].revision + Len(q) <= Len(log'[sub'[s].of])
          /\ \A j \in 1..Len(q) : q[j] = log'[sub'[s].of][sub'[s].revision + j]
          /\ \A j \in 1..n : q[j] \in got'[s]
      BY <1>1, <1>2, <1>k, <1>4, <1>7, <1>13, StateNotZero
    <3>3. PollOK(t)'
      BY <2>2, <3>1, <3>2 DEF PollOK
    <3> QED
      BY <2>2, <3>1, <3>3 DEF CallOK
  <2> QED
    BY <1>1, <1>2, <1>k, <1>6, <1>10, <1>13, <2>2, <2>3, <2>4, PollStep
<1> QED
  BY <1>4, <1>11, <1>12, <1>13

-----------------------------------------------------------------------------
(* The invariant and what follows from it. *)

LEMMA InitOK ==
    ASSUME Init
    PROVE  IInv
<1>1. /\ 0 \in 0..MaxStates /\ 0 \in Revisions /\ 0 \in Nat /\ <<>> \in Seq(Change)
  BY MaxStatesAssumption, MaxRevisionAssumption DEF Revisions
<1>2. EmptyState \in MemoryStoreState
  <2>1. [k \in Keys |-> 0] \in [Keys -> Revisions]
    BY <1>1
  <2> QED
    BY <1>1, <2>1, Zenon DEF EmptyState, MemoryStoreState
<1>3. NoSub \in Subscription /\ NoSub.of = 0
  BY <1>1 DEF NoSub, Subscription
<1>4. IdleCall \in CallSet /\ IdleCall.op = "idle"
  BY CallMade
<1>5. TypeOK
  <2>1. /\ current \in 0..MaxStates /\ state \in [States -> MemoryStoreState]
        /\ log \in [States -> Seq(Change)] /\ handle \in [Threads -> 0..MaxStates]
        /\ sub \in [Subs -> Subscription] /\ got \in [Subs -> SUBSET Change]
        /\ call \in [Threads -> CallSet]
    BY <1>1, <1>2, <1>3, <1>4 DEF Init
  <2> QED
    BY <2>1 DEF TypeOK, Subscription, CallSet
<1>6. /\ \A t \in Threads : call[t].op = "idle" /\ handle[t] = 0
      /\ \A s \in Subs : sub[s].of = 0
  BY <1>3, <1>4 DEF Init
<1>7. OneLiveStore /\ CallInv /\ Exclusive /\ SubInv
  BY <1>6 DEF OneLiveStore, CallInv, CallOK, Exclusive, SubInv, SubOK
<1>8. ASSUME NEW i \in States
      PROVE  /\ CountOK(i) /\ WindowOK(state[i], log[i]) /\ NumberedOK(log[i])
             /\ ReplayOK(state[i].records, log[i])
  <2>1. state[i] = EmptyState /\ log[i] = <<>>
    BY DEF Init
  <2>2. Users(i) = {} /\ Subscribers(i) = {}
    BY <1>6, StateNotZero DEF Users, Subscribers
  <2>3. CountOK(i)
    BY <2>1, <2>2, FS_EmptySet DEF CountOK, EmptyState
  <2>4. Floor(0) = 0
    BY CapacityAssumption DEF Floor
  <2> QED
    BY <2>1, <2>3, <2>4 DEF EmptyState, WindowOK, NumberedOK, ReplayOK
<1> QED
  BY <1>5, <1>7, <1>8 DEF IInv, CountInv, ContentInv

LEMMA NextOK ==
    ASSUME IInv, [Next]_vars
    PROVE  IInv'
<1>1. CASE Next
  <2>1. CASE Destroy
    BY <2>1, DestroyStep
  <2>2. CASE \E s \in Subs : SubscriptionDestroy(s)
    BY <2>2, SubscriptionDestroyStep
  <2>3. ASSUME NEW t \in Threads,
               \/ OpenCount(t) \/ OpenReturn(t) \/ OpenFails(t) \/ Close(t)
               \/ SubscribeReturn(t) \/ SubscribeFails(t) \/ PollEnd(t)
        PROVE  IInv'
    BY <2>3, OpenCountStep, OpenReturnStep, OpenFailsStep, CloseStep,
       SubscribeReturnStep, SubscribeFailsStep, PollEndStep
  <2>4. ASSUME NEW t \in Threads,
               \/ \E k \in Keys : Put(t, k) \/ Delete(t, k)
               \/ \E ks \in Patches : Patch(t, ks)
               \/ Clear(t)
        PROVE  IInv'
    BY <2>4, ClientMutates
  <2>5. ASSUME NEW t \in Threads, NEW s \in Subs, NEW r \in Revisions,
               SubscribeCheck(t, s, r)
        PROVE  IInv'
    BY <2>5, SubscribeCheckStep
  <2>6. ASSUME NEW t \in Threads, NEW s \in Subs, NEW limit \in 1..MaxLimit,
               PollBegin(t, s, limit)
        PROVE  IInv'
    BY <2>6, PollBeginStep
  <2>7. ASSUME NEW t \in Threads, NEW a, PollDeliver(t, a)
        PROVE  IInv'
    BY <2>7, PollDeliverStep
  <2> QED
    BY <1>1, <2>1, <2>2, <2>3, <2>4, <2>5, <2>6, <2>7, Zenon DEF Next
<1>2. CASE UNCHANGED vars
  <2>1. UNCHANGED <<current, state, log, call, handle, sub, got>>
    BY <1>2 DEF vars
  <2>2. \A i \in States : Users(i)' = Users(i) /\ Subscribers(i)' = Subscribers(i)
    BY <2>1 DEF Users, Subscribers
  <2>3. TypeOK' /\ OneLiveStore' /\ ContentInv' /\ Exclusive'
    BY <2>1 DEF IInv, TypeOK, OneLiveStore, ContentInv, Exclusive
  <2>4. CountInv'
    BY <2>1, <2>2 DEF IInv, CountInv, CountOK
  <2>5. CallInv' /\ SubInv'
    BY <2>1 DEF IInv, CallInv, CallOK, PollOK, SubInv, SubOK
  <2> QED
    BY <2>3, <2>4, <2>5 DEF IInv
<1> QED
  BY <1>1, <1>2

LEMMA Invariant == Spec => []IInv
<1>1. Init => IInv
  BY InitOK
<1>2. IInv /\ [Next]_vars => IInv'
  BY NextOK
<1> QED
  BY <1>1, <1>2, PTL DEF Spec

(* The variables of the Store keep their types: revisions stay in the      *)
(* domain and the counts of a state never go below zero, whatever open,    *)
(* close, subscribe and destroy interleave.                                *)
THEOREM StoreTypes == Spec => []TypeOK
<1>1. IInv => TypeOK
  BY DEF IInv
<1> QED
  BY <1>1, Invariant, PTL

(* Every handle, every handle being opened and every subscription is on    *)
(* the state the registry holds: esdb_store_destroy's check of the counts  *)
(* is enough to never leave a user behind on a Store nobody can find.      *)
THEOREM NobodyLeftBehind == Spec => []OneLiveStore
<1>1. IInv => OneLiveStore
  BY DEF IInv
<1> QED
  BY <1>1, Invariant, PTL

LEMMA WindowIsSubSeq ==
    ASSUME NEW st \in MemoryStoreState, NEW l \in Seq(Change), WindowOK(st, l)
    PROVE  /\ st.revision = Len(l)
           /\ st.retained_floor = IF st.revision > Capacity
                                  THEN st.revision - Capacity ELSE 0
           /\ st.changes = SubSeq(l, st.retained_floor + 1, st.revision)
<1>1. PICK f \in Nat : f = Floor(Len(l)) /\ f <= Len(l)
  <2>1. Len(l) \in Nat
    OBVIOUS
  <2> QED
    BY <2>1, FloorOK
<1>2. PICK q : q = SubSeq(l, f + 1, Len(l))
  OBVIOUS
<1>3. /\ q \in Seq(Change) /\ Len(q) = Len(l) - f
      /\ \A j \in 1..(Len(l) - f) : q[j] = l[f + j]
  BY <1>1, <1>2, SubSeqAt
<1>4. /\ st.changes \in Seq(Change) /\ Len(st.changes) = Len(l) - f
      /\ \A j \in 1..(Len(l) - f) : st.changes[j] = l[f + j]
      /\ st.revision = Len(l) /\ st.retained_floor = f
  BY <1>1 DEF WindowOK, MemoryStoreState
<1>5. st.changes = q
  <2>1. \A j \in 1..Len(q) : st.changes[j] = q[j]
    BY <1>3, <1>4
  <2> QED
    BY <1>3, <1>4, <2>1, SeqEqual, ZenonT(60)
<1> QED
  BY <1>1, <1>2, <1>4, <1>5 DEF Floor

(* The journal of a state is the end of its history, as long as Capacity   *)
(* allows, and its records are the replay of that history: for every       *)
(* capacity, also smaller than a patch, and every sequence of put, patch,  *)
(* delete and clear.                                                       *)
THEOREM StoreIsItsHistory == Spec => []ContentIsHistory
<1>1. IInv => ContentIsHistory
  <2> SUFFICES ASSUME IInv PROVE ContentIsHistory
    OBVIOUS
  <2>1. ASSUME NEW i \in States
        PROVE  /\ state[i] \in MemoryStoreState /\ log[i] \in Seq(Change)
               /\ WindowOK(state[i], log[i]) /\ NumberedOK(log[i])
               /\ ReplayOK(state[i].records, log[i])
    BY Types DEF IInv, ContentInv
  <2>2. JournalWindow
    BY <2>1, WindowIsSubSeq DEF JournalWindow
  <2>3. RecordsReplayLog
    <3> SUFFICES ASSUME NEW i \in States
                 PROVE  /\ \A n \in DOMAIN log[i] : log[i][n].revision = n
                        /\ \A k \in Keys : state[i].records[k] <= Len(log[i])
                        /\ \A k \in Keys, n \in DOMAIN log[i] :
                              state[i].records[k] = n <=>
                                  /\ log[i][n].operation = "put" /\ log[i][n].key = k
                                  /\ \A m \in (n + 1)..Len(log[i]) :
                                        ~(\/ log[i][m].operation = "clear"
                                          \/ log[i][m].key = k)
      BY DEF RecordsReplayLog
    <3>1. DOMAIN log[i] = 1..Len(log[i])
      BY <2>1
    <3> QED
      BY <2>1, <3>1 DEF NumberedOK, ReplayOK, PutLast, Touches
  <2> QED
    BY <2>2, <2>3 DEF ContentIsHistory
<1> QED
  BY <1>1, Invariant, PTL

(* A subscription has been called back with every change between its start *)
(* and its cursor: no interleaving of polls, callbacks that stop or throw, *)
(* mutations and dropped history makes it skip one silently.               *)
THEOREM NothingSkipped == Spec => []NoSilentLoss
<1>1. IInv => NoSilentLoss
  BY DEF IInv, SubInv, SubOK, NoSilentLoss
<1> QED
  BY <1>1, Invariant, PTL

LEMMA CursorStep ==
    ASSUME IInv, [Next]_vars, NEW s \in Subs, sub[s].of # 0, sub'[s].of # 0
    PROVE  sub'[s].revision >= sub[s].revision
<1>1. sub \in [Subs -> Subscription] /\ sub[s].revision \in Nat
  BY Types, MaxRevisionAssumption DEF IInv, Subscription, Revisions
<1>2. CASE sub' = sub
  BY <1>1, <1>2
<1>3. ASSUME NEW x \in Subs, SubscriptionDestroy(x)
      PROVE  sub'[s].revision >= sub[s].revision
  BY <1>1, <1>3 DEF SubscriptionDestroy, NoSub
<1>4. ASSUME NEW t \in Threads, SubscribeReturn(t)
      PROVE  sub'[s].revision >= sub[s].revision
  <2>1. sub[call[t].sub].of = 0
    BY <1>4 DEF IInv, CallInv, CallOK, SubscribeReturn
  <2> QED
    BY <1>1, <1>4, <2>1 DEF SubscribeReturn
<1>5. ASSUME NEW t \in Threads, PollEnd(t) \/ \E a : PollDeliver(t, a), sub' # sub
      PROVE  sub'[s].revision >= sub[s].revision
  <2>1. call[t].op = "poll"
    BY <1>5 DEF PollEnd, PollDeliver
  <2>2. PICK x \in Subs, q \in Seq(Change), d \in Nat, i \in States, r \in Nat :
            PollKnows(t, x, q, d, i, r)
    BY <2>1, PollFacts, Zenon
  <2>3. call[t].delivered = d /\ call[t].snapshot = q /\ sub[x].revision = r /\ d <= Len(q)
    BY <2>2 DEF PollKnows
  <2>4. PICK n \in Nat : n <= Len(q) /\ PublishCursor(t, n)
    <3>1. CASE PollEnd(t)
      BY <2>3, <3>1 DEF PollEnd
    <3>2. CASE \E a : PollDeliver(t, a)
      BY <1>5, <2>3, <3>2 DEF PollDeliver
    <3> QED
      BY <1>5, <3>1, <3>2
  <2>5. CursorAt(x, r + n)
    BY <2>2, <2>4, Publish
  <2>6. sub[x] \in Subscription
    BY <1>1
  <2> QED
    BY <1>1, <2>3, <2>5, <2>6 DEF CursorAt, Subscription
<1>6. \/ sub' = sub
      \/ \E x \in Subs : SubscriptionDestroy(x)
      \/ \E t \in Threads : SubscribeReturn(t) \/ PollEnd(t) \/ \E a : PollDeliver(t, a)
  <2>1. CASE UNCHANGED vars
    BY <2>1 DEF vars
  <2>2. CASE Next
    BY <2>2 DEF Next, Destroy, OpenCount, OpenReturn, OpenFails, Close, Put, Delete,
                Patch, Clear, Mutate, SubscribeCheck, SubscribeFails, PollBegin
  <2> QED
    BY <2>1, <2>2
<1> QED
  BY <1>2, <1>3, <1>4, <1>5, <1>6

(* The cursor of a live subscription never goes back, so a change that was *)
(* acknowledged by the end of a poll is not delivered again.               *)
THEOREM CursorsMoveForward == Spec => CursorNeverRegresses
<1>1. IInv /\ [Next]_vars =>
          [\A s \in Subs : sub[s].of # 0 /\ sub'[s].of # 0
                              => sub'[s].revision >= sub[s].revision]_sub
  BY CursorStep
<1> QED
  BY <1>1, Invariant, PTL DEF Spec, CursorNeverRegresses
=============================================================================
