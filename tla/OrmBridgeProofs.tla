--------------------------- MODULE OrmBridgeProofs ---------------------------
(***************************************************************************)
(* Proofs about OrmBridge for every width of the slot field, every number  *)
(* of generations, opens and commits, and every set of rows.               *)
(*                                                                         *)
(* That a token keeps naming its own open is not inductive: it rests on    *)
(* the generations of all tokens ever returned for a slot (TokenInv).  A   *)
(* free slot's next generation is larger than all of them, the slot in use *)
(* shares its generation with its holder's token only, and a retired slot  *)
(* is never used again.                                                    *)
(*                                                                         *)
(* That no answered change is lost rests on the snapshots (SnapshotInv): a *)
(* snapshot that is as new as the file has the file's rows, so a change    *)
(* SQLite lets through is computed from the rows of the file.              *)
(***************************************************************************)
EXTENDS OrmBridge, FiniteSetTheorems, WellFoundedInduction, TLAPS

InUse == {i \in Index : slots[i].in_use}

SlotInv ==
    \A i \in Index : /\ slots[i].in_use => slots[i].generation >= 1
                     /\ slots[i].retired => ~slots[i].in_use

(* The k-th token is that of generation g of slot i. *)
TokenOf(k, i, g) ==
    /\ issued[k] = EncodeHandle(i, g)
    /\ g <= slots[i].generation
    /\ slots[i].in_use /\ slots[i].generation = g => holder[i] = k
    /\ ~slots[i].in_use /\ ~slots[i].retired => g < slots[i].generation

TokenInv ==
    \A k \in 1..Len(issued) :
        \E i \in Index, g \in 1..kGenerationMax : TokenOf(k, i, g)

(* What a slot reads, if it holds a snapshot, and what it answered last.   *)
SnapshotOf(i) ==
    /\ ~slots[i].in_use => reading[i] = {}
    /\ seen[i] <= file.commits
    /\ reading[i] # {} =>
          /\ snapshot[i].commits \in seen[i] .. file.commits
          /\ snapshot[i].commits = file.commits => snapshot[i].users = file.users

SnapshotInv == \A i \in Index : SnapshotOf(i)

IInv ==
    /\ TypeOK /\ SlotInv /\ TokenInv
    /\ IsFiniteSet(InUse) /\ connections = Cardinality(InUse)
    /\ file.users = acked /\ SnapshotInv

-----------------------------------------------------------------------------
(* Tokens. *)

Slot == [in_use : BOOLEAN, retired : BOOLEAN, generation : 0 .. kGenerationMax]
FileState == [user_version : 0 .. Target + 1, has_table : BOOLEAN,
              users : Users, commits : 0 .. MaxCommits]
Snapshot == [users : Users, commits : 0 .. MaxCommits]

LEMMA Types ==
    ASSUME TypeOK
    PROVE  /\ slots \in [Index -> Slot] /\ file \in FileState
           /\ reading \in [Index -> SUBSET Lookups] /\ seen \in [Index -> 0 .. MaxCommits]
           /\ snapshot \in [Index -> Snapshot] /\ connections \in 0 .. kSlotCount
           /\ issued \in Seq(Nat) /\ Len(issued) <= MaxOpens
           /\ holder \in [Index -> 0 .. MaxOpens] /\ acked \in Users
           /\ g_last_error \in Errors
BY DEF TypeOK, Slot, FileState, Snapshot

LEMMA TypesMade ==
    ASSUME slots' \in [Index -> Slot], file' \in FileState,
           reading' \in [Index -> SUBSET Lookups], seen' \in [Index -> 0 .. MaxCommits],
           snapshot' \in [Index -> Snapshot], connections' \in 0 .. kSlotCount,
           issued' \in Seq(Nat), Len(issued') <= MaxOpens,
           holder' \in [Index -> 0 .. MaxOpens], acked' \in Users,
           g_last_error' \in Errors
    PROVE  TypeOK'
BY DEF TypeOK, Slot, FileState, Snapshot

LEMMA Splits ==
    ASSUME NEW p \in Nat, p > 1, NEW g \in Nat, NEW i \in Nat, i < p
    PROVE  g * p + i \in Nat /\ (g * p + i) % p = i /\ (g * p + i) \div p = g
OBVIOUS

LEMMA Remainder ==
    ASSUME NEW p \in Nat, p > 1, NEW x \in Nat
    PROVE  x % p \in 0 .. p - 1
OBVIOUS

(* Encoding and decoding agree: the two fields of a token do not overlap.  *)
LEMMA EncodeOK ==
    ASSUME NEW i \in Index, NEW g \in Nat \ {0}
    PROVE  /\ EncodeHandle(i, g) \in Nat /\ EncodeHandle(i, g) > 0
           /\ EncodeHandle(i, g) % 2 ^ kSlotBits = i + 1
           /\ EncodeHandle(i, g) \div 2 ^ kSlotBits = g
<1>1. PICK p \in Nat : p = 2 ^ kSlotBits /\ p > 1
  BY PowerAssumption
<1>2. PICK j \in Nat : j = i + 1 /\ j < p /\ j > 0
  BY <1>1 DEF Index, kSlotCount
<1>3. PICK t : t = g * p + j
  OBVIOUS
<1>4. t \in Nat /\ t % p = j /\ t \div p = g
  BY <1>1, <1>2, <1>3, Splits
<1>5. g * p \in Nat
  BY <1>1
<1>6. EncodeHandle(i, g) = t /\ t > 0
  BY <1>1, <1>2, <1>3, <1>5 DEF EncodeHandle, Index
<1> QED
  BY <1>1, <1>2, <1>4, <1>6

(* A token that is accepted names a slot in use. *)
LEMMA AcceptedOK ==
    ASSUME NEW token \in Nat, SlotForHandle(token) # NoSlot
    PROVE  /\ SlotForHandle(token) \in Index /\ slots[SlotForHandle(token)].in_use
           /\ SlotForHandle(token) = (token % 2 ^ kSlotBits) - 1
           /\ slots[SlotForHandle(token)].generation = token \div 2 ^ kSlotBits
<1>1. PICK p \in Nat : p = 2 ^ kSlotBits /\ p > 1
  BY PowerAssumption
<1>2. PICK e \in 0 .. p - 1 : e = token % 2 ^ kSlotBits
  BY <1>1, Remainder
<1>3. /\ e # 0 /\ slots[e - 1].in_use /\ SlotForHandle(token) = e - 1
      /\ slots[e - 1].generation = token \div 2 ^ kSlotBits
  BY <1>2 DEF SlotForHandle
<1>4. e - 1 \in Index
  BY <1>1, <1>2, <1>3 DEF Index, kSlotCount
<1> QED
  BY <1>2, <1>3, <1>4

(* A nonempty set of numbers has a least one. *)
LEMMA NatMin ==
    ASSUME NEW T, T \subseteq Nat, T # {}
    PROVE  \E x \in T : \A y \in T : x <= y
<1>1. \A x, y \in Nat : <<y, x>> \in OpToRel(<, Nat) <=> y < x
  BY DEF OpToRel
<1>2. PICK R : /\ IsWellFoundedOn(R, Nat)
               /\ \A x, y \in Nat : <<y, x>> \in R <=> y < x
  BY <1>1, NatLessThanWellFounded, Zenon
<1>3. PICK x \in T : \A y \in T : ~(<<y, x>> \in R)
  BY <1>2, WFMin, Zenon
<1>4. \A y \in T : ~(y < x)
  BY <1>2, <1>3, Zenon
<1>5. \A y \in T : x <= y
  BY <1>4
<1> QED
  BY <1>5

LEMMA IndexOK ==
    /\ Index \subseteq Nat /\ IsFiniteSet(Index) /\ Cardinality(Index) = kSlotCount
    /\ kSlotCount \in Nat /\ NoSlot \notin Index
<1>1. PICK p \in Nat : p = 2 ^ kSlotBits /\ p > 1
  BY PowerAssumption
<1>2. PICK m \in Int : m = kSlotCount - 1 /\ kSlotCount \in Nat /\ m >= 0
  BY <1>1 DEF kSlotCount
<1>3. 0 \in Int
  OBVIOUS
<1>4. IsFiniteSet(0 .. m) /\ Cardinality(0 .. m) = IF 0 > m THEN 0 ELSE m - 0 + 1
  BY <1>2, <1>3, FS_Interval
<1>5. m - 0 + 1 = kSlotCount
  BY <1>2
<1> QED
  BY <1>2, <1>4, <1>5 DEF Index, NoSlot

(* Numbers of connections. *)
LEMMA CountOK ==
    ASSUME NEW S, S \subseteq Index
    PROVE  IsFiniteSet(S) /\ Cardinality(S) \in 0 .. kSlotCount
<1>1. IsFiniteSet(S) /\ Cardinality(S) <= Cardinality(Index)
  BY IndexOK, FS_Subset
<1>2. Cardinality(S) \in Nat
  BY <1>1, FS_CardinalityType
<1> QED
  BY <1>1, <1>2, IndexOK

-----------------------------------------------------------------------------
(* The steps. *)

TableKept == UNCHANGED <<slots, issued, holder, connections>>

LEMMA TableStays ==
    ASSUME IInv, TableKept
    PROVE  /\ SlotInv' /\ TokenInv'
           /\ IsFiniteSet(InUse)' /\ connections' = Cardinality(InUse')
           /\ slots' \in [Index -> Slot] /\ connections' \in 0 .. kSlotCount
           /\ issued' \in Seq(Nat) /\ Len(issued') <= MaxOpens
           /\ holder' \in [Index -> 0 .. MaxOpens]
<1>1. InUse' = InUse
  BY DEF TableKept, InUse
<1>2. SlotInv' /\ TokenInv'
  BY DEF IInv, TableKept, SlotInv, TokenInv, TokenOf
<1>3. /\ slots \in [Index -> Slot] /\ connections \in 0 .. kSlotCount
      /\ issued \in Seq(Nat) /\ Len(issued) <= MaxOpens
      /\ holder \in [Index -> 0 .. MaxOpens]
  BY Types DEF IInv
<1> QED
  BY <1>1, <1>2, <1>3 DEF IInv, TableKept

LEMMA MigratedOK ==
    ASSUME file \in FileState
    PROVE  /\ Migrated \in FileState
           /\ Migrated.users = file.users /\ Migrated.commits = file.commits
<1>1. Target \in 0 .. Target + 1 /\ TRUE \in BOOLEAN
  BY DEF Target
<1> QED
  BY <1>1 DEF Migrated, FileState

(* A failed or an exhausted ormOpen, and a refused call. *)
LEMMA FileStep ==
    ASSUME IInv, TableKept, UNCHANGED <<reading, snapshot, acked, seen>>,
           file' \in {file, Migrated}, g_last_error' \in Errors
    PROVE  IInv'
<1>1. /\ file' \in FileState
      /\ file'.users = file.users /\ file'.commits = file.commits
  BY Types, MigratedOK DEF IInv
<1>2. SnapshotInv'
  BY <1>1 DEF IInv, SnapshotInv, SnapshotOf, TableKept
<1>3. TypeOK'
  BY <1>1, Types, TypesMade, TableStays DEF IInv
<1> QED
  BY <1>1, <1>2, <1>3, TableStays DEF IInv

(* release_slot: the slot is free with a larger generation, or retired. *)
LEMMA ReleasedOK ==
    ASSUME NEW slot \in Slot
    PROVE  /\ Released(slot) \in Slot /\ ~Released(slot).in_use
           /\ Released(slot).generation >= slot.generation
           /\ ~Released(slot).retired => Released(slot).generation > slot.generation
<1>1. PICK g \in Nat : g = slot.generation /\ g <= kGenerationMax
  BY SlotAssumption DEF Slot
<1>2. CASE g >= kGenerationMax
  <2>1. Released(slot) = [slot EXCEPT !.in_use = FALSE, !.retired = TRUE]
    BY <1>1, <1>2 DEF Released
  <2>2. /\ Released(slot) \in Slot /\ Released(slot).in_use = FALSE
        /\ Released(slot).retired = TRUE /\ Released(slot).generation = g
    BY <1>1, <2>1 DEF Slot
  <2> QED
    BY <1>1, <2>2
<1>3. CASE ~(g >= kGenerationMax)
  <2>1. g + 1 \in 0 .. kGenerationMax
    BY <1>1, <1>3, SlotAssumption
  <2>2. Released(slot) = [slot EXCEPT !.in_use = FALSE, !.generation = g + 1]
    BY <1>1, <1>3 DEF Released
  <2>3. /\ Released(slot) \in Slot /\ Released(slot).in_use = FALSE
        /\ Released(slot).generation = g + 1
    BY <1>1, <2>1, <2>2 DEF Slot
  <2> QED
    BY <1>1, <2>3
<1> QED
  BY <1>2, <1>3

LEMMA CloseStep ==
    ASSUME IInv, NEW S, S \subseteq InUse, Close(S), g_last_error' \in Errors
    PROVE  IInv'
<1>1. /\ slots \in [Index -> Slot] /\ holder \in [Index -> 0 .. MaxOpens]
      /\ reading \in [Index -> SUBSET Lookups] /\ seen \in [Index -> 0 .. MaxCommits]
      /\ issued \in Seq(Nat) /\ Len(issued) <= MaxOpens
  BY Types DEF IInv
<1>2. /\ slots' = [i \in Index |-> IF i \in S THEN Released(slots[i]) ELSE slots[i]]
      /\ reading' = [i \in Index |-> IF i \in S THEN {} ELSE reading[i]]
      /\ holder' = [i \in Index |-> IF i \in S THEN 0 ELSE holder[i]]
      /\ connections' = connections - Cardinality(S)
      /\ UNCHANGED <<file, snapshot, issued, acked, seen>>
  BY DEF Close
<1>3. \A i \in Index : /\ slots[i] \in Slot
                       /\ i \in S => slots'[i] = Released(slots[i])
                       /\ i \notin S => slots'[i] = slots[i] /\ holder'[i] = holder[i]
  BY <1>1, <1>2
<1>4. slots' \in [Index -> Slot] /\ holder' \in [Index -> 0 .. MaxOpens]
  <2>1. \A i \in Index : slots'[i] \in Slot
    BY <1>3, ReleasedOK
  <2>2. 0 \in 0 .. MaxOpens
    BY BoundAssumption
  <2> QED
    BY <1>1, <1>2, <2>1, <2>2
<1>5. reading' \in [Index -> SUBSET Lookups] /\ SnapshotInv'
  <2>1. reading' \in [Index -> SUBSET Lookups]
    BY <1>1, <1>2
  <2>2. SnapshotInv'
    <3> SUFFICES ASSUME NEW i \in Index PROVE SnapshotOf(i)'
      BY DEF SnapshotInv
    <3>1. SnapshotOf(i) /\ file' = file /\ seen' = seen /\ snapshot' = snapshot
      BY <1>2 DEF IInv, SnapshotInv
    <3>2. CASE i \in S
      <4>1. reading'[i] = {}
        BY <1>2, <3>2
      <4> QED
        BY <3>1, <4>1 DEF SnapshotOf
    <3>3. CASE i \notin S
      <4>1. reading'[i] = reading[i] /\ slots'[i] = slots[i]
        BY <1>2, <1>3, <3>3
      <4> QED
        BY <3>1, <4>1 DEF SnapshotOf
    <3> QED
      BY <3>2, <3>3
  <2> QED
    BY <2>1, <2>2
<1>6. InUse' = InUse \ S
  <2>1. \A i \in Index : slots'[i].in_use <=> slots[i].in_use /\ i \notin S
    <3> SUFFICES ASSUME NEW i \in Index
                 PROVE  slots'[i].in_use <=> slots[i].in_use /\ i \notin S
      OBVIOUS
    <3>1. CASE i \in S
      BY <1>3, <3>1, ReleasedOK
    <3>2. CASE i \notin S
      BY <1>3, <3>2
    <3> QED
      BY <3>1, <3>2
  <2> QED
    BY <2>1 DEF InUse
<1>7. IsFiniteSet(InUse') /\ connections' = Cardinality(InUse')
  <2>1. IsFiniteSet(InUse) /\ connections = Cardinality(InUse)
    BY DEF IInv
  <2>2. IsFiniteSet(InUse \ S)
        /\ Cardinality(InUse \ S) = Cardinality(InUse) - Cardinality(InUse \cap S)
    BY <2>1, FS_Difference
  <2>3. InUse \cap S = S
    OBVIOUS
  <2> QED
    BY <1>2, <1>6, <2>1, <2>2, <2>3
<1>8. connections' \in 0 .. kSlotCount
  <2>1. InUse \ S \subseteq Index
    BY DEF InUse
  <2> QED
    BY <1>6, <1>7, <2>1, CountOK
<1>9. SlotInv'
  <2> SUFFICES ASSUME NEW i \in Index
               PROVE  /\ slots'[i].in_use => slots'[i].generation >= 1
                      /\ slots'[i].retired => ~slots'[i].in_use
    BY DEF SlotInv
  <2>1. CASE i \in S
    BY <1>3, <2>1, ReleasedOK
  <2>2. CASE i \notin S
    BY <1>3, <2>2 DEF IInv, SlotInv
  <2> QED
    BY <2>1, <2>2
<1>10. TokenInv'
  <2> SUFFICES ASSUME NEW k \in 1..Len(issued)
               PROVE  \E i \in Index, g \in 1..kGenerationMax : TokenOf(k, i, g)'
    BY <1>2 DEF TokenInv
  <2>1. PICK i \in Index, g \in 1..kGenerationMax : TokenOf(k, i, g)
    BY DEF IInv, TokenInv
  <2>2. issued'[k] = EncodeHandle(i, g)
    BY <1>2, <2>1 DEF TokenOf
  <2>3. CASE i \in S
    <3>1. PICK a \in Nat, b \in Nat : a = slots[i].generation /\ b = slots'[i].generation
      BY <1>3, <1>4, SlotAssumption DEF Slot
    <3>2. /\ slots'[i] = Released(slots[i]) /\ ~slots'[i].in_use
          /\ b >= a /\ (~slots'[i].retired => b > a)
      BY <1>3, <2>3, <3>1, ReleasedOK
    <3>3. g <= a /\ g \in Nat
      BY <2>1, <3>1, SlotAssumption DEF TokenOf
    <3>4. g <= b /\ (b > a => g < b)
      BY <3>2, <3>3
    <3>5. TokenOf(k, i, g)'
      BY <2>2, <3>1, <3>2, <3>4 DEF TokenOf
    <3> QED
      BY <3>5
  <2>4. CASE i \notin S
    <3>1. TokenOf(k, i, g)'
      BY <1>3, <2>1, <2>2, <2>4 DEF TokenOf
    <3> QED
      BY <3>1
  <2> QED
    BY <2>3, <2>4
<1>11. TypeOK'
  <2>1. file' \in FileState /\ snapshot' \in [Index -> Snapshot] /\ acked' \in Users
    BY <1>2, Types DEF IInv
  <2> QED
    BY <1>1, <1>2, <1>4, <1>5, <1>8, <2>1, TypesMade
<1> QED
  BY <1>2, <1>5, <1>7, <1>9, <1>10, <1>11 DEF IInv

(* ormOpen takes the first free slot: every earlier token of that slot has *)
(* a smaller generation.                                                   *)
LEMMA OpenStep ==
    ASSUME IInv, OrmOpen
    PROVE  IInv'
<1>i. PICK i : i = CHOOSE j \in Free : \A k \in Free : j <= k
  OBVIOUS
<1>g. PICK g : g = IF slots[i].generation = 0 THEN 1 ELSE slots[i].generation
  OBVIOUS
<1>1. /\ slots \in [Index -> Slot] /\ holder \in [Index -> 0 .. MaxOpens]
      /\ issued \in Seq(Nat) /\ Len(issued) <= MaxOpens
  BY Types DEF IInv
<1>2. /\ slots' = [slots EXCEPT ![i].in_use = TRUE, ![i].generation = g]
      /\ issued' = Append(issued, EncodeHandle(i, g))
      /\ holder' = [holder EXCEPT ![i] = Len(issued) + 1]
      /\ Len(issued) < MaxOpens
      /\ file' = Migrated /\ connections' = connections + 1
      /\ seen' = [seen EXCEPT ![i] = file.commits]
      /\ UNCHANGED <<g_last_error, reading, snapshot, acked>>
  BY <1>i, <1>g DEF OrmOpen
<1>3. i \in Free
  <2>1. \E j \in Free : \A k \in Free : j <= k
    <3>1. Free \subseteq Nat /\ Free # {}
      BY IndexOK DEF Free, OrmOpen
    <3> QED
      BY <3>1, NatMin
  <2> QED
    BY <1>i, <2>1
<1>4. i \in Index /\ ~slots[i].in_use /\ ~slots[i].retired /\ slots[i] \in Slot
  BY <1>1, <1>3 DEF Free
<1>5. g \in 1 .. kGenerationMax /\ g \in Nat \ {0} /\ g >= slots[i].generation
  <2>1. slots[i].generation \in 0 .. kGenerationMax
    BY <1>4 DEF Slot
  <2> QED
    BY <1>g, <2>1, SlotAssumption
<1>6. PICK new \in Slot : /\ new.in_use = TRUE /\ new.retired = slots[i].retired
                          /\ new.generation = g
                          /\ slots' = [slots EXCEPT ![i] = new]
  <2>1. g \in 0 .. kGenerationMax /\ TRUE \in BOOLEAN
    BY <1>5
  <2>2. [slots[i] EXCEPT !.in_use = TRUE, !.generation = g] \in Slot
    BY <1>4, <2>1 DEF Slot
  <2>3. slots' = [slots EXCEPT ![i] = [slots[i] EXCEPT !.in_use = TRUE, !.generation = g]]
    BY <1>1, <1>2, <1>4
  <2> QED
    BY <1>4, <2>2, <2>3 DEF Slot
<1>7. /\ slots' \in [Index -> Slot] /\ slots'[i] = new
      /\ \A j \in Index : j # i => slots'[j] = slots[j] /\ holder'[j] = holder[j]
  BY <1>1, <1>2, <1>4, <1>6
<1>8. PICK n \in Nat : n = Len(issued)
  BY <1>1
<1>9. holder' \in [Index -> 0 .. MaxOpens] /\ holder'[i] = n + 1
  <2>1. n + 1 \in 0 .. MaxOpens
    BY <1>2, <1>8, BoundAssumption
  <2> QED
    BY <1>1, <1>2, <1>4, <1>8, <2>1
<1>10. PICK tok \in Nat : tok = EncodeHandle(i, g)
  BY <1>4, <1>5, EncodeOK
<1>11. /\ issued' \in Seq(Nat) /\ Len(issued') = n + 1 /\ issued'[n + 1] = tok
       /\ \A k \in 1..n : issued'[k] = issued[k]
  BY <1>1, <1>2, <1>8, <1>10
<1>12. InUse' = InUse \cup {i} /\ i \notin InUse
  <2>1. \A j \in Index : slots'[j].in_use <=> (slots[j].in_use \/ j = i)
    BY <1>6, <1>7
  <2> QED
    BY <1>4, <2>1 DEF InUse
<1>13. IsFiniteSet(InUse') /\ connections' = Cardinality(InUse')
  <2>1. IsFiniteSet(InUse) /\ connections = Cardinality(InUse)
    BY DEF IInv
  <2>2. IsFiniteSet(InUse \cup {i}) /\ Cardinality(InUse \cup {i}) = Cardinality(InUse) + 1
    BY <1>12, <2>1, FS_AddElement
  <2> QED
    BY <1>2, <1>12, <2>1, <2>2
<1>14. connections' \in 0 .. kSlotCount
  <2>1. InUse \cup {i} \subseteq Index
    BY <1>4 DEF InUse
  <2> QED
    BY <1>12, <1>13, <2>1, CountOK
<1>15. SlotInv'
  <2> SUFFICES ASSUME NEW j \in Index
               PROVE  /\ slots'[j].in_use => slots'[j].generation >= 1
                      /\ slots'[j].retired => ~slots'[j].in_use
    BY DEF SlotInv
  <2>1. CASE j = i
    <3>1. slots'[j].generation >= 1
      BY <1>5, <1>6, <1>7, <2>1
    <3> QED
      BY <1>4, <1>6, <1>7, <2>1, <3>1
  <2>2. CASE j # i
    BY <1>7, <2>2 DEF IInv, SlotInv
  <2> QED
    BY <2>1, <2>2
<1>16. TokenInv'
  <2> SUFFICES ASSUME NEW k \in 1..(n + 1)
               PROVE  \E j \in Index, x \in 1..kGenerationMax : TokenOf(k, j, x)'
    BY <1>11 DEF TokenInv
  <2>1. CASE k = n + 1
    <3>1. g <= slots'[i].generation
      BY <1>5, <1>6, <1>7
    <3>2. issued'[k] = EncodeHandle(i, g) /\ holder'[i] = k /\ slots'[i].in_use
      BY <1>6, <1>7, <1>9, <1>10, <1>11, <2>1
    <3>3. TokenOf(k, i, g)'
      BY <3>1, <3>2 DEF TokenOf
    <3> QED
      BY <1>4, <1>5, <3>3
  <2>2. CASE k # n + 1
    <3>1. k \in 1..n /\ k \in 1..Len(issued)
      BY <1>8, <2>2
    <3>2. PICK j \in Index, x \in 1..kGenerationMax : TokenOf(k, j, x)
      BY <3>1 DEF IInv, TokenInv
    <3>3. issued'[k] = EncodeHandle(j, x)
      BY <1>11, <3>1, <3>2 DEF TokenOf
    <3>4. CASE j = i
      <4>1. x < slots[i].generation
        BY <1>4, <3>2, <3>4 DEF TokenOf
      <4>2. slots[i].generation \in Nat /\ x \in Nat
        BY <1>4, SlotAssumption DEF Slot
      <4>3. x < g
        BY <1>5, <4>1, <4>2
      <4>4. x <= slots'[j].generation /\ slots'[j].generation # x /\ slots'[j].in_use
        BY <1>5, <1>6, <1>7, <3>4, <4>2, <4>3
      <4>5. TokenOf(k, j, x)'
        BY <3>3, <4>4 DEF TokenOf
      <4> QED
        BY <4>5
    <3>5. CASE j # i
      <4>1. TokenOf(k, j, x)'
        BY <1>7, <3>2, <3>3, <3>5 DEF TokenOf
      <4> QED
        BY <4>1
    <3> QED
      BY <3>4, <3>5
  <2> QED
    BY <2>1, <2>2
<1>17. /\ file' \in FileState /\ file'.users = acked'
       /\ file'.users = file.users /\ file'.commits = file.commits
  BY <1>2, Types, MigratedOK DEF IInv
<1>f. file.commits \in 0 .. MaxCommits /\ seen \in [Index -> 0 .. MaxCommits]
  BY Types DEF IInv, FileState
<1>s. SnapshotInv'
  <2> SUFFICES ASSUME NEW j \in Index PROVE SnapshotOf(j)'
    BY DEF SnapshotInv
  <2>1. SnapshotOf(j) /\ reading' = reading /\ snapshot' = snapshot
    BY <1>2 DEF IInv, SnapshotInv
  <2>2. CASE j = i
    <3>1. reading'[j] = {} /\ seen'[j] = file.commits
      BY <1>2, <1>4, <1>f, <2>1, <2>2 DEF SnapshotOf
    <3>2. file.commits <= file'.commits
      BY <1>17, <1>f
    <3> QED
      BY <3>1, <3>2 DEF SnapshotOf
  <2>3. CASE j # i
    <3>1. seen'[j] = seen[j] /\ slots'[j] = slots[j]
      BY <1>2, <1>7, <1>f, <2>3
    <3> QED
      BY <1>17, <2>1, <3>1 DEF SnapshotOf
  <2> QED
    BY <2>2, <2>3
<1>18. TypeOK'
  <2>1. /\ snapshot' \in [Index -> Snapshot] /\ acked' \in Users
        /\ reading' \in [Index -> SUBSET Lookups] /\ seen' \in [Index -> 0 .. MaxCommits]
        /\ g_last_error' \in Errors
    BY <1>2, <1>4, <1>f, Types DEF IInv
  <2>2. Len(issued') <= MaxOpens
    BY <1>2, <1>8, <1>11, BoundAssumption
  <2> QED
    BY <1>7, <1>9, <1>11, <1>14, <1>17, <2>1, <2>2, TypesMade
<1> QED
  BY <1>2, <1>13, <1>15, <1>16, <1>17, <1>18, <1>s DEF IInv

(* What a slot sees: no older than its last answer, and if it is the       *)
(* newest there is, the rows of the file.                                  *)
LEMMA ViewOK ==
    ASSUME IInv, NEW i \in Index, NEW statement
    PROVE  LET view == ViewAfterReset(i, statement)
           IN  /\ view \in Snapshot /\ view.commits \in seen[i] .. file.commits
               /\ view.commits = file.commits => view.users = file.users
<1>1. /\ file \in FileState /\ snapshot \in [Index -> Snapshot]
      /\ seen[i] \in 0 .. MaxCommits /\ reading \in [Index -> SUBSET Lookups]
  BY Types DEF IInv
<1>2. SnapshotOf(i)
  BY DEF IInv, SnapshotInv
<1>3. CASE reading[i] \ {statement} = {}
  <2>1. ViewAfterReset(i, statement) = [users |-> file.users, commits |-> file.commits]
    BY <1>3 DEF ViewAfterReset
  <2>2. file.commits \in 0 .. MaxCommits /\ file.users \in Users
    BY <1>1 DEF FileState
  <2>3. file.commits \in seen[i] .. file.commits
    BY <1>1, <1>2, <2>2 DEF SnapshotOf
  <2> QED
    BY <2>1, <2>2, <2>3 DEF Snapshot
<1>4. CASE reading[i] \ {statement} # {}
  <2>1. ViewAfterReset(i, statement) = snapshot[i] /\ reading[i] # {}
    BY <1>4 DEF ViewAfterReset
  <2> QED
    BY <1>1, <1>2, <2>1 DEF SnapshotOf
<1> QED
  BY <1>3, <1>4

(* A slot SQLite lets write sees the rows of the file. *)
LEMMA FreshView ==
    ASSUME IInv, NEW i \in Index, ~Stale(i)
    PROVE  View(i).users = file.users
<1>1. CASE reading[i] = {}
  BY <1>1 DEF View, ViewAfterReset
<1>2. CASE reading[i] # {}
  <2>1. snapshot[i].commits = file.commits
    BY <1>2 DEF Stale
  <2>2. snapshot[i].users = file.users
    BY <1>2, <2>1 DEF IInv, SnapshotInv, SnapshotOf
  <2>3. View(i) = snapshot[i] \/ View(i).users = file.users
    BY DEF View, ViewAfterReset
  <2> QED
    BY <2>2, <2>3
<1> QED
  BY <1>1, <1>2

(* A commit: every other snapshot falls behind, or nothing changed. *)
LEMMA CommittedStep ==
    ASSUME IInv, NEW i \in Index, slots[i].in_use, NEW after \in Users,
           Committed(i, after, after), UNCHANGED <<TableVars, reading>>
    PROVE  IInv'
<1>1. TableKept
  BY DEF TableVars, TableKept
<1>2. /\ file \in FileState /\ snapshot \in [Index -> Snapshot]
      /\ reading \in [Index -> SUBSET Lookups] /\ seen \in [Index -> 0 .. MaxCommits]
      /\ g_last_error \in Errors
  BY Types DEF IInv
<1>3. PICK commits : /\ commits = IF after # file.users THEN file.commits + 1
                                                        ELSE file.commits
                     /\ commits <= MaxCommits
                     /\ file' = [file EXCEPT !.users = after, !.commits = commits]
                     /\ snapshot' = IF reading[i] = {} THEN snapshot
                                    ELSE [snapshot EXCEPT ![i] =
                                            [users |-> after, commits |-> commits]]
                     /\ seen' = [seen EXCEPT ![i] = commits]
                     /\ acked' = after /\ UNCHANGED g_last_error
  BY DEF Committed
<1>4. PICK old \in 0 .. MaxCommits : old = file.commits
  BY <1>2 DEF FileState
<1>5. /\ commits \in 0 .. MaxCommits /\ old <= commits
      /\ commits = old => after = file.users
  BY <1>3, <1>4, BoundAssumption
<1>6. file' \in FileState /\ file'.users = after /\ file'.commits = commits
  BY <1>2, <1>3, <1>5 DEF FileState
<1>7. [users |-> after, commits |-> commits] \in Snapshot
  BY <1>5 DEF Snapshot
<1>8. snapshot' \in [Index -> Snapshot] /\ seen' \in [Index -> 0 .. MaxCommits]
  BY <1>2, <1>3, <1>5, <1>7
<1>9. SnapshotInv'
  <2> SUFFICES ASSUME NEW j \in Index PROVE SnapshotOf(j)'
    BY DEF SnapshotInv
  <2>1. SnapshotOf(j) /\ reading' = reading /\ slots' = slots
    BY DEF IInv, SnapshotInv, TableVars
  <2>2. CASE j = i
    <3>1. seen'[j] = commits /\ commits \in commits .. commits
      BY <1>2, <1>3, <1>5, <2>2
    <3>2. reading[j] # {} => snapshot'[j] = [users |-> after, commits |-> commits]
      BY <1>2, <1>3, <2>2
    <3> QED
      BY <1>5, <1>6, <2>1, <2>2, <3>1, <3>2 DEF SnapshotOf
  <2>3. CASE j # i
    <3>1. seen'[j] = seen[j] /\ snapshot'[j] = snapshot[j]
      BY <1>2, <1>3, <2>3
    <3>2. PICK s \in 0 .. MaxCommits, c \in 0 .. MaxCommits :
              s = seen[j] /\ c = snapshot[j].commits
      BY <1>2 DEF Snapshot
    <3>3. s <= old /\ (reading[j] # {} => c \in s .. old)
      BY <1>4, <2>1, <3>2 DEF SnapshotOf
    <3>4. s <= commits /\ (reading[j] # {} => c \in s .. commits)
      BY <1>5, <3>2, <3>3
    <3>5. reading[j] # {} /\ c = commits => snapshot[j].users = after
      <4> SUFFICES ASSUME reading[j] # {}, c = commits
                   PROVE  snapshot[j].users = after
        OBVIOUS
      <4>1. c = old
        BY <1>5, <3>2, <3>3
      <4> QED
        BY <1>4, <1>5, <2>1, <3>2, <4>1 DEF SnapshotOf
    <3> QED
      BY <1>6, <2>1, <3>1, <3>2, <3>4, <3>5 DEF SnapshotOf
  <2> QED
    BY <2>2, <2>3
<1>10. TypeOK'
  BY <1>1, <1>2, <1>3, <1>6, <1>8, TableStays, TypesMade
<1> QED
  BY <1>1, <1>3, <1>6, <1>9, <1>10, TableStays DEF IInv

(* A statement that changes rows, or fails without effect. *)
LEMMA ChangesStep ==
    ASSUME IInv, NEW i \in Index, slots[i].in_use,
           NEW allowed, NEW after, NEW answered,
           View(i).users = file.users => after \in Users /\ after = answered,
           FinishChanges(i, allowed, after, answered),
           UNCHANGED <<TableVars, reading>>
    PROVE  IInv'
<1>1. CASE ~Stale(i) /\ Committed(i, after, answered)
  <2>1. after \in Users /\ after = answered
    BY <1>1, FreshView
  <2> QED
    BY <1>1, <2>1, CommittedStep
<1>2. CASE NotCommitted
  <2>1. /\ TableKept /\ UNCHANGED <<reading, snapshot, acked, seen>> /\ file' = file
        /\ g_last_error' \in Errors
    BY <1>2 DEF NotCommitted, TableVars, TableKept, Errors
  <2> QED
    BY <2>1, FileStep
<1> QED
  BY <1>1, <1>2 DEF FinishChanges

LEMMA RowOK ==
    ASSUME NEW users \in Users, NEW id \in Id
    PROVE  users[id] # NoRow => users[id] \in Row
BY DEF Users

(* The rows a change leaves are the rows its answer implies: the position  *)
(* of every parameter is the one the generated SQL expects.                *)
LEMMA InsertAnswer ==
    ASSUME NEW users \in Users, NEW id \in Id, NEW name \in Name, NEW email \in Email
    PROVE  /\ SqlInsert(users, BindInsert(id, name, email))
                = [users EXCEPT ![id] = [name |-> name, email |-> email]]
           /\ [users EXCEPT ![id] = [name |-> name, email |-> email]] \in Users
<1>1. [name |-> name, email |-> email] \in Row
  BY DEF Row
<1>2. [users EXCEPT ![id] = [name |-> name, email |-> email]] \in Users
  BY <1>1 DEF Users
<1> QED
  BY <1>2 DEF SqlInsert, BindInsert

LEMMA UpdateAnswer ==
    ASSUME NEW users \in Users, NEW id \in Id, NEW name \in Name
    PROVE  LET answer == IF users[id] = NoRow THEN users
                         ELSE [users EXCEPT ![id].name = name]
           IN  answer \in Users /\ SqlUpdateName(users, BindUpdateName(id, name)) = answer
<1> DEFINE sql == SqlUpdateName(users, BindUpdateName(id, name))
<1>1. sql = [x \in Id |-> IF x = id /\ users[x] # NoRow
                          THEN [users[x] EXCEPT !.name = name] ELSE users[x]]
  BY DEF SqlUpdateName, BindUpdateName
<1>2. users = [x \in Id |-> users[x]]
  BY DEF Users
<1>3. CASE users[id] = NoRow
  <2>1. \A x \in Id : sql[x] = users[x]
    BY <1>1, <1>3
  <2>2. sql = users
    BY <1>1, <1>2, <2>1
  <2> QED
    BY <1>3, <2>2
<1>4. CASE users[id] # NoRow
  <2>1. PICK row \in Row : row = [users[id] EXCEPT !.name = name]
    <3>1. users[id] \in Row
      BY <1>4, RowOK
    <3> QED
      BY <3>1 DEF Row
  <2>2. PICK answer : answer = [users EXCEPT ![id] = row]
    OBVIOUS
  <2>3. answer \in Users /\ answer = [x \in Id |-> IF x = id THEN row ELSE users[x]]
    BY <1>2, <2>1, <2>2 DEF Users
  <2>4. \A x \in Id : sql[x] = IF x = id THEN row ELSE users[x]
    BY <1>1, <1>4, <2>1
  <2>5. sql = answer
    BY <1>1, <2>3, <2>4
  <2>6. answer = [users EXCEPT ![id].name = name]
    BY <2>1, <2>2
  <2> QED
    BY <1>4, <2>3, <2>5, <2>6
<1> QED
  BY <1>3, <1>4

LEMMA DeleteAnswer ==
    ASSUME NEW users \in Users, NEW id \in Id
    PROVE  /\ SqlDelete(users, BindDelete(id)) = [users EXCEPT ![id] = NoRow]
           /\ [users EXCEPT ![id] = NoRow] \in Users
<1>1. [users EXCEPT ![id] = NoRow] \in Users
  BY DEF Users
<1>2. users = [x \in Id |-> users[x]]
  BY DEF Users
<1>3. SqlDelete(users, BindDelete(id)) = [x \in Id |-> IF x = id THEN NoRow ELSE users[x]]
  BY DEF SqlDelete, BindDelete
<1> QED
  BY <1>1, <1>2, <1>3 DEF Users

LEMMA ChangeCalls ==
    ASSUME IInv, NEW i \in Index, slots[i].in_use,
           \/ \E id \in Id, name \in Name, email \in Email : UserInsert(i, id, name, email)
           \/ \E id \in Id, name \in Name : UserUpdateName(i, id, name)
           \/ \E id \in Id : UserDeleteById(i, id)
    PROVE  IInv'
<1>1. PICK u \in Users : u = acked /\ u = file.users
  BY Types DEF IInv
<1>v. PICK v : v = View(i).users
  OBVIOUS
<1>2. ASSUME NEW id \in Id, NEW name \in Name, NEW email \in Email,
             UserInsert(i, id, name, email)
      PROVE  IInv'
  <2>1. PICK answered : answered = [u EXCEPT ![id] = [name |-> name, email |-> email]]
    OBVIOUS
  <2>2. PICK after : after = SqlInsert(v, BindInsert(id, name, email))
    OBVIOUS
  <2>3. v = file.users => after \in Users /\ after = answered
    BY <1>1, <2>1, <2>2, InsertAnswer
  <2>4. /\ FinishChanges(i, InsertAllowed(v, BindInsert(id, name, email)), after, answered)
        /\ UNCHANGED <<TableVars, reading>>
    BY <1>1, <1>2, <1>v, <2>1, <2>2 DEF UserInsert
  <2> QED
    BY <1>v, <2>3, <2>4, ChangesStep
<1>3. ASSUME NEW id \in Id, NEW name \in Name, UserUpdateName(i, id, name)
      PROVE  IInv'
  <2>1. PICK answered : answered = IF u[id] = NoRow THEN u
                                   ELSE [u EXCEPT ![id].name = name]
    OBVIOUS
  <2>2. PICK after : after = SqlUpdateName(v, BindUpdateName(id, name))
    OBVIOUS
  <2>3. v = file.users => after \in Users /\ after = answered
    BY <1>1, <2>1, <2>2, UpdateAnswer
  <2>4. FinishChanges(i, TRUE, after, answered) /\ UNCHANGED <<TableVars, reading>>
    BY <1>1, <1>3, <1>v, <2>1, <2>2 DEF UserUpdateName
  <2> QED
    BY <1>v, <2>3, <2>4, ChangesStep
<1>4. ASSUME NEW id \in Id, UserDeleteById(i, id)
      PROVE  IInv'
  <2>1. PICK answered : answered = [u EXCEPT ![id] = NoRow]
    OBVIOUS
  <2>2. PICK after : after = SqlDelete(v, BindDelete(id))
    OBVIOUS
  <2>3. v = file.users => after \in Users /\ after = answered
    BY <1>1, <2>1, <2>2, DeleteAnswer
  <2>4. FinishChanges(i, TRUE, after, answered) /\ UNCHANGED <<TableVars, reading>>
    BY <1>1, <1>4, <1>v, <2>1, <2>2 DEF UserDeleteById
  <2> QED
    BY <1>v, <2>3, <2>4, ChangesStep
<1> QED
  BY <1>2, <1>3, <1>4

(* A lookup: a row it returns leaves its statement active in the snapshot  *)
(* it was read from, which is no older than what the slot saw before.      *)
LEMMA LookupStep ==
    ASSUME IInv, NEW i \in Index, slots[i].in_use, NEW lookup \in Lookups, NEW arg,
           StepOnce(i, lookup, arg) \/ StepFails(i, lookup),
           UNCHANGED <<TableVars, file, acked>>
    PROVE  IInv'
<1>1. TableKept /\ slots' = slots
  BY DEF TableVars, TableKept
<1>2. /\ file \in FileState /\ snapshot \in [Index -> Snapshot] /\ acked \in Users
      /\ reading \in [Index -> SUBSET Lookups] /\ seen \in [Index -> 0 .. MaxCommits]
      /\ g_last_error \in Errors
  BY Types DEF IInv
<1>3. PICK view \in Snapshot :
          /\ view = ViewAfterReset(i, lookup) /\ view.commits \in seen[i] .. file.commits
          /\ view.commits = file.commits => view.users = file.users
  BY ViewOK
<1>4. PICK c \in 0 .. MaxCommits, f \in 0 .. MaxCommits :
          c = view.commits /\ f = file.commits /\ c <= f
  BY <1>2, <1>3 DEF Snapshot, FileState
<1>5. /\ reading' \in [Index -> SUBSET Lookups] /\ seen' \in [Index -> 0 .. MaxCommits]
      /\ snapshot' \in [Index -> Snapshot] /\ g_last_error' \in Errors
      /\ \A j \in Index : j # i => /\ reading'[j] = reading[j] /\ seen'[j] = seen[j]
                                   /\ snapshot'[j] = snapshot[j]
  <2>1. CASE StepOnce(i, lookup, arg)
    BY <1>2, <1>3, <1>4, <2>1 DEF StepOnce
  <2>2. CASE StepFails(i, lookup)
    BY <1>2, <2>2 DEF StepFails, Errors
  <2> QED
    BY <2>1, <2>2
<1>6. SnapshotOf(i)'
  <2>1. SnapshotOf(i)
    BY DEF IInv, SnapshotInv
  <2>2. CASE StepOnce(i, lookup, arg)
    <3>1. seen'[i] = c
      BY <1>2, <1>3, <1>4, <2>2 DEF StepOnce
    <3>2. reading'[i] # {} => snapshot'[i] = view
      <4>1. PICK found : found <=> SqlWhere(view.users, lookup, arg) # {}
        OBVIOUS
      <4>2. CASE found
        BY <1>2, <1>3, <2>2, <4>1, <4>2 DEF StepOnce
      <4>3. CASE ~found
        <5>1. reading'[i] = reading[i] \ {lookup} /\ snapshot' = snapshot
          BY <1>2, <1>3, <2>2, <4>1, <4>3 DEF StepOnce
        <5> QED
          BY <1>3, <5>1 DEF ViewAfterReset
      <4> QED
        BY <4>2, <4>3
    <3>3. c \in c .. f
      BY <1>4
    <3> QED
      BY <1>1, <1>3, <1>4, <3>1, <3>2, <3>3 DEF SnapshotOf
  <2>3. CASE StepFails(i, lookup)
    <3>1. /\ reading'[i] = reading[i] \ {lookup}
          /\ UNCHANGED <<snapshot, seen>>
      BY <1>2, <2>3 DEF StepFails
    <3> QED
      BY <1>1, <2>1, <3>1 DEF SnapshotOf
  <2> QED
    BY <2>2, <2>3
<1>7. SnapshotInv'
  <2>1. ASSUME NEW j \in Index, j # i PROVE SnapshotOf(j)'
    BY <1>1, <1>5, <2>1 DEF IInv, SnapshotInv, SnapshotOf
  <2> QED
    BY <1>6, <2>1 DEF SnapshotInv
<1>8. TypeOK'
  BY <1>1, <1>2, <1>5, TableStays, TypesMade
<1> QED
  BY <1>1, <1>7, <1>8, TableStays DEF IInv

(* A listing: it reads from the snapshot of its slot and leaves it. *)
LEMMA ListStep ==
    ASSUME IInv, NEW i \in Index, UserList(i)
    PROVE  IInv'
<1>1. /\ TableKept /\ UNCHANGED <<slots, file, acked, reading, snapshot>>
      /\ g_last_error' \in {g_last_error, "failed"}
      /\ seen' \in {seen, [seen EXCEPT ![i] = View(i).commits]}
  BY DEF UserList, StepToDone, TableVars, TableKept
<1>2. /\ file \in FileState /\ snapshot \in [Index -> Snapshot] /\ acked \in Users
      /\ reading \in [Index -> SUBSET Lookups] /\ seen \in [Index -> 0 .. MaxCommits]
      /\ g_last_error \in Errors
  BY Types DEF IInv
<1>3. PICK c \in 0 .. MaxCommits : c = View(i).commits /\ c \in seen[i] .. file.commits
  BY ViewOK DEF View, Snapshot
<1>4. seen' \in [Index -> 0 .. MaxCommits] /\ g_last_error' \in Errors
  BY <1>1, <1>2, <1>3 DEF Errors
<1>5. SnapshotInv'
  <2> SUFFICES ASSUME NEW j \in Index PROVE SnapshotOf(j)'
    BY DEF SnapshotInv
  <2>1. SnapshotOf(j)
    BY DEF IInv, SnapshotInv
  <2>2. CASE seen'[j] = seen[j]
    <3>1. /\ slots' = slots /\ file' = file
          /\ reading' = reading /\ snapshot' = snapshot
      BY <1>1
    <3> QED
      BY <2>1, <2>2, <3>1 DEF SnapshotOf
  <2>3. CASE j = i /\ seen'[j] = c
    <3>1. reading[j] # {} => c = snapshot[j].commits
      <4>1. "none" \notin Lookups /\ reading[j] \subseteq Lookups
        BY <1>2 DEF Lookups
      <4>2. reading[j] \ {"none"} = reading[j]
        BY <4>1
      <4> QED
        BY <1>3, <2>3, <4>2 DEF View, ViewAfterReset
    <3>2. PICK f \in 0 .. MaxCommits : f = file.commits /\ c <= f /\ c \in c .. f
      BY <1>2, <1>3 DEF FileState
    <3> QED
      BY <1>1, <2>1, <2>3, <3>1, <3>2 DEF SnapshotOf
  <2> QED
    BY <1>1, <1>2, <1>3, <2>2, <2>3
<1>6. TypeOK'
  BY <1>1, <1>2, <1>4, TableStays, TypesMade
<1> QED
  BY <1>1, <1>5, <1>6, TableStays DEF IInv

LEMMA NamedStep ==
    ASSUME IInv, NEW i \in Index, slots[i].in_use, Named(i)
    PROVE  IInv'
<1>1. "find_by_id" \in Lookups /\ "find_by_email" \in Lookups
  BY DEF Lookups
<1>2. ASSUME NEW id \in Id, UserFindById(i, id) PROVE IInv'
  BY <1>1, <1>2, LookupStep DEF UserFindById
<1>3. ASSUME NEW email \in Email, UserFindByEmail(i, email) PROVE IInv'
  BY <1>1, <1>3, LookupStep DEF UserFindByEmail
<1> QED
  BY <1>2, <1>3, ChangeCalls, ListStep DEF Named

LEMMA InitOK ==
    ASSUME Init
    PROVE  IInv
<1>1. /\ 0 \in 0 .. kGenerationMax /\ 0 \in 0 .. MaxCommits /\ 0 \in 0 .. MaxOpens
      /\ 0 \in 0 .. kSlotCount
  BY SlotAssumption, BoundAssumption, IndexOK
<1>2. EmptyUsers \in Users
  BY DEF EmptyUsers, Users
<1>3. slots \in [Index -> Slot] /\ \A i \in Index : ~slots[i].in_use /\ ~slots[i].retired
  BY <1>1 DEF Init, Slot
<1>4. file \in FileState
  BY <1>1, <1>2, TableAssumption DEF Init, FileState, Users, Row
<1>5. snapshot \in [Index -> Snapshot]
  BY <1>1, <1>2 DEF Init, Snapshot
<1>6. TypeOK
  <2>1. /\ reading \in [Index -> SUBSET Lookups] /\ seen \in [Index -> 0 .. MaxCommits]
        /\ connections \in 0 .. kSlotCount /\ issued \in Seq(Nat)
        /\ Len(issued) <= MaxOpens /\ holder \in [Index -> 0 .. MaxOpens]
        /\ g_last_error \in Errors
    BY <1>1, BoundAssumption DEF Init, Errors
  <2>2. acked \in Users
    BY <1>4 DEF Init, FileState
  <2> QED
    BY <1>3, <1>4, <1>5, <2>1, <2>2 DEF TypeOK, Slot, FileState, Snapshot
<1>7. InUse = {}
  BY <1>3 DEF InUse
<1>8. IsFiniteSet(InUse) /\ connections = Cardinality(InUse)
  BY <1>7, FS_EmptySet DEF Init
<1>9. SlotInv /\ TokenInv
  BY <1>3 DEF Init, SlotInv, TokenInv
<1>10. SnapshotInv
  BY DEF Init, SnapshotInv, SnapshotOf
<1> QED
  BY <1>6, <1>8, <1>9, <1>10 DEF IInv, Init

LEMMA NextOK ==
    ASSUME IInv, [Next]_vars
    PROVE  IInv'
<1>1. CASE OrmOpen
  BY <1>1, OpenStep
<1>2. CASE OrmOpenExhausted \/ OrmOpenFails
  <2>1. /\ TableKept /\ UNCHANGED <<reading, snapshot, acked, seen>>
        /\ file' \in {file, Migrated} /\ g_last_error' \in Errors
    BY <1>2 DEF OrmOpenExhausted, OrmOpenFails, TableKept, Errors
  <2> QED
    BY <2>1, FileStep
<1>3. CASE Terminate
  <2>1. Close(InUse) /\ g_last_error' \in Errors /\ InUse \subseteq InUse
    BY <1>3 DEF Terminate, InUse, Errors
  <2> QED
    BY <2>1, CloseStep
<1>4. ASSUME NEW token \in Tokens,
             \/ Refused(token) \/ OrmClose(token)
             \/ SlotForHandle(token) # NoSlot /\ Named(SlotForHandle(token))
      PROVE  IInv'
  <2>1. token \in Nat
    <3>1. issued \in Seq(Nat)
      BY Types DEF IInv
    <3> QED
      BY <3>1 DEF Tokens
  <2>2. CASE Refused(token)
    <3>1. /\ TableKept /\ UNCHANGED <<reading, snapshot, acked, seen>>
          /\ file' = file /\ g_last_error' \in Errors
      BY <2>2 DEF Refused, TableKept, Errors
    <3> QED
      BY <3>1, FileStep
  <2>3. CASE OrmClose(token)
    <3>1. PICK i : i = SlotForHandle(token) /\ i \in Index /\ slots[i].in_use
      BY <2>1, <2>3, AcceptedOK DEF OrmClose
    <3>2. {i} \subseteq InUse /\ Close({i}) /\ g_last_error' \in Errors
      BY <2>3, <3>1, Types DEF IInv, InUse, OrmClose
    <3> QED
      BY <3>2, CloseStep
  <2>4. CASE SlotForHandle(token) # NoSlot /\ Named(SlotForHandle(token))
    <3>1. PICK i \in Index : i = SlotForHandle(token) /\ slots[i].in_use
      BY <2>1, <2>4, AcceptedOK
    <3> QED
      BY <2>4, <3>1, NamedStep
  <2> QED
    BY <1>4, <2>2, <2>3, <2>4
<1>5. CASE UNCHANGED vars
  <2>1. /\ TableKept /\ UNCHANGED <<reading, snapshot, acked, seen>>
        /\ file' = file /\ g_last_error' \in Errors
    BY <1>5, Types DEF vars, TableKept, IInv
  <2> QED
    BY <2>1, FileStep
<1> QED
  BY <1>1, <1>2, <1>3, <1>4, <1>5 DEF Next

LEMMA Invariant == Spec => []IInv
<1>1. Init => IInv
  BY InitOK
<1>2. IInv /\ [Next]_vars => IInv'
  BY NextOK
<1> QED
  BY <1>1, <1>2, PTL DEF Spec

(* A slot that a step leaves accepting generation g accepted it before, or *)
(* g is a generation no token of the slot has had.                         *)
LEMMA AcceptingStays ==
    ASSUME IInv, [Next]_vars, NEW k \in 1..Len(issued), NEW i \in Index,
           NEW g \in 1..kGenerationMax, TokenOf(k, i, g),
           slots'[i].in_use, slots'[i].generation = g
    PROVE  /\ slots[i].in_use /\ ~slots[i].retired /\ slots[i].generation = g
           /\ issued'[k] = issued[k]
<1>1. slots \in [Index -> Slot] /\ issued \in Seq(Nat)
  BY Types DEF IInv
<1>2. CASE slots' = slots /\ issued' = issued
  BY <1>2 DEF IInv, SlotInv
<1>3. ASSUME NEW S, Close(S)
      PROVE  /\ slots[i].in_use /\ ~slots[i].retired /\ slots[i].generation = g
             /\ issued'[k] = issued[k]
  <2>1. i \notin S
    <3>1. i \in S => slots'[i] = Released(slots[i])
      BY <1>3 DEF Close
    <3> QED
      BY <1>1, <3>1, ReleasedOK
  <2>2. slots'[i] = slots[i] /\ issued' = issued
    BY <1>3, <2>1 DEF Close
  <2> QED
    BY <2>2 DEF IInv, SlotInv
<1>4. CASE OrmOpen
  <2>j. PICK j : j = CHOOSE y \in Free : \A z \in Free : y <= z
    OBVIOUS
  <2>x. PICK x : x = IF slots[j].generation = 0 THEN 1 ELSE slots[j].generation
    OBVIOUS
  <2>1. /\ slots' = [slots EXCEPT ![j].in_use = TRUE, ![j].generation = x]
        /\ issued' = Append(issued, EncodeHandle(j, x))
    BY <1>4, <2>j, <2>x DEF OrmOpen
  <2>2. j \in Free
    <3>1. Free \subseteq Nat /\ Free # {}
      BY <1>4, IndexOK DEF Free, OrmOpen
    <3>2. \E y \in Free : \A z \in Free : y <= z
      BY <3>1, NatMin
    <3> QED
      BY <2>j, <3>2, SMTT(60)
  <2>3. j \in Index /\ ~slots[j].in_use /\ ~slots[j].retired /\ slots[j] \in Slot
    BY <1>1, <2>2 DEF Free
  <2>4. j # i
    <3> SUFFICES ASSUME j = i PROVE FALSE
      OBVIOUS
    <3>1. slots'[i].generation = x
      BY <1>1, <2>1, <2>3 DEF Slot
    <3>2. g < slots[i].generation
      BY <2>3 DEF TokenOf
    <3>3. slots[i].generation \in Nat /\ g \in Nat
      BY <2>3, SlotAssumption DEF Slot
    <3> QED
      BY <2>x, <3>1, <3>2, <3>3
  <2>5. slots'[i] = slots[i] /\ issued'[k] = issued[k]
    BY <1>1, <2>1, <2>3, <2>4
  <2> QED
    BY <2>5 DEF IInv, SlotInv
<1>5. \/ slots' = slots /\ issued' = issued
      \/ \E S : Close(S)
      \/ OrmOpen
  BY DEF Next, vars, OrmOpenExhausted, OrmOpenFails, Terminate, Refused, OrmClose, Named,
         UserInsert, UserUpdateName, UserDeleteById, UserFindById, UserFindByEmail,
         UserList, TableVars
<1> QED
  BY <1>2, <1>3, <1>4, <1>5

LEMMA RefusedStays ==
    ASSUME IInv, [Next]_vars, NEW k \in DOMAIN issued,
           SlotForHandle(issued[k]) = NoSlot
    PROVE  SlotForHandle(issued[k])' = NoSlot
<1>1. k \in 1..Len(issued) /\ issued[k] \in Nat
  BY Types DEF IInv
<1>2. PICK i \in Index, g \in 1..kGenerationMax : TokenOf(k, i, g)
  BY <1>1 DEF IInv, TokenInv
<1>3. /\ g \in Nat \ {0} /\ i \in Nat /\ issued[k] = EncodeHandle(i, g)
  BY <1>2, SlotAssumption, IndexOK DEF TokenOf
<1>4. PICK tok \in Nat : /\ tok = issued[k] /\ tok > 0
                         /\ tok % 2 ^ kSlotBits = i + 1 /\ tok \div 2 ^ kSlotBits = g
  BY <1>3, EncodeOK
<1>5. ~(slots[i].in_use /\ ~slots[i].retired /\ slots[i].generation = g)
  <2> SUFFICES ASSUME slots[i].in_use, ~slots[i].retired, slots[i].generation = g
               PROVE  SlotForHandle(tok) = i
    BY <1>4, IndexOK
  <2>1. i + 1 # 0 /\ (i + 1) - 1 = i
    BY <1>3
  <2> QED
    BY <1>4, <2>1 DEF SlotForHandle
<1>6. ~(slots'[i].in_use /\ slots'[i].generation = g)
  BY <1>1, <1>2, <1>5, AcceptingStays
<1>7. issued'[k] = issued[k]
  <2>1. issued' = issued \/ \E x : issued' = Append(issued, x)
    BY DEF Next, vars, OrmOpen, OrmOpenExhausted, OrmOpenFails, Terminate, Close, Refused,
           OrmClose, Named, UserInsert, UserUpdateName, UserDeleteById, UserFindById,
           UserFindByEmail, UserList, TableVars
  <2>2. issued \in Seq(Nat)
    BY Types DEF IInv
  <2> QED
    BY <1>1, <2>1, <2>2
<1>8. (i + 1) - 1 = i
  BY <1>3
<1> QED
  BY <1>4, <1>6, <1>7, <1>8 DEF SlotForHandle

-----------------------------------------------------------------------------
(* What follows. *)

(* The bridge's table keeps its type: no generation passes the last one a  *)
(* token has room for, and the process never has more connections than     *)
(* slots.                                                                  *)
THEOREM BridgeTypes == Spec => []TypeOK
<1>1. IInv => TypeOK
  BY DEF IInv
<1> QED
  BY <1>1, Invariant, PTL

(* A token names the open it was returned for or nothing, for any number   *)
(* of opens, and every connection belongs to a handle in use.              *)
THEOREM HandlesStayOwn == Spec => []HandlesOwnOpens
<1>1. IInv => HandlesOwnOpens
  <2> SUFFICES ASSUME IInv PROVE HandlesOwnOpens
    OBVIOUS
  <2>1. TokenNamesItsOpen
    <3> SUFFICES ASSUME NEW k \in DOMAIN issued, SlotForHandle(issued[k]) # NoSlot
                 PROVE  holder[SlotForHandle(issued[k])] = k
      BY DEF TokenNamesItsOpen
    <3>1. k \in 1..Len(issued) /\ issued[k] \in Nat
      BY Types DEF IInv
    <3>2. PICK i \in Index, g \in 1..kGenerationMax : TokenOf(k, i, g)
      BY <3>1 DEF IInv, TokenInv
    <3>3. g \in Nat \ {0} /\ issued[k] = EncodeHandle(i, g) /\ i \in Nat
      BY <3>2, SlotAssumption, IndexOK DEF TokenOf
    <3>4. issued[k] % 2 ^ kSlotBits = i + 1 /\ issued[k] \div 2 ^ kSlotBits = g
      BY <3>3, EncodeOK
    <3>5. PICK s \in Index : /\ s = SlotForHandle(issued[k]) /\ slots[s].in_use
                             /\ s = (issued[k] % 2 ^ kSlotBits) - 1
                             /\ slots[s].generation = issued[k] \div 2 ^ kSlotBits
      BY <3>1, AcceptedOK
    <3>6. s = i /\ slots[i].in_use /\ slots[i].generation = g
      BY <3>3, <3>4, <3>5
    <3> QED
      BY <3>2, <3>5, <3>6 DEF TokenOf
  <2>2. NoConnectionLeaked
    BY DEF IInv, NoConnectionLeaked, InUse
  <2> QED
    BY <2>1, <2>2 DEF HandlesOwnOpens
<1> QED
  BY <1>1, Invariant, PTL

(* The table holds the rows the answers imply, for every sequence of calls *)
(* on any number of handles: a statement that ran from an older snapshot   *)
(* or failed has changed nothing, and no answered change is lost.          *)
THEOREM RowsMatchAnswers == Spec => []AnswersMatchRows
<1>1. IInv => AnswersMatchRows
  BY DEF IInv, AnswersMatchRows
<1> QED
  BY <1>1, Invariant, PTL

(* A handle's answers never go back, for any number of handles and calls,  *)
(* and a handle that sees the newest commit sees its rows.                 *)
THEOREM AnswersForward == Spec => []AnswersGoForward
<1>1. IInv => AnswersGoForward
  <2> SUFFICES ASSUME IInv, NEW i \in Index
               PROVE  /\ View(i).commits \in seen[i] .. file.commits
                      /\ View(i).commits = file.commits => View(i).users = file.users
    BY DEF AnswersGoForward
  <2> QED
    BY ViewOK DEF View
<1> QED
  BY <1>1, Invariant, PTL

(* A token that was returned and is refused stays refused: a handle that   *)
(* was closed never becomes usable again, through any number of opens.     *)
THEOREM ClosedHandleStaysClosed ==
    Spec => [][\A k \in DOMAIN issued :
                  SlotForHandle(issued[k]) = NoSlot
                      => SlotForHandle(issued[k])' = NoSlot]_vars
<1>1. IInv /\ [Next]_vars =>
          [\A k \in DOMAIN issued :
              SlotForHandle(issued[k]) = NoSlot
                  => SlotForHandle(issued[k])' = NoSlot]_vars
  BY RefusedStays
<1> QED
  BY <1>1, Invariant, PTL DEF Spec
=============================================================================
