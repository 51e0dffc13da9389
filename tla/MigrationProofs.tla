--------------------------- MODULE MigrationProofs ---------------------------
(***************************************************************************)
(* Proofs about Migration, for any number of migrators with any targets    *)
(* and steps.  The inductive invariant says what a run in progress has     *)
(* done: its image is the committed history followed by the steps from the *)
(* version it read up to where it stands.  It needs the lock (no other run *)
(* changes the database meanwhile) and, for the version, that nothing was  *)
(* committed between the read and the BEGIN.                               *)
(***************************************************************************)
EXTENDS Migration, SequenceTheorems, TLAPS

(* t is s followed by the steps from, from + 1, ..., to - 1. *)
Continues(s, t, from, to) ==
    /\ from <= to
    /\ Len(t) = Len(s) + (to - from)
    /\ \A i \in 1..Len(s) : t[i] = s[i]
    /\ \A i \in 1..(to - from) : t[Len(s) + i] = from + i - 1

(* The steps from, from + 1, ..., to - 1. *)
StepsFrom(from, to) == [i \in 1..(to - from) |-> from + i - 1]

(* The steps 0, 1, ..., n - 1. *)
Contiguous(s, n) == Len(s) = n /\ \A i \in 1..Len(s) : s[i] = i - 1

InCall(m) == pc[m] \in {"step", "version"}
Holds(m) == InCall(m) /\ ~lost[m]
Clean == ~raced /\ swallowed = 0

(* The first version whose step m has not applied. *)
Done(m) == IF pc[m] = "version" THEN current[m] + 1 ELSE current[m]

LockInv ==
    \A m \in Migrators :
        /\ writer = m <=> Holds(m)
        /\ lost[m] => InCall(m) /\ swallowed > 0

CurrentInv ==
    \A m \in Migrators :
        /\ pc[m] \in {"begin", "version"} => current[m] < Target[m]
        /\ pc[m] = "step" => current[m] <= Target[m]

Run(m, from) ==
    /\ Continues(disk.applied, view[m].applied, from, Done(m))
    /\ pc[m] = "step" /\ from < current[m] => view[m].version = current[m]
    /\ Clean => from = disk.version

RunOf(m) == Holds(m) => \E from \in 0..(Target[m] - 1) : Run(m, from)

RunInv == \A m \in Migrators : RunOf(m)

CleanInv ==
    Clean => /\ Contiguous(disk.applied, disk.version)
             /\ \A m \in Migrators : pc[m] = "begin" => current[m] = disk.version

IInv == TypeOK /\ LockInv /\ CurrentInv /\ RunInv /\ CleanInv

-----------------------------------------------------------------------------
(* Histories. *)

LEMMA AppendImage ==
    ASSUME NEW image \in Image, NEW v \in Nat
    PROVE  LET after == [image EXCEPT !.applied = Append(@, v)]
           IN  /\ after \in Image /\ after.version = image.version
               /\ after.applied = Append(image.applied, v)
  <1>1. PICK s : s = Append(image.applied, v)
    OBVIOUS
  <1>2. image.applied \in Seq(Nat)
    BY DEF Image
  <1>3. s \in Seq(Nat)
    BY <1>1, <1>2
  <1>4. [image EXCEPT !.applied = Append(@, v)] = [image EXCEPT !.applied = s]
    BY <1>1
  <1> QED
    BY <1>1, <1>3, <1>4 DEF Image

(* A run that has applied no step continues the history by nothing. *)
LEMMA ContinuesSelf ==
    ASSUME NEW s \in Seq(Nat), NEW n \in Nat
    PROVE  Continues(s, s, n, n)
  BY DEF Continues

(* ApplyStep: the callback of the step to appends to. *)
LEMMA ContinuesAppend ==
    ASSUME NEW s \in Seq(Nat), NEW t \in Seq(Nat), NEW from \in Nat, NEW to \in Nat,
           Continues(s, t, from, to)
    PROVE  Continues(s, Append(t, to), from, to + 1)
  <1> DEFINE u == Append(t, to)
  <1>1. /\ from <= to /\ Len(t) = Len(s) + (to - from)
        /\ \A i \in 1..Len(s) : t[i] = s[i]
        /\ \A i \in 1..(to - from) : t[Len(s) + i] = from + i - 1
    BY DEF Continues
  <1>2. Len(s) \in Nat /\ Len(t) \in Nat
    OBVIOUS
  <1>3. /\ Len(u) = Len(t) + 1 /\ u[Len(t) + 1] = to
        /\ \A i \in 1..Len(t) : u[i] = t[i]
    OBVIOUS
  <1> HIDE DEF u
  <1>4. \A i \in 1..Len(s) : u[i] = s[i]
    BY <1>1, <1>2, <1>3
  <1>5. \A i \in 1..(to + 1 - from) : u[Len(s) + i] = from + i - 1
    <2> TAKE i \in 1..(to + 1 - from)
    <2>1. CASE i <= to - from
      <3>1. i \in 1..(to - from) /\ Len(s) + i \in 1..Len(t)
        BY <2>1, <1>1, <1>2
      <3> QED
        BY <3>1, <1>1, <1>3
    <2>2. CASE i = to + 1 - from
      <3>1. Len(s) + i = Len(t) + 1 /\ from + i - 1 = to
        BY <2>2, <1>1, <1>2
      <3> QED
        BY <3>1, <1>3
    <2> QED
      BY <2>1, <2>2, <1>1
  <1>6. from <= to + 1 /\ Len(u) = Len(s) + (to + 1 - from)
    BY <1>1, <1>2, <1>3
  <1>7. Continues(s, u, from, to + 1)
    BY <1>4, <1>5, <1>6 DEF Continues
  <1> QED
    BY <1>7 DEF u

(* Commit: what a run leaves is what was there and all its steps. *)
LEMMA ContinuesConcat ==
    ASSUME NEW s \in Seq(Nat), NEW t \in Seq(Nat), NEW from \in Nat, NEW to \in Nat,
           Continues(s, t, from, to)
    PROVE  t = s \o StepsFrom(from, to)
  <1> DEFINE r == StepsFrom(from, to)
  <1>1. /\ from <= to /\ Len(t) = Len(s) + (to - from)
        /\ \A i \in 1..Len(s) : t[i] = s[i]
        /\ \A i \in 1..(to - from) : t[Len(s) + i] = from + i - 1
    BY DEF Continues
  <1>2. Len(s) \in Nat /\ Len(t) \in Nat /\ to - from \in Nat
    BY <1>1
  <1>3. \A i \in 1..(to - from) : from + i - 1 \in Nat
    OBVIOUS
  <1>4. r \in [1..(to - from) -> Nat]
    BY <1>3 DEF StepsFrom
  <1>5. r \in Seq(Nat) /\ Len(r) = to - from
    BY <1>2, <1>4 DEF StepsFrom
  <1>6. \A i \in 1..(to - from) : r[i] = from + i - 1
    BY DEF StepsFrom
  <1> HIDE DEF r
  <1>7. /\ s \o r \in Seq(Nat) /\ Len(s \o r) = Len(s) + Len(r)
        /\ \A i \in 1..(Len(s) + Len(r)) :
              (s \o r)[i] = IF i <= Len(s) THEN s[i] ELSE r[i - Len(s)]
    BY <1>5, ConcatProperties
  <1>8. ASSUME NEW i \in 1..Len(t)
        PROVE  t[i] = (s \o r)[i]
    <2>1. CASE i <= Len(s)
      <3>1. i \in 1..Len(s) /\ i \in 1..(Len(s) + Len(r))
        BY <2>1, <1>1, <1>2, <1>5
      <3> QED
        BY <3>1, <2>1, <1>1, <1>7
    <2>2. CASE ~(i <= Len(s))
      <3>1. PICK k : k = i - Len(s)
        OBVIOUS
      <3>2. k \in 1..(to - from) /\ Len(s) + k = i /\ i \in 1..(Len(s) + Len(r))
        BY <3>1, <2>2, <1>1, <1>2, <1>5
      <3>3. t[i] = r[k]
        BY <3>2, <1>1, <1>6
      <3> QED
        BY <3>1, <3>2, <3>3, <2>2, <1>7
    <2> QED
      BY <2>1, <2>2
  <1>9. t = s \o r
    <2>1. Len(t) = Len(s \o r)
      BY <1>1, <1>5, <1>7
    <2> QED
      BY <1>7, <1>8, <2>1, SeqEqual
  <1> QED
    BY <1>9 DEF r

(* And so every step of the run is in the history. *)
LEMMA ContinuesHasAll ==
    ASSUME NEW s \in Seq(Nat), NEW t \in Seq(Nat), NEW from \in Nat, NEW to \in Nat,
           Continues(s, t, from, to), NEW v \in from..(to - 1)
    PROVE  \E i \in DOMAIN t : t[i] = v
  <1>1. PICK k : k = v - from + 1
    OBVIOUS
  <1>2. k \in 1..(to - from) /\ from + k - 1 = v /\ Len(s) + k \in 1..Len(t)
    BY <1>1 DEF Continues
  <1>3. t[Len(s) + k] = v
    BY <1>2 DEF Continues
  <1>4. DOMAIN t = 1..Len(t)
    OBVIOUS
  <1> QED
    BY <1>2, <1>3, <1>4

(* A contiguous history, continued from its end, is contiguous. *)
LEMMA ContinuesContiguous ==
    ASSUME NEW s \in Seq(Nat), NEW t \in Seq(Nat), NEW n \in Nat, NEW to \in Nat,
           Contiguous(s, n), Continues(s, t, n, to)
    PROVE  Contiguous(t, to)
  <1>1. /\ n <= to /\ Len(t) = Len(s) + (to - n)
        /\ \A i \in 1..Len(s) : t[i] = s[i]
        /\ \A i \in 1..(to - n) : t[Len(s) + i] = n + i - 1
    BY DEF Continues
  <1>2. Len(s) = n /\ \A i \in 1..n : s[i] = i - 1
    BY DEF Contiguous
  <1>3. Len(t) = to
    BY <1>1, <1>2
  <1>4. ASSUME NEW i \in 1..to
        PROVE  t[i] = i - 1
    <2>1. CASE i <= n
      BY <2>1, <1>1, <1>2
    <2>2. CASE n < i
      <3>1. PICK k : k = i - n
        OBVIOUS
      <3>2. k \in 1..(to - n) /\ n + k = i /\ n + k - 1 = i - 1
        BY <3>1, <2>2, <1>1
      <3> QED
        BY <3>2, <1>1, <1>2
    <2> QED
      BY <2>1, <2>2
  <1> QED
    BY <1>3, <1>4 DEF Contiguous

-----------------------------------------------------------------------------
(* What a step of one migrator leaves of the others. *)

(* A step that leaves n alone, and the database, leaves n's run. *)
LEMMA RunOfOther ==
    ASSUME NEW n \in Migrators, RunOf(n), disk' = disk, view'[n] = view[n],
           pc'[n] = pc[n], current'[n] = current[n], lost'[n] = lost[n],
           Clean' => Clean
    PROVE  RunOf(n)'
  <1>1. Holds(n)' <=> Holds(n)
    BY DEF Holds, InCall
  <1>2. ASSUME NEW from, Run(n, from)
        PROVE  Run(n, from)'
    <2>1. Done(n)' = Done(n)
      BY DEF Done
    <2>2. Continues(disk.applied, view[n].applied, from, Done(n))'
      BY <1>2, <2>1 DEF Run, Continues
    <2>3. (pc[n] = "step" /\ from < current[n] => view[n].version = current[n])'
      BY <1>2 DEF Run
    <2>4. (Clean => from = disk.version)'
      BY <1>2 DEF Run
    <2> QED
      BY <2>2, <2>3, <2>4 DEF Run
  <1> QED
    BY <1>1, <1>2 DEF RunOf

(* Only the migrator with the lock runs in a transaction. *)
LEMMA OneRun ==
    ASSUME LockInv, NEW m, NEW n \in Migrators, n # m,
           writer = m \/ (writer = NoMigrator)
    PROVE  ~Holds(n)
  BY NoMigratorAssumption DEF LockInv

LEMMA InitHolds == Init => IInv
  <1> SUFFICES ASSUME Init
               PROVE  IInv
    OBVIOUS
  <1>1. Empty \in Image /\ Empty.version = 0 /\ Empty.applied = <<>>
    BY DEF Empty, Image
  <1>2. TypeOK
    <2>1. lost \in [Migrators -> BOOLEAN] /\ ok \in BOOLEAN /\ raced \in BOOLEAN
      BY Zenon DEF Init
    <2>2. swallowed \in 0..MaxSwallowed
      BY BoundAssumption DEF Init
    <2> QED
      BY <1>1, <2>1, <2>2 DEF Init, TypeOK
  <1>3. \A m \in Migrators : pc[m] = "idle" /\ ~lost[m]
    BY DEF Init
  <1>4. \A m \in Migrators : ~Holds(m)
    BY <1>3 DEF Holds, InCall
  <1>5. LockInv
    BY <1>3, <1>4, NoMigratorAssumption DEF Init, LockInv
  <1>6. CurrentInv
    BY <1>3 DEF CurrentInv
  <1>7. RunInv
    BY <1>4 DEF RunInv, RunOf
  <1>8. CleanInv
    BY <1>1, <1>3 DEF CleanInv, Contiguous, Init
  <1> QED
    BY <1>2, <1>5, <1>6, <1>7, <1>8 DEF IInv

LEMMA ReadVersionKeeps ==
    ASSUME IInv, NEW m \in Migrators, ReadVersion(m)
    PROVE  IInv'
  <1> USE DEF IInv
  <1>1. /\ pc[m] = "idle" /\ disk.version < Target[m]
        /\ current' = [current EXCEPT ![m] = disk.version]
        /\ pc' = [pc EXCEPT ![m] = "begin"]
        /\ disk' = disk /\ writer' = writer /\ view' = view /\ lost' = lost
        /\ swallowed' = swallowed
    BY DEF ReadVersion, Goto
  <1>2. ok' \in BOOLEAN /\ (raced' <=> raced) /\ raced' \in BOOLEAN
    BY Zenon DEF ReadVersion, Goto, TypeOK
  <1>3. disk.version \in Nat
    BY DEF TypeOK, Image
  <1>4. TypeOK'
    <2>1. lost' \in [Migrators -> BOOLEAN]
      BY <1>1, Zenon DEF TypeOK
    <2> QED
      BY <1>1, <1>2, <1>3, <2>1 DEF TypeOK
  <1>5. pc'[m] = "begin" /\ current'[m] = disk.version
    BY <1>1 DEF TypeOK
  <1>6. \A n \in Migrators : n # m => pc'[n] = pc[n] /\ current'[n] = current[n]
    BY <1>1 DEF TypeOK
  <1>7. \A n \in Migrators : (Holds(n)' <=> Holds(n)) /\ (InCall(n)' <=> InCall(n))
    BY <1>1, <1>5, <1>6 DEF Holds, InCall
  <1>8. LockInv'
    BY <1>1, <1>7 DEF LockInv
  <1>9. CurrentInv'
    BY <1>1, <1>5, <1>6 DEF CurrentInv
  <1>10. Clean' <=> Clean
    BY <1>1, <1>2 DEF Clean
  <1>11. RunInv'
    <2> SUFFICES ASSUME NEW n \in Migrators
                 PROVE  RunOf(n)'
      BY DEF RunInv
    <2>1. CASE n = m
      BY <2>1, <1>5 DEF RunOf, Holds, InCall
    <2>2. CASE n # m
      BY <2>2, <1>1, <1>6, <1>10, RunOfOther DEF RunInv
    <2> QED
      BY <2>1, <2>2
  <1>12. CleanInv'
    BY <1>1, <1>5, <1>6, <1>10 DEF CleanInv, Contiguous
  <1> QED
    BY <1>4, <1>8, <1>9, <1>11, <1>12

LEMMA BeginKeeps ==
    ASSUME IInv, NEW m \in Migrators, Begin(m)
    PROVE  IInv'
  <1> USE DEF IInv
  <1>1. /\ pc[m] = "begin" /\ writer = NoMigrator /\ writer' = m
        /\ view' = [view EXCEPT ![m] = disk]
        /\ pc' = [pc EXCEPT ![m] = "step"]
        /\ disk' = disk /\ current' = current /\ lost' = lost
        /\ swallowed' = swallowed
    BY DEF Begin, Goto
  <1>2. ok' \in BOOLEAN /\ (raced' <=> raced) /\ raced' \in BOOLEAN
    BY Zenon DEF Begin, Goto, TypeOK
  <1>3. disk \in Image /\ disk.applied \in Seq(Nat) /\ current[m] \in Nat
        /\ Target[m] \in Nat
    BY TargetAssumption DEF TypeOK, Image
  <1>4. TypeOK'
    <2>1. lost' \in [Migrators -> BOOLEAN]
      BY <1>1, Zenon DEF TypeOK
    <2> QED
      BY <1>1, <1>2, <1>3, <2>1 DEF TypeOK
  <1>5. pc'[m] = "step" /\ view'[m] = disk
    BY <1>1 DEF TypeOK
  <1>6. \A n \in Migrators : n # m => pc'[n] = pc[n] /\ view'[n] = view[n]
    BY <1>1 DEF TypeOK
  <1>7. ~lost[m]
    BY <1>1 DEF LockInv, InCall
  <1>8. LockInv'
    <2>1. \A n \in Migrators : n # m => ~Holds(n)
      BY <1>1, OneRun
    <2> SUFFICES ASSUME NEW n \in Migrators
                 PROVE  /\ writer' = n <=> Holds(n)'
                        /\ lost'[n] => InCall(n)' /\ swallowed' > 0
      BY DEF LockInv
    <2>2. CASE n = m
      BY <2>2, <1>1, <1>5, <1>7 DEF Holds, InCall
    <2>3. CASE n # m
      <3>1. (Holds(n)' <=> Holds(n)) /\ (InCall(n)' <=> InCall(n))
        BY <2>3, <1>1, <1>6 DEF Holds, InCall
      <3> QED
        BY <2>1, <2>3, <3>1, <1>1 DEF LockInv
    <2> QED
      BY <2>2, <2>3
  <1>9. CurrentInv'
    BY <1>1, <1>3, <1>5, <1>6 DEF CurrentInv
  <1>10. Clean' <=> Clean
    BY <1>1, <1>2 DEF Clean
  <1>11. RunInv'
    <2> SUFFICES ASSUME NEW n \in Migrators
                 PROVE  RunOf(n)'
      BY DEF RunInv
    <2>1. CASE n = m
      <3>1. current[m] \in 0..(Target[m] - 1)
        BY <1>1, <1>3 DEF CurrentInv
      <3>2. Done(m)' = current[m]
        BY <1>1, <1>5 DEF Done
      <3>3. Continues(disk.applied, disk.applied, current[m], current[m])
        BY <1>3, ContinuesSelf
      <3>4. Continues(disk.applied, view[m].applied, current[m], Done(m))'
        BY <3>2, <3>3, <1>1, <1>5 DEF Continues
      <3>5. ~(current[m] < current'[m])
        BY <1>1, <1>3
      <3>6. Clean' => current[m] = disk'.version
        BY <1>1, <1>10 DEF CleanInv
      <3>7. PICK c : c = current[m]
        OBVIOUS
      <3>8. Run(m, c)'
        BY <3>4, <3>5, <3>6, <3>7, <1>1 DEF Run
      <3> QED
        BY <3>1, <3>7, <3>8, <2>1 DEF RunOf
    <2>2. CASE n # m
      BY <2>2, <1>1, <1>6, <1>10, RunOfOther DEF RunInv
    <2> QED
      BY <2>1, <2>2
  <1>12. CleanInv'
    BY <1>1, <1>5, <1>6, <1>10 DEF CleanInv, Contiguous
  <1> QED
    BY <1>4, <1>8, <1>9, <1>11, <1>12

(* A statement of a run that has lost its transaction: no run has one, and *)
(* nothing is promised of the history any more.                            *)
LEMMA LostWriteKeeps ==
    ASSUME IInv, NEW m \in Migrators, lost[m], writer = NoMigrator,
           disk' \in Image, view' = view, writer' = writer, lost' = lost,
           swallowed' = swallowed, ok' \in BOOLEAN, raced' \in BOOLEAN,
           NEW step \in {"step", "version"}, pc' = [pc EXCEPT ![m] = step],
           NEW c \in Nat, current' = [current EXCEPT ![m] = c],
           step = "version" => c < Target[m], step = "step" => c <= Target[m]
    PROVE  IInv'
  <1> USE DEF IInv
  <1>1. TypeOK'
    <2>1. lost' \in [Migrators -> BOOLEAN]
      BY Zenon DEF TypeOK
    <2> QED
      BY <2>1 DEF TypeOK
  <1>2. pc'[m] = step /\ current'[m] = c
    BY DEF TypeOK
  <1>3. \A n \in Migrators : n # m => pc'[n] = pc[n] /\ current'[n] = current[n]
    BY DEF TypeOK
  <1>4. InCall(m) /\ swallowed > 0
    BY DEF LockInv
  <1>5. \A n \in Migrators : (Holds(n)' <=> Holds(n)) /\ (InCall(n)' <=> InCall(n))
    BY <1>2, <1>3, <1>4 DEF Holds, InCall
  <1>6. LockInv'
    BY <1>5 DEF LockInv
  <1>7. CurrentInv'
    BY <1>2, <1>3 DEF CurrentInv
  <1>8. \A n \in Migrators : ~Holds(n)'
    BY <1>5, NoMigratorAssumption DEF LockInv
  <1>9. RunInv'
    BY <1>8 DEF RunInv, RunOf
  <1>10. ~Clean'
    BY <1>4 DEF Clean, TypeOK
  <1>11. CleanInv'
    BY <1>10 DEF CleanInv
  <1> QED
    BY <1>1, <1>6, <1>7, <1>9, <1>11

LEMMA ApplyStepKeeps ==
    ASSUME IInv, NEW m \in Migrators, ApplyStep(m)
    PROVE  IInv'
  <1> USE DEF IInv
  <1>1. /\ pc[m] = "step" /\ current[m] < Target[m]
        /\ pc' = [pc EXCEPT ![m] = "version"]
        /\ writer' = writer /\ current' = current /\ lost' = lost
        /\ swallowed' = swallowed
        /\ Write(m, [Now(m) EXCEPT !.applied = Append(@, current[m])])
    BY DEF ApplyStep, HasStep, Goto
  <1>2. ok' \in BOOLEAN /\ (raced' <=> raced) /\ raced' \in BOOLEAN
    BY Zenon DEF ApplyStep, Goto, TypeOK
  <1>3. /\ disk \in Image /\ view[m] \in Image /\ current[m] \in Nat /\ Target[m] \in Nat
        /\ disk.applied \in Seq(Nat) /\ view[m].applied \in Seq(Nat)
    BY TargetAssumption DEF TypeOK, Image
  <1>4. CASE lost[m]
    <2>1. /\ writer = NoMigrator /\ view' = view
          /\ disk' = [disk EXCEPT !.applied = Append(@, current[m])]
      BY <1>1, <1>4 DEF Write, Now
    <2>2. disk' \in Image
      BY <2>1, <1>3, AppendImage
    <2>3. current' = [current EXCEPT ![m] = current[m]]
      BY <1>1 DEF TypeOK
    <2> QED
      BY <1>1, <1>2, <1>3, <1>4, <2>1, <2>2, <2>3, LostWriteKeeps
  <1>5. CASE ~lost[m]
    <2>1. PICK image : image = [view[m] EXCEPT !.applied = Append(@, current[m])]
      OBVIOUS
    <2>2. disk' = disk /\ view' = [view EXCEPT ![m] = image]
      BY <1>1, <1>5, <2>1 DEF Write, Now
    <2>3. /\ image \in Image /\ image.version = view[m].version
          /\ image.applied = Append(view[m].applied, current[m])
      BY <2>1, <1>3, AppendImage
    <2>4. TypeOK'
      <3>1. lost' \in [Migrators -> BOOLEAN]
        BY <1>1, Zenon DEF TypeOK
      <3> QED
        BY <1>1, <1>2, <2>2, <2>3, <3>1 DEF TypeOK
    <2>5. pc'[m] = "version" /\ view'[m] = image
      BY <1>1, <2>2 DEF TypeOK
    <2>6. \A n \in Migrators : n # m => pc'[n] = pc[n] /\ view'[n] = view[n]
      BY <1>1, <2>2 DEF TypeOK
    <2>7. \A n \in Migrators : (Holds(n)' <=> Holds(n)) /\ (InCall(n)' <=> InCall(n))
      BY <1>1, <2>5, <2>6 DEF Holds, InCall
    <2>8. LockInv'
      BY <1>1, <2>7 DEF LockInv
    <2>9. CurrentInv'
      BY <1>1, <2>5, <2>6 DEF CurrentInv
    <2>10. Clean' <=> Clean
      BY <1>1, <1>2 DEF Clean
    <2>11. RunInv'
      <3> SUFFICES ASSUME NEW n \in Migrators
                   PROVE  RunOf(n)'
        BY DEF RunInv
      <3>1. CASE n = m
        <4>1. Holds(m)
          BY <1>1, <1>5 DEF Holds, InCall
        <4>2. PICK from \in 0..(Target[m] - 1) : Run(m, from)
          BY <4>1 DEF RunInv, RunOf
        <4>3. Continues(disk.applied, view[m].applied, from, current[m])
          BY <4>2, <1>1 DEF Run, Done
        <4>4. Continues(disk.applied, image.applied, from, current[m] + 1)
          BY <4>3, <1>3, <2>3, ContinuesAppend
        <4>5. Done(m)' = current[m] + 1
          BY <1>1, <2>5 DEF Done
        <4>6. Continues(disk.applied, view[m].applied, from, Done(m))'
          BY <4>4, <4>5, <2>2, <2>5 DEF Continues
        <4>7. (Clean => from = disk.version)'
          BY <4>2, <2>2, <2>10 DEF Run
        <4>8. Run(m, from)'
          BY <4>6, <4>7, <2>5 DEF Run
        <4> QED
          BY <4>8, <3>1 DEF RunOf
      <3>2. CASE n # m
        BY <3>2, <1>1, <2>2, <2>6, <2>10, RunOfOther DEF RunInv
      <3> QED
        BY <3>1, <3>2
    <2>12. CleanInv'
      BY <1>1, <2>2, <2>5, <2>6, <2>10 DEF CleanInv, Contiguous
    <2> QED
      BY <2>4, <2>8, <2>9, <2>11, <2>12
  <1> QED
    BY <1>4, <1>5

LEMMA SwallowKeeps ==
    ASSUME IInv, NEW m \in Migrators, CallbackSwallowsRollback(m)
    PROVE  IInv'
  <1> USE DEF IInv
  <1>1. /\ pc[m] = "step" /\ current[m] < Target[m] /\ ~lost[m]
        /\ swallowed < MaxSwallowed /\ swallowed' = swallowed + 1
        /\ pc' = [pc EXCEPT ![m] = "version"]
        /\ view' = [view EXCEPT ![m] = Empty]
        /\ writer' = NoMigrator /\ current' = current /\ disk' = disk
        /\ lost' = [lost EXCEPT ![m] = TRUE]
    BY DEF CallbackSwallowsRollback, HasStep, Goto
  <1>2. ok' \in BOOLEAN /\ raced' \in BOOLEAN
    BY Zenon DEF CallbackSwallowsRollback, Goto, TypeOK
  <1>3. swallowed \in Nat /\ swallowed' \in 0..MaxSwallowed /\ swallowed' > 0
    BY <1>1, BoundAssumption DEF TypeOK
  <1>4. Empty \in Image
    BY DEF Empty, Image
  <1>5. TypeOK'
    <2>1. lost' \in [Migrators -> BOOLEAN]
      BY <1>1, Zenon DEF TypeOK
    <2> QED
      BY <1>1, <1>2, <1>3, <1>4, <2>1 DEF TypeOK
  <1>6. pc'[m] = "version" /\ lost'[m]
    BY <1>1 DEF TypeOK
  <1>7. \A n \in Migrators : n # m => pc'[n] = pc[n] /\ lost'[n] = lost[n]
    BY <1>1 DEF TypeOK
  <1>8. writer = m
    BY <1>1 DEF LockInv, Holds, InCall
  <1>9. ASSUME NEW n \in Migrators
        PROVE  ~Holds(n)' /\ (lost'[n] => InCall(n)')
    <2>1. CASE n = m
      BY <2>1, <1>6 DEF Holds, InCall
    <2>2. CASE n # m
      <3>1. ~Holds(n)
        BY <1>8, <2>2, OneRun
      <3> QED
        BY <3>1, <2>2, <1>7 DEF Holds, InCall, LockInv
    <2> QED
      BY <2>1, <2>2
  <1>10. LockInv'
    BY <1>1, <1>3, <1>9, NoMigratorAssumption DEF LockInv
  <1>11. CurrentInv'
    BY <1>1, <1>6, <1>7 DEF CurrentInv
  <1>12. RunInv'
    BY <1>9 DEF RunInv, RunOf
  <1>13. CleanInv'
    BY <1>3 DEF CleanInv, Clean
  <1> QED
    BY <1>5, <1>10, <1>11, <1>12, <1>13

LEMMA SetVersionKeeps ==
    ASSUME IInv, NEW m \in Migrators, SetVersion(m)
    PROVE  IInv'
  <1> USE DEF IInv
  <1>1. /\ pc[m] = "version" /\ pc' = [pc EXCEPT ![m] = "step"]
        /\ writer' = writer /\ current' = [current EXCEPT ![m] = @ + 1]
        /\ lost' = lost /\ swallowed' = swallowed
        /\ Write(m, [Now(m) EXCEPT !.version = VersionWritten(m)])
    BY DEF SetVersion, Goto
  <1>2. ok' \in BOOLEAN /\ (raced' <=> raced) /\ raced' \in BOOLEAN
    BY Zenon DEF SetVersion, Goto, TypeOK
  <1>3. /\ disk \in Image /\ view[m] \in Image /\ current[m] \in Nat /\ Target[m] \in Nat
        /\ disk.applied \in Seq(Nat) /\ view[m].applied \in Seq(Nat)
    BY TargetAssumption DEF TypeOK, Image
  <1>4. PICK v : v = current[m] + 1
    OBVIOUS
  <1>5. v \in Nat /\ v <= Target[m]
    BY <1>1, <1>3, <1>4 DEF CurrentInv
  <1>6. CASE lost[m]
    <2>1. /\ writer = NoMigrator /\ view' = view
          /\ disk' = [disk EXCEPT !.version = v]
      BY <1>1, <1>4, <1>6 DEF Write, Now, VersionWritten
    <2>2. disk' \in Image
      BY <2>1, <1>3, <1>5 DEF Image
    <2>3. current' = [current EXCEPT ![m] = v]
      BY <1>1, <1>4 DEF TypeOK
    <2> QED
      BY <1>1, <1>2, <1>5, <1>6, <2>1, <2>2, <2>3, LostWriteKeeps
  <1>7. CASE ~lost[m]
    <2>1. PICK image : image = [view[m] EXCEPT !.version = v]
      OBVIOUS
    <2>2. disk' = disk /\ view' = [view EXCEPT ![m] = image]
      BY <1>1, <1>4, <1>7, <2>1 DEF Write, Now, VersionWritten
    <2>3. /\ image \in Image /\ image.version = v
          /\ image.applied = view[m].applied
      BY <2>1, <1>3, <1>5 DEF Image
    <2>4. TypeOK'
      <3>1. lost' \in [Migrators -> BOOLEAN]
        BY <1>1, Zenon DEF TypeOK
      <3> QED
        BY <1>1, <1>2, <2>2, <2>3, <3>1 DEF TypeOK
    <2>5. pc'[m] = "step" /\ view'[m] = image /\ current'[m] = v
      BY <1>1, <1>4, <2>2 DEF TypeOK
    <2>6. \A n \in Migrators : n # m => pc'[n] = pc[n] /\ view'[n] = view[n]
                                         /\ current'[n] = current[n]
      BY <1>1, <2>2 DEF TypeOK
    <2>7. \A n \in Migrators : (Holds(n)' <=> Holds(n)) /\ (InCall(n)' <=> InCall(n))
      BY <1>1, <2>5, <2>6 DEF Holds, InCall
    <2>8. LockInv'
      BY <1>1, <2>7 DEF LockInv
    <2>9. CurrentInv'
      BY <1>1, <1>5, <2>5, <2>6 DEF CurrentInv
    <2>10. Clean' <=> Clean
      BY <1>1, <1>2 DEF Clean
    <2>11. RunInv'
      <3> SUFFICES ASSUME NEW n \in Migrators
                   PROVE  RunOf(n)'
        BY DEF RunInv
      <3>1. CASE n = m
        <4>1. Holds(m)
          BY <1>1, <1>7 DEF Holds, InCall
        <4>2. PICK from \in 0..(Target[m] - 1) : Run(m, from)
          BY <4>1 DEF RunInv, RunOf
        <4>3. Continues(disk.applied, view[m].applied, from, v)
          BY <4>2, <1>1, <1>4 DEF Run, Done
        <4>4. Done(m)' = v
          BY <2>5 DEF Done
        <4>5. Continues(disk.applied, view[m].applied, from, Done(m))'
          BY <4>3, <4>4, <2>2, <2>3, <2>5 DEF Continues
        <4>6. (Clean => from = disk.version)'
          BY <4>2, <2>2, <2>10 DEF Run
        <4>7. Run(m, from)'
          BY <4>5, <4>6, <2>3, <2>5 DEF Run
        <4> QED
          BY <4>7, <3>1 DEF RunOf
      <3>2. CASE n # m
        BY <3>2, <1>1, <2>2, <2>6, <2>10, RunOfOther DEF RunInv
      <3> QED
        BY <3>1, <3>2
    <2>12. CleanInv'
      BY <1>1, <2>2, <2>5, <2>6, <2>10 DEF CleanInv, Contiguous
    <2> QED
      BY <2>4, <2>8, <2>9, <2>11, <2>12
  <1> QED
    BY <1>6, <1>7

(* When a call ends nobody else is disturbed, and the lock is free if it   *)
(* was the caller's.                                                       *)
LEMMA LeaveFacts ==
    ASSUME TypeOK, LockInv, CurrentInv, NEW m \in Migrators, NEW answer \in BOOLEAN,
           Leave(m, answer), disk' \in Image, raced' \in BOOLEAN, swallowed' = swallowed
    PROVE  /\ TypeOK' /\ LockInv' /\ CurrentInv'
           /\ pc'[m] = "idle"
           /\ \A n \in Migrators : n # m =>
                 /\ pc'[n] = pc[n] /\ lost'[n] = lost[n]
                 /\ current'[n] = current[n] /\ view'[n] = view[n]
  <1>1. /\ pc' = [pc EXCEPT ![m] = "idle"]
        /\ lost' = [lost EXCEPT ![m] = FALSE]
        /\ current' = [current EXCEPT ![m] = 0]
        /\ view' = [view EXCEPT ![m] = Empty]
        /\ writer' = IF writer = m THEN NoMigrator ELSE writer
    BY DEF Leave
  <1>2. Empty \in Image
    BY DEF Empty, Image
  <1>3. TypeOK'
    <2>1. lost' \in [Migrators -> BOOLEAN]
      BY <1>1, Zenon DEF TypeOK
    <2>2. ok' \in BOOLEAN
      BY Zenon DEF Leave
    <2> QED
      BY <1>1, <1>2, <2>1, <2>2 DEF TypeOK
  <1>4. pc'[m] = "idle" /\ ~lost'[m]
    BY <1>1 DEF TypeOK
  <1>5. \A n \in Migrators : n # m => /\ pc'[n] = pc[n] /\ lost'[n] = lost[n]
                                      /\ current'[n] = current[n] /\ view'[n] = view[n]
    BY <1>1 DEF TypeOK
  <1>6. LockInv'
    <2> SUFFICES ASSUME NEW n \in Migrators
                 PROVE  /\ writer' = n <=> Holds(n)'
                        /\ lost'[n] => InCall(n)' /\ swallowed' > 0
      BY DEF LockInv
    <2>1. CASE n = m
      BY <2>1, <1>1, <1>4, NoMigratorAssumption DEF Holds, InCall
    <2>2. CASE n # m
      <3>1. (Holds(n)' <=> Holds(n)) /\ (InCall(n)' <=> InCall(n))
        BY <2>2, <1>5 DEF Holds, InCall
      <3>2. writer' = n <=> writer = n
        BY <2>2, <1>1, NoMigratorAssumption
      <3> QED
        BY <2>2, <3>1, <3>2, <1>5 DEF LockInv
    <2> QED
      BY <2>1, <2>2
  <1>7. CurrentInv'
    BY <1>4, <1>5 DEF CurrentInv
  <1> QED
    BY <1>3, <1>4, <1>5, <1>6, <1>7

(* What COMMIT publishes is a whole run. *)
LEMMA CommitFacts ==
    ASSUME IInv, NEW m \in Migrators, Commit(m)
    PROVE  /\ disk' = view[m] /\ view[m] \in Image /\ view[m].version = Target[m]
           /\ ~lost[m] /\ current[m] = Target[m]
           /\ \E from \in 0..(Target[m] - 1) :
                 /\ Continues(disk.applied, view[m].applied, from, Target[m])
                 /\ Clean => from = disk.version
  <1> USE DEF IInv
  <1>1. pc[m] = "step" /\ ~lost[m] /\ current[m] >= Target[m] /\ disk' = view[m]
    BY DEF Commit
  <1>2. view[m] \in Image /\ current[m] \in Nat /\ Target[m] \in Nat
    BY TargetAssumption DEF TypeOK
  <1>3. current[m] = Target[m]
    BY <1>1, <1>2 DEF CurrentInv
  <1>4. Holds(m)
    BY <1>1 DEF Holds, InCall
  <1>5. PICK from \in 0..(Target[m] - 1) : Run(m, from)
    BY <1>4 DEF RunInv, RunOf
  <1>6. Continues(disk.applied, view[m].applied, from, Target[m])
    BY <1>1, <1>3, <1>5 DEF Run, Done
  <1>7. view[m].version = Target[m]
    BY <1>1, <1>2, <1>3, <1>5 DEF Run
  <1>8. Clean => from = disk.version
    BY <1>5 DEF Run
  <1> QED
    BY <1>1, <1>2, <1>3, <1>5, <1>6, <1>7, <1>8

LEMMA CommitKeeps ==
    ASSUME IInv, NEW m \in Migrators, Commit(m)
    PROVE  IInv'
  <1> USE DEF IInv
  <1>1. /\ Leave(m, TRUE) /\ swallowed' = swallowed /\ raced' \in BOOLEAN
        /\ (raced \/ (\E o \in Migrators : pc[o] = "begin")) => raced'
    BY Zenon DEF Commit
  <1>2. /\ disk' = view[m] /\ view[m] \in Image /\ view[m].version = Target[m]
        /\ ~lost[m]
    BY CommitFacts
  <1>3. PICK from \in 0..(Target[m] - 1) :
                 /\ Continues(disk.applied, view[m].applied, from, Target[m])
                 /\ Clean => from = disk.version
    BY CommitFacts
  <1>4. /\ TypeOK' /\ LockInv' /\ CurrentInv' /\ pc'[m] = "idle"
        /\ \A n \in Migrators : n # m =>
                 /\ pc'[n] = pc[n] /\ lost'[n] = lost[n]
                 /\ current'[n] = current[n] /\ view'[n] = view[n]
    BY <1>1, <1>2, LeaveFacts
  <1>5. writer = m
    <2>1. Holds(m)
      BY <1>2 DEF Commit, Holds, InCall
    <2> QED
      BY <2>1 DEF LockInv
  <1>6. ASSUME NEW n \in Migrators
        PROVE  ~Holds(n)'
    <2>1. CASE n = m
      BY <2>1, <1>4 DEF Holds, InCall
    <2>2. CASE n # m
      <3>1. ~Holds(n)
        BY <1>5, <2>2, OneRun
      <3> QED
        BY <3>1, <2>2, <1>4 DEF Holds, InCall
    <2> QED
      BY <2>1, <2>2
  <1>7. RunInv'
    BY <1>6 DEF RunInv, RunOf
  <1>8. CleanInv'
    <2> SUFFICES ASSUME Clean'
                 PROVE  /\ Contiguous(disk.applied, disk.version)'
                        /\ \A n \in Migrators : pc'[n] # "begin"
      BY DEF CleanInv
    <2>1. Clean /\ \A o \in Migrators : pc[o] # "begin"
      BY <1>1 DEF Clean
    <2>2. from = disk.version /\ Contiguous(disk.applied, disk.version)
      BY <2>1, <1>3 DEF CleanInv
    <2>3. /\ disk.applied \in Seq(Nat) /\ view[m].applied \in Seq(Nat)
          /\ from \in Nat /\ Target[m] \in Nat
      BY TargetAssumption DEF TypeOK, Image
    <2>4. Contiguous(view[m].applied, Target[m])
      BY <1>3, <2>2, <2>3, ContinuesContiguous
    <2>5. Contiguous(disk.applied, disk.version)'
      BY <2>4, <1>2 DEF Contiguous
    <2> QED
      BY <2>1, <2>5, <1>4
  <1> QED
    BY <1>4, <1>7, <1>8

LEMMA FailOrCrashKeeps ==
    ASSUME IInv, NEW m \in Migrators, FailOrCrash(m)
    PROVE  IInv'
  <1> USE DEF IInv
  <1>1. /\ Leave(m, FALSE) /\ swallowed' = swallowed /\ disk' = disk
        /\ raced' \in BOOLEAN /\ (raced' <=> raced)
    BY Zenon DEF FailOrCrash, TypeOK
  <1>2. /\ TypeOK' /\ LockInv' /\ CurrentInv' /\ pc'[m] = "idle"
        /\ \A n \in Migrators : n # m =>
                 /\ pc'[n] = pc[n] /\ lost'[n] = lost[n]
                 /\ current'[n] = current[n] /\ view'[n] = view[n]
    <2>1. disk' \in Image
      BY <1>1 DEF TypeOK
    <2> QED
      BY <1>1, <2>1, LeaveFacts
  <1>3. Clean' <=> Clean
    BY <1>1 DEF Clean
  <1>4. RunInv'
    <2> SUFFICES ASSUME NEW n \in Migrators
                 PROVE  RunOf(n)'
      BY DEF RunInv
    <2>1. CASE n = m
      BY <2>1, <1>2 DEF RunOf, Holds, InCall
    <2>2. CASE n # m
      BY <2>2, <1>1, <1>2, <1>3, RunOfOther DEF RunInv
    <2> QED
      BY <2>1, <2>2
  <1>5. CleanInv'
    BY <1>1, <1>2, <1>3 DEF CleanInv, Contiguous
  <1> QED
    BY <1>2, <1>4, <1>5

-----------------------------------------------------------------------------
(* Theorems. *)

LEMMA NextKeeps == IInv /\ [Next]_vars => IInv'
  <1> SUFFICES ASSUME IInv, [Next]_vars
               PROVE  IInv'
    OBVIOUS
  <1>1. CASE Next
    BY <1>1, ReadVersionKeeps, BeginKeeps, ApplyStepKeeps, SwallowKeeps,
       SetVersionKeeps, CommitKeeps, FailOrCrashKeeps DEF Next
  <1>2. CASE UNCHANGED vars
    <2>1. /\ disk' = disk /\ writer' = writer /\ view' = view /\ pc' = pc
          /\ current' = current /\ lost' = lost /\ ok' = ok /\ raced' = raced
          /\ swallowed' = swallowed
      BY <1>2 DEF vars
    <2>2. TypeOK' /\ LockInv' /\ CurrentInv'
      BY <2>1 DEF IInv, TypeOK, LockInv, CurrentInv, Holds, InCall
    <2>3. Clean' <=> Clean
      BY <2>1 DEF Clean
    <2>4. RunInv'
      BY <2>1, <2>3, RunOfOther DEF IInv, RunInv
    <2>5. CleanInv'
      BY <2>1, <2>3 DEF IInv, CleanInv, Contiguous
    <2> QED
      BY <2>2, <2>4, <2>5 DEF IInv
  <1> QED
    BY <1>1, <1>2

LEMMA Invariance == Spec => []IInv
  <1> QED
    BY InitHolds, NextKeeps, PTL DEF Spec

(* Every variable of esdb_migrate and of the database keeps its type, the  *)
(* committed history is a sequence of from_versions, for any builds.       *)
THEOREM MigrationTypes == Spec => []TypeOK
  <1>1. IInv => TypeOK
    BY DEF IInv
  <1> QED
    BY <1>1, Invariance, PTL

(* However many migrators with whatever targets and steps fail, crash or   *)
(* overlap: unless one commits between another's read of user_version and  *)
(* its BEGIN, or a callback hides a rollback, the history is 0, 1, ... up  *)
(* to user_version.                                                        *)
THEOREM HistoryFollowsVersion == Spec => []StepsFollowVersionUnlessRaced
  <1>1. IInv => StepsFollowVersionUnlessRaced
    <2> SUFFICES ASSUME IInv, ~raced, ~(swallowed > 0)
                 PROVE  StepsFollowVersion
      BY DEF StepsFollowVersionUnlessRaced
    <2>1. swallowed = 0
      BY DEF IInv, TypeOK
    <2>2. Contiguous(disk.applied, disk.version)
      BY <2>1 DEF IInv, CleanInv, Clean
    <2> QED
      BY <2>2 DEF Contiguous, StepsFollowVersion
  <1> QED
    BY <1>1, Invariance, PTL

(* A step that changes the database is a COMMIT, or the statement of a run *)
(* that lost its transaction.                                              *)
LEMMA DiskStep ==
    ASSUME IInv, [Next]_vars, disk' # disk
    PROVE  \E m \in Migrators : lost[m] \/ Commit(m)
  <1>1. Next
    BY DEF vars
  <1>2. PICK m \in Migrators :
          \/ ReadVersion(m) \/ Begin(m) \/ ApplyStep(m)
          \/ CallbackSwallowsRollback(m) \/ SetVersion(m) \/ Commit(m) \/ FailOrCrash(m)
    BY <1>1 DEF Next
  <1>3. ~lost[m] => Commit(m)
    BY <1>2 DEF ReadVersion, Begin, ApplyStep, CallbackSwallowsRollback, SetVersion,
                FailOrCrash, Write
  <1> QED
    BY <1>3

(* Whatever races, fails or crashes, the database changes by whole runs    *)
(* only: every step from the version a migrator read to its target, and    *)
(* the target as user_version, in one COMMIT.                              *)
THEOREM DatabaseChangesByWholeRuns == Spec => RunIsWhole
  <1> DEFINE Whole == \E m \in Migrators :
          \/ lost[m]
          \/ \E from \in 0..(Target[m] - 1) :
                /\ disk'.version = Target[m]
                /\ disk'.applied = disk.applied \o
                     [i \in 1..(Target[m] - from) |-> from + i - 1]
  <1>1. IInv /\ [Next]_vars => [Whole]_disk
    <2> SUFFICES ASSUME IInv, [Next]_vars, disk' # disk
                 PROVE  Whole
      OBVIOUS
    <2>1. PICK m \in Migrators : lost[m] \/ Commit(m)
      BY DiskStep
    <2>2. CASE lost[m]
      BY <2>2
    <2>3. CASE Commit(m)
      <3>1. disk' = view[m] /\ view[m].version = Target[m] /\ view[m] \in Image
        BY <2>3, CommitFacts
      <3>2. PICK from \in 0..(Target[m] - 1) :
                Continues(disk.applied, view[m].applied, from, Target[m])
        BY <2>3, CommitFacts
      <3>3. /\ disk.applied \in Seq(Nat) /\ view[m].applied \in Seq(Nat)
            /\ from \in Nat /\ Target[m] \in Nat
        BY <3>1, TargetAssumption DEF IInv, TypeOK, Image
      <3>4. view[m].applied = disk.applied \o StepsFrom(from, Target[m])
        <4>1. PICK s, t, to : s = disk.applied /\ t = view[m].applied /\ to = Target[m]
          OBVIOUS
        <4>2. /\ s \in Seq(Nat) /\ t \in Seq(Nat) /\ from \in Nat /\ to \in Nat
              /\ Continues(s, t, from, to)
          BY <3>2, <3>3, <4>1
        <4>3. t = s \o StepsFrom(from, to)
          BY <4>2, ContinuesConcat
        <4> QED
          BY <4>1, <4>3
      <3>5. disk'.version = Target[m] /\ disk'.applied = disk.applied \o StepsFrom(from, Target[m])
        BY <3>1, <3>4
      <3> QED
        BY <3>5, Zenon DEF StepsFrom
    <2> QED
      BY <2>1, <2>2, <2>3
  <1> QED
    BY <1>1, Invariance, PTL DEF Spec, RunIsWhole

(* A call of esdb_migrate that returns ESDB_OK has not lost its            *)
(* transaction, and all its steps and its target are in the database.      *)
THEOREM OkIsTheWholeRun == Spec => OkMeansWhole
  <1> DEFINE Ok == \A m \in Migrators :
          ok' /\ pc'[m] # pc[m] =>
              /\ ~lost[m]
              /\ disk'.version = Target[m]
              /\ \A v \in current[m] - Len(view[m].applied) + Len(disk.applied)
                       .. Target[m] - 1 :
                    \E i \in DOMAIN disk'.applied : disk'.applied[i] = v
  <1>1. IInv /\ [Next]_vars => [Ok]_vars
    <2> SUFFICES ASSUME IInv, Next, NEW m \in Migrators, ok', pc'[m] # pc[m]
                 PROVE  /\ ~lost[m]
                        /\ disk'.version = Target[m]
                        /\ \A v \in current[m] - Len(view[m].applied) + Len(disk.applied)
                                 .. Target[m] - 1 :
                              \E i \in DOMAIN disk'.applied : disk'.applied[i] = v
      OBVIOUS
    <2>1. PICK n \in Migrators :
          \/ ReadVersion(n) \/ Begin(n) \/ ApplyStep(n)
          \/ CallbackSwallowsRollback(n) \/ SetVersion(n) \/ Commit(n) \/ FailOrCrash(n)
      BY DEF Next
    <2>2. Commit(n)
      BY <2>1, Zenon DEF ReadVersion, Begin, ApplyStep, CallbackSwallowsRollback,
                         SetVersion, FailOrCrash, Goto, Leave
    <2>3. n = m
      BY <2>2 DEF Commit, Leave, IInv, TypeOK
    <2>4. /\ disk' = view[m] /\ view[m] \in Image /\ view[m].version = Target[m]
          /\ ~lost[m] /\ current[m] = Target[m]
      BY <2>2, <2>3, CommitFacts
    <2>5. PICK from \in 0..(Target[m] - 1) :
              Continues(disk.applied, view[m].applied, from, Target[m])
      BY <2>2, <2>3, CommitFacts
    <2>6. /\ disk.applied \in Seq(Nat) /\ view[m].applied \in Seq(Nat)
          /\ from \in Nat /\ Target[m] \in Nat
      BY <2>4, TargetAssumption DEF IInv, TypeOK, Image
    <2>7. current[m] - Len(view[m].applied) + Len(disk.applied) = from
      <3>1. Len(view[m].applied) = Len(disk.applied) + (Target[m] - from)
        BY <2>5 DEF Continues
      <3>2. Len(view[m].applied) \in Nat /\ Len(disk.applied) \in Nat
        BY <2>6
      <3>3. PICK a, b : a = Len(view[m].applied) /\ b = Len(disk.applied)
        OBVIOUS
      <3>4. PICK t : t = Target[m]
        OBVIOUS
      <3>5. a \in Nat /\ b \in Nat /\ t \in Nat /\ a = b + (t - from)
        BY <2>6, <3>1, <3>2, <3>3, <3>4
      <3>6. t - a + b = from
        BY <3>5
      <3> QED
        BY <2>4, <3>3, <3>4, <3>6
    <2>8. \A v \in from..(Target[m] - 1) :
              \E i \in DOMAIN view[m].applied : view[m].applied[i] = v
      BY <2>5, <2>6, ContinuesHasAll
    <2> QED
      BY <2>4, <2>7, <2>8
  <1> QED
    BY <1>1, Invariance, PTL DEF Spec, OkMeansWhole
=============================================================================
