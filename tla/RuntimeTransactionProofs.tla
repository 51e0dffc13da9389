----------------------- MODULE RuntimeTransactionProofs -----------------------
(***************************************************************************)
(* Proofs about RuntimeTransaction for every set of handles, names and     *)
(* commands, every size of the savepoint array and every number of         *)
(* transactions.                                                           *)
(*                                                                         *)
(* BookkeepingTruthful is not inductive.  A transaction that SQLite begins *)
(* must not look like the one of an old handle (RestOK: the number of a    *)
(* transaction is given once), and RELEASE of the outermost savepoint must *)
(* not end the transaction behind the flags' back: SQLite only does so in  *)
(* a transaction that a SAVEPOINT opened, which esdb_savepoint_begin never *)
(* does while the flags are truthful; a raw SAVEPOINT that does is noted   *)
(* in "mixed", which no transaction outlives.                              *)
(***************************************************************************)
EXTENDS RuntimeTransaction, SequenceTheorems, TLAPS

Handle == [allocated: BOOLEAN, active: BOOLEAN, began: Txs]

(* SQLite's part. *)
SqliteOK ==
    /\ tx \in Txs /\ opened \in Txs /\ tx <= opened
    /\ stack \in Seq(Names) /\ implicit \in BOOLEAN
    /\ Autocommit => stack = <<>> /\ ~implicit

(* The connection's part: no handle has a number yet to be given. *)
RestOK ==
    /\ transaction_active \in BOOLEAN
    /\ active_transaction \in Handles \cup {NoHandle}
    /\ savepoints \in Seq(Names) /\ Len(savepoints) <= MaxDepth
    /\ handle \in [Handles -> Handle]
    /\ \A h \in Handles : handle[h].began <= opened
    /\ ended \subseteq Txs \X Txs
    /\ unnoticed \in BOOLEAN

MixedOK == mixed \in BOOLEAN /\ (Autocommit => ~mixed)

Truthful ==
    /\ FlagsTruthful /\ SavepointsMirrorSqlite /\ FinishEndsOwnTransaction
    /\ unnoticed \/ mixed \/ ~implicit

(* StackIsInnerNames, name by name. *)
InnerOK ==
    mixed \/
    /\ Len(stack) <= Len(savepoints)
    /\ \A i \in 1..Len(stack) :
          stack[i] = savepoints[Len(savepoints) - Len(stack) + i]

IInv ==
    /\ SqliteOK /\ RestOK /\ MixedOK /\ Truthful
    /\ OpenTransactionIsKnown /\ InnerOK

-----------------------------------------------------------------------------
(* What SQLite's statements do. *)

LEMMA BeginsOK ==
    ASSUME SqliteOK, SqliteBegins
    PROVE  /\ SqliteOK' /\ tx' = opened + 1 /\ tx' # 0 /\ opened' = tx'
           /\ stack' = <<>> /\ ~implicit'
<1>1. implicit' = FALSE /\ stack' = <<>> /\ opened < MaxTx
      /\ opened' = opened + 1 /\ tx' = opened + 1
  BY DEF SqliteBegins
<1>2. /\ tx' \in Txs /\ opened' \in Txs /\ tx' # 0
      /\ tx' <= opened' /\ stack' \in Seq(Names)
  BY <1>1, MaxTxAssumption DEF SqliteOK, Txs
<1> QED
  BY <1>1, <1>2, Zenon DEF SqliteOK, Autocommit

LEMMA EndsOK ==
    ASSUME SqliteOK, SqliteEnds
    PROVE  SqliteOK' /\ tx' = 0 /\ opened' = opened /\ stack' = <<>> /\ ~implicit'
<1>1. implicit' = FALSE /\ stack' = <<>> /\ opened' = opened /\ tx' = 0
  BY DEF SqliteEnds
<1>2. tx' \in Txs /\ opened' \in Txs /\ tx' <= opened' /\ stack' \in Seq(Names)
  BY <1>1, MaxTxAssumption DEF SqliteOK, Txs
<1> QED
  BY <1>1, <1>2, Zenon DEF SqliteOK, Autocommit

LEMMA SavepointOK ==
    ASSUME SqliteOK, NEW n \in Names, SqliteSavepoint(n)
    PROVE  /\ SqliteOK' /\ opened <= opened' /\ tx' # 0
           /\ stack' = Append(stack, n)
           /\ ~Autocommit => UNCHANGED <<tx, opened, implicit>>
<1>1. CASE Autocommit
  <2>1. stack' = Append(stack, n)
    BY <1>1 DEF SqliteOK, SqliteSavepoint
  <2> QED
    BY <1>1, <2>1, MaxTxAssumption DEF SqliteOK, SqliteSavepoint, Txs, Autocommit
<1>2. CASE ~Autocommit
  BY <1>2, MaxTxAssumption DEF SqliteOK, SqliteSavepoint, Txs, Autocommit
<1> QED
  BY <1>1, <1>2

LEMMA PrefixOK ==
    ASSUME NEW S, NEW s \in Seq(S), NEW k \in Nat, k <= Len(s)
    PROVE  SubSeq(s, 1, k) \in Seq(S) /\ Len(SubSeq(s, 1, k)) = k
OBVIOUS

LEMMA ReleaseOK ==
    ASSUME SqliteOK, NEW n \in Names, SqliteRelease(n)
    PROVE  /\ SqliteOK' /\ opened' = opened /\ ~Autocommit
           /\ \/ implicit /\ tx' = 0 /\ stack' = <<>>
              \/ UNCHANGED <<tx, implicit>>
<1>1. PICK i \in DOMAIN stack :
        /\ Innermost(n, i)
        /\ IF implicit /\ i = 1
           THEN SqliteEnds
           ELSE stack' = SubSeq(stack, 1, i - 1) /\ UNCHANGED <<tx, opened, implicit>>
  BY DEF SqliteRelease
<1>2. DOMAIN stack = 1..Len(stack) /\ Len(stack) \in Nat
  BY DEF SqliteOK
<1>3. ~Autocommit
  BY <1>1, <1>2 DEF SqliteOK
<1>4. CASE implicit /\ i = 1
  BY <1>1, <1>3, <1>4, EndsOK
<1>5. CASE ~(implicit /\ i = 1)
  <2>1. stack' = SubSeq(stack, 1, i - 1) /\ UNCHANGED <<tx, opened, implicit>>
    BY <1>1, <1>5
  <2>2. stack' \in Seq(Names)
    BY <1>2, <2>1, PrefixOK DEF SqliteOK
  <2> QED
    BY <1>3, <2>1, <2>2 DEF SqliteOK, Autocommit
<1> QED
  BY <1>4, <1>5

(* RELEASE of the name at the top ends the innermost savepoint only. *)
LEMMA ReleaseTop ==
    ASSUME SqliteOK, NEW n \in Names, SqliteRelease(n),
           stack # <<>> => stack[Len(stack)] = n
    PROVE  Len(stack) > 0 /\ stack' = SubSeq(stack, 1, Len(stack) - 1)
<1>1. PICK i \in DOMAIN stack :
        /\ Innermost(n, i)
        /\ IF implicit /\ i = 1
           THEN SqliteEnds
           ELSE stack' = SubSeq(stack, 1, i - 1) /\ UNCHANGED <<tx, opened, implicit>>
  BY DEF SqliteRelease
<1>2. DOMAIN stack = 1..Len(stack) /\ Len(stack) \in Nat
  BY DEF SqliteOK
<1>3. i = Len(stack) /\ Len(stack) > 0
  <2>1. stack # <<>> /\ Len(stack) \in DOMAIN stack
    BY <1>1, <1>2
  <2> QED
    BY <1>1, <1>2, <2>1 DEF SqliteOK, Innermost
<1>4. CASE implicit /\ i = 1
  <2>1. SubSeq(stack, 1, Len(stack) - 1) = <<>>
    BY <1>3, <1>4 DEF SqliteOK
  <2> QED
    BY <1>1, <1>3, <1>4, <2>1 DEF SqliteEnds
<1>5. CASE ~(implicit /\ i = 1)
  BY <1>1, <1>3, <1>5
<1> QED
  BY <1>4, <1>5

LEMMA RollbackToOK ==
    ASSUME SqliteOK, NEW n \in Names, SqliteRollbackTo(n)
    PROVE  SqliteOK' /\ ~Autocommit /\ UNCHANGED <<tx, opened, implicit>>
<1>1. PICK i \in DOMAIN stack :
        stack' = SubSeq(stack, 1, i) /\ UNCHANGED <<tx, opened, implicit>>
  BY DEF SqliteRollbackTo
<1>2. DOMAIN stack = 1..Len(stack) /\ Len(stack) \in Nat
  BY DEF SqliteOK
<1>3. ~Autocommit
  BY <1>1, <1>2 DEF SqliteOK
<1>4. stack' \in Seq(Names)
  BY <1>1, <1>2, PrefixOK DEF SqliteOK
<1> QED
  BY <1>1, <1>3, <1>4 DEF SqliteOK, Autocommit

-----------------------------------------------------------------------------
(* Every action keeps IInv. *)

LEMMA EmptyStackInner ==
    ASSUME savepoints' \in Seq(Names), stack' = <<>>
    PROVE  InnerOK'
BY DEF InnerOK

LEMMA BeginKeeps ==
    ASSUME IInv, NEW h \in Handles, Begin(h)
    PROVE  IInv'
<1>1. /\ SqliteOK /\ RestOK /\ MixedOK /\ Truthful /\ OpenTransactionIsKnown /\ InnerOK
      /\ SqliteBegins /\ Autocommit /\ ~transaction_active
  BY DEF IInv, Begin
<1>2. /\ SqliteOK' /\ tx' = opened + 1 /\ tx' # 0 /\ opened' = tx'
      /\ stack' = <<>> /\ ~implicit'
  BY <1>1, BeginsOK
<1>3. /\ transaction_active' = TRUE /\ active_transaction' = h
      /\ handle' = [handle EXCEPT ![h] = [allocated |-> TRUE, active |-> TRUE, began |-> tx']]
      /\ UNCHANGED <<savepoints, ended, unnoticed, mixed>>
  BY DEF Begin
<1>4. tx' \in Txs /\ opened \in Nat /\ opened <= tx'
  BY <1>1, <1>2, MaxTxAssumption DEF SqliteOK, Txs
<1>5. RestOK'
  BY <1>1, <1>2, <1>3, <1>4 DEF RestOK, Handle, Txs
<1>m. MixedOK'
  BY <1>1, <1>2, <1>3 DEF MixedOK, Autocommit
<1>6. Truthful'
  <2>1. CASE unnoticed
    BY <1>3, <2>1
    DEF Truthful, FlagsTruthful, SavepointsMirrorSqlite, FinishEndsOwnTransaction
  <2>2. CASE ~unnoticed
    <3>1. savepoints = <<>> /\ \A g \in Handles : ~handle[g].active
      BY <1>1, <2>2 DEF Truthful, FlagsTruthful, SavepointsMirrorSqlite, SqliteOK, MixedOK
    <3>2. \A g \in Handles : handle'[g].active <=> g = h
      BY <1>1, <1>3, <3>1 DEF RestOK, Handle
    <3>3. handle'[h].began = tx'
      BY <1>1, <1>3 DEF RestOK
    <3>4. FlagsTruthful'
      BY <1>2, <1>3, <3>2, <3>3 DEF FlagsTruthful, Autocommit
    <3> QED
      BY <1>1, <1>2, <1>3, <3>1, <3>4
      DEF Truthful, SavepointsMirrorSqlite, FinishEndsOwnTransaction
  <2> QED
    BY <2>1, <2>2
<1>7. OpenTransactionIsKnown'
  BY <1>3 DEF OpenTransactionIsKnown
<1>8. InnerOK'
  BY <1>2, <1>5, EmptyStackInner DEF RestOK
<1> QED
  BY <1>2, <1>5, <1>6, <1>7, <1>8, <1>m DEF IInv

LEMMA FinishKeeps ==
    ASSUME IInv, NEW h \in Handles, NEW freed \in BOOLEAN, Finish(h, freed)
    PROVE  IInv'
<1>1. /\ SqliteOK /\ RestOK /\ MixedOK /\ Truthful /\ OpenTransactionIsKnown /\ InnerOK
      /\ SqliteEnds /\ handle[h].active
  BY DEF IInv, Finish
<1>2. SqliteOK' /\ tx' = 0 /\ opened' = opened /\ stack' = <<>> /\ ~implicit'
  BY <1>1, EndsOK
<1>3. /\ transaction_active' = FALSE /\ active_transaction' = Cleared(h)
      /\ savepoints' = <<>> /\ unnoticed' = unnoticed /\ mixed' = FALSE
      /\ ended' = IF Autocommit THEN ended
                                ELSE ended \cup {<<handle[h].began, tx>>}
  BY DEF Finish
<1>4. PICK k \in Handle : /\ handle' = [handle EXCEPT ![h] = k]
                          /\ ~k.active /\ k.began <= opened
  <2>1. handle[h] \in Handle /\ handle[h].began <= opened
    BY <1>1 DEF RestOK
  <2>2. NoTransaction \in Handle /\ ~NoTransaction.active /\ NoTransaction.began = 0
        /\ 0 <= opened
    BY <1>1, MaxTxAssumption DEF NoTransaction, Handle, Txs, SqliteOK
  <2> DEFINE k == IF freed THEN NoTransaction ELSE [handle[h] EXCEPT !.active = FALSE]
  <2>3. k \in Handle /\ ~k.active /\ k.began <= opened
    BY <2>1, <2>2 DEF Handle
  <2>4. handle' = [handle EXCEPT ![h] = k]
    BY DEF Finish
  <2> QED
    BY <2>3, <2>4
<1>5. RestOK'
  <2>1. handle' \in [Handles -> Handle] /\ \A g \in Handles : handle'[g].began <= opened
    BY <1>1, <1>4 DEF RestOK
  <2>2. ended' \subseteq Txs \X Txs
    BY <1>1, <1>3 DEF RestOK, SqliteOK, Handle
  <2>3. savepoints' \in Seq(Names) /\ Len(savepoints') <= MaxDepth
    BY <1>3, MaxDepthAssumption
  <2>4. active_transaction' \in Handles \cup {NoHandle}
    BY <1>1, <1>3 DEF RestOK, Cleared
  <2>5. transaction_active' \in BOOLEAN /\ unnoticed' \in BOOLEAN
    BY <1>1, <1>3, Zenon DEF RestOK
  <2> QED
    BY <1>2, <2>1, <2>2, <2>3, <2>4, <2>5 DEF RestOK
<1>m. MixedOK'
  BY <1>3 DEF MixedOK, Autocommit
<1>6. Truthful'
  <2>1. CASE unnoticed
    BY <1>3, <2>1
    DEF Truthful, FlagsTruthful, SavepointsMirrorSqlite, FinishEndsOwnTransaction
  <2>2. CASE ~unnoticed
    <3>1. h = active_transaction /\ handle[h].began = tx
      BY <1>1, <2>2 DEF Truthful, FlagsTruthful
    <3>2. \A g \in Handles : ~handle'[g].active
      BY <1>1, <1>4, <2>2, <3>1 DEF Truthful, FlagsTruthful, RestOK
    <3>3. FlagsTruthful'
      BY <1>2, <1>3, <3>2 DEF FlagsTruthful, Autocommit
    <3>4. FinishEndsOwnTransaction'
      BY <1>1, <1>3, <2>2, <3>1 DEF Truthful, FinishEndsOwnTransaction
    <3> QED
      BY <1>2, <1>3, <3>3, <3>4 DEF Truthful, SavepointsMirrorSqlite
  <2> QED
    BY <2>1, <2>2
<1>7. OpenTransactionIsKnown'
  BY <1>2 DEF OpenTransactionIsKnown, Autocommit
<1>8. InnerOK'
  BY <1>2, <1>5, EmptyStackInner DEF RestOK
<1> QED
  BY <1>2, <1>5, <1>6, <1>7, <1>8, <1>m DEF IInv

LEMMA StutterKeeps ==
    ASSUME IInv, UNCHANGED vars
    PROVE  IInv'
BY DEF vars, sqlite, flags, IInv, SqliteOK, RestOK, MixedOK, Truthful,
   FlagsTruthful, SavepointsMirrorSqlite, FinishEndsOwnTransaction,
   OpenTransactionIsKnown, InnerOK, Autocommit

LEMMA StaysOpenChangesNothing ==
    ASSUME IInv, NEW h \in Handles, StaysOpen(h)
    PROVE  UNCHANGED <<sqlite, flags, ended, unnoticed, mixed>>
<1>1. OpenTransactionIsKnown /\ ~Autocommit /\ transaction_active \in BOOLEAN
  BY DEF IInv, RestOK, StaysOpen
<1>2. transaction_active
  BY <1>1 DEF OpenTransactionIsKnown
<1> QED
  BY <1>1, <1>2 DEF StaysOpen, sqlite, flags

LEMMA KeepOpenKeeps ==
    ASSUME IInv, NEW h \in Handles, FinishStaysOpen(h)
    PROVE  IInv'
<1>1. UNCHANGED vars
  BY StaysOpenChangesNothing DEF FinishStaysOpen, vars
<1> QED
  BY <1>1, StutterKeeps

LEMMA DestroyKeeps ==
    ASSUME IInv, NEW h \in Handles, handle' = [handle EXCEPT ![h] = NoTransaction],
           UNCHANGED <<sqlite, flags, ended, unnoticed, mixed>>
    PROVE  IInv'
<1>1. /\ SqliteOK /\ RestOK /\ MixedOK /\ Truthful /\ OpenTransactionIsKnown /\ InnerOK
  BY DEF IInv
<1>2. UNCHANGED <<tx, opened, stack, implicit, transaction_active,
                  active_transaction, savepoints, ended, unnoticed,
                  mixed>>
  BY DEF sqlite, flags
<1>3. NoTransaction \in Handle /\ ~NoTransaction.active /\ NoTransaction.began = 0
      /\ 0 <= opened
  BY <1>1, MaxTxAssumption DEF NoTransaction, Handle, Txs, SqliteOK
<1>4. RestOK'
  BY <1>1, <1>2, <1>3 DEF RestOK
<1>m. MixedOK'
  BY <1>1, <1>2 DEF MixedOK, Autocommit
<1>5. Truthful'
  <2>1. FlagsTruthful'
    BY <1>1, <1>2, <1>3 DEF RestOK, Truthful, FlagsTruthful, Autocommit
  <2> QED
    BY <1>1, <1>2, <2>1 DEF Truthful, SavepointsMirrorSqlite,
       FinishEndsOwnTransaction
<1> QED
  BY <1>1, <1>2, <1>4, <1>5, <1>m DEF IInv, SqliteOK, OpenTransactionIsKnown,
     InnerOK, Autocommit

LEMMA SavepointBeginKeeps ==
    ASSUME IInv, NEW n \in Names, SavepointBegin(n)
    PROVE  IInv'
<1>1. /\ SqliteOK /\ RestOK /\ MixedOK /\ Truthful /\ OpenTransactionIsKnown /\ InnerOK
      /\ SqliteSavepoint(n) /\ transaction_active /\ Len(savepoints) < MaxDepth
  BY DEF IInv, SavepointBegin
<1>2. /\ SqliteOK' /\ opened <= opened' /\ tx' # 0 /\ stack' = Append(stack, n)
      /\ ~Autocommit => UNCHANGED <<tx, opened, implicit>>
  BY <1>1, SavepointOK
<1>3. /\ savepoints' = Append(savepoints, n)
      /\ UNCHANGED <<transaction_active, active_transaction, handle, ended,
                     unnoticed, mixed>>
  BY DEF SavepointBegin
<1>4. RestOK'
  <2>1. savepoints' \in Seq(Names) /\ Len(savepoints') <= MaxDepth
    BY <1>1, <1>3, MaxDepthAssumption DEF RestOK
  <2>2. \A h \in Handles : handle'[h].began <= opened'
    BY <1>1, <1>2, <1>3 DEF RestOK, SqliteOK, Handle, Txs
  <2> QED
    BY <1>1, <1>3, <2>1, <2>2, Zenon DEF RestOK
<1>m. MixedOK'
  BY <1>1, <1>2, <1>3 DEF MixedOK, Autocommit
<1>5. Truthful'
  <2>1. CASE unnoticed
    BY <1>3, <2>1
    DEF Truthful, FlagsTruthful, SavepointsMirrorSqlite, FinishEndsOwnTransaction
  <2>2. CASE ~unnoticed
    <3>1. /\ ~Autocommit
          /\ mixed \/ savepoints = stack
          /\ mixed \/ ~implicit
      BY <1>1, <2>2 DEF Truthful, FlagsTruthful, SavepointsMirrorSqlite
    <3>2. UNCHANGED <<tx, implicit>>
      BY <1>2, <3>1
    <3>3. FlagsTruthful'
      BY <1>1, <1>3, <3>2 DEF Truthful, FlagsTruthful, Autocommit
    <3> QED
      BY <1>1, <1>2, <1>3, <3>1, <3>2, <3>3
      DEF Truthful, SavepointsMirrorSqlite, FinishEndsOwnTransaction
  <2> QED
    BY <2>1, <2>2
<1>6. OpenTransactionIsKnown'
  BY <1>1, <1>3 DEF OpenTransactionIsKnown
<1>7. InnerOK'
  <2> SUFFICES ASSUME ~mixed PROVE InnerOK'
    BY <1>3 DEF InnerOK
  <2>1. stack \in Seq(Names) /\ savepoints \in Seq(Names)
    BY <1>1 DEF SqliteOK, RestOK
  <2>2. Len(stack') = Len(stack) + 1 /\ Len(savepoints') = Len(savepoints) + 1
    BY <1>2, <1>3, <2>1
  <2>3. ASSUME NEW i \in 1..Len(stack')
        PROVE  stack'[i] = savepoints'[Len(savepoints') - Len(stack') + i]
    <3>1. CASE i = Len(stack) + 1
      BY <1>1, <1>2, <1>3, <2>1, <2>2, <3>1 DEF InnerOK
    <3>2. CASE i \in 1..Len(stack)
      <4>1. Len(savepoints) - Len(stack) + i \in 1..Len(savepoints)
        BY <1>1, <2>1, <3>2 DEF InnerOK
      <4> QED
        BY <1>1, <1>2, <1>3, <2>1, <2>2, <3>2, <4>1 DEF InnerOK
    <3> QED
      BY <2>1, <2>2, <3>1, <3>2
  <2> QED
    BY <1>1, <2>1, <2>2, <2>3 DEF InnerOK
<1> QED
  BY <1>2, <1>4, <1>5, <1>6, <1>7, <1>m DEF IInv

(* The name at the top of the array is the innermost savepoint's. *)
LEMMA TopIsInnermost ==
    ASSUME SqliteOK, RestOK, InnerOK, ~mixed, NEW n, OnTop(n), stack # <<>>
    PROVE  stack[Len(stack)] = n
<1>1. /\ stack \in Seq(Names) /\ savepoints \in Seq(Names)
      /\ Len(stack) \in 1..Len(stack)
  BY DEF SqliteOK, RestOK
<1>2. stack[Len(stack)] = savepoints[Len(savepoints) - Len(stack) + Len(stack)]
  BY <1>1 DEF InnerOK
<1>3. Len(savepoints) - Len(stack) + Len(stack) = Len(savepoints)
  BY <1>1
<1> QED
  BY <1>2, <1>3 DEF OnTop

LEMMA ShorterByOne ==
    ASSUME NEW a \in Nat, NEW b \in Nat, a <= b, NEW k \in 1..(a - 1)
    PROVE  /\ k \in 1..a
           /\ (b - 1) - (a - 1) + k = b - a + k
           /\ b - a + k \in 1..(b - 1)
OBVIOUS

LEMMA SavepointEndKeeps ==
    ASSUME IInv, NEW n \in Names, SavepointReleaseOrRollback(n)
    PROVE  IInv'
<1>1. /\ SqliteOK /\ RestOK /\ MixedOK /\ Truthful /\ OpenTransactionIsKnown /\ InnerOK
      /\ SqliteRelease(n) /\ OnTop(n)
  BY DEF IInv, SavepointReleaseOrRollback
<1>2. /\ SqliteOK' /\ opened' = opened /\ ~Autocommit
      /\ \/ implicit /\ tx' = 0 /\ stack' = <<>>
         \/ UNCHANGED <<tx, implicit>>
  BY <1>1, ReleaseOK
<1>3. /\ savepoints' = SubSeq(savepoints, 1, Len(savepoints) - 1)
      /\ unnoticed' = (unnoticed \/ tx' = 0)
      /\ mixed' = (mixed /\ tx' # 0)
      /\ UNCHANGED <<transaction_active, active_transaction, handle, ended>>
  BY DEF SavepointReleaseOrRollback
<1>a. stack \in Seq(Names) /\ savepoints \in Seq(Names)
      /\ Len(savepoints) <= MaxDepth /\ Len(savepoints) > 0
  BY <1>1 DEF SqliteOK, RestOK, OnTop
<1>4. ASSUME NEW s \in Seq(Names), Len(s) > 0
      PROVE  /\ SubSeq(s, 1, Len(s) - 1) \in Seq(Names)
             /\ Len(SubSeq(s, 1, Len(s) - 1)) = Len(s) - 1
  <2>1. Len(s) \in Nat
    OBVIOUS
  <2>2. Len(s) - 1 \in Nat /\ Len(s) - 1 <= Len(s)
    BY <1>4, <2>1
  <2> QED
    BY <2>2, PrefixOK
<1>b. savepoints' \in Seq(Names) /\ Len(savepoints') = Len(savepoints) - 1
  BY <1>3, <1>4, <1>a
<1>5. RestOK'
  <2>1. Len(savepoints') <= MaxDepth
    BY <1>a, <1>b, MaxDepthAssumption
  <2>2. unnoticed' \in BOOLEAN
    BY <1>3, Zenon
  <2> QED
    BY <1>1, <1>2, <1>3, <1>b, <2>1, <2>2, Zenon DEF RestOK
<1>m. MixedOK'
  BY <1>3 DEF MixedOK, Autocommit
<1>6. ASSUME ~mixed
      PROVE  /\ Len(stack) > 0 /\ Len(stack) <= Len(savepoints)
             /\ stack' = SubSeq(stack, 1, Len(stack) - 1)
             /\ Len(stack') = Len(stack) - 1
             /\ \A i \in 1..Len(stack) :
                   stack[i] = savepoints[Len(savepoints) - Len(stack) + i]
  <2>1. Len(stack) > 0 /\ stack' = SubSeq(stack, 1, Len(stack) - 1)
    BY <1>1, <1>6, ReleaseTop, TopIsInnermost
  <2> QED
    BY <1>1, <1>4, <1>6, <1>a, <2>1 DEF InnerOK
<1>7. Truthful'
  <2>1. CASE unnoticed'
    BY <2>1
    DEF Truthful, FlagsTruthful, SavepointsMirrorSqlite, FinishEndsOwnTransaction
  <2>2. CASE ~unnoticed'
    <3>1. ~unnoticed /\ UNCHANGED <<tx, implicit, mixed>>
      <4>1. ~unnoticed /\ tx' # 0
        BY <1>3, <2>2
      <4> QED
        BY <1>1, <1>2, <1>3, <4>1, Zenon DEF MixedOK
    <3>2. FlagsTruthful'
      BY <1>1, <1>3, <3>1 DEF Truthful, FlagsTruthful, Autocommit
    <3>3. SavepointsMirrorSqlite'
      <4>1. CASE mixed
        BY <3>1, <4>1 DEF SavepointsMirrorSqlite
      <4>2. CASE ~mixed
        BY <1>1, <1>3, <1>6, <3>1, <4>2 DEF Truthful, SavepointsMirrorSqlite
      <4> QED
        BY <4>1, <4>2
    <3> QED
      BY <1>1, <1>3, <3>1, <3>2, <3>3 DEF Truthful, FinishEndsOwnTransaction
  <2> QED
    BY <2>1, <2>2
<1>8. OpenTransactionIsKnown'
  BY <1>1, <1>2, <1>3 DEF OpenTransactionIsKnown, Autocommit
<1>9. InnerOK'
  <2>1. CASE tx' = 0
    BY <1>2, <1>b, <2>1, EmptyStackInner DEF SqliteOK, Autocommit
  <2>2. CASE tx' # 0 /\ mixed
    BY <1>1, <1>3, <2>2, Zenon DEF InnerOK, MixedOK
  <2>3. CASE tx' # 0 /\ ~mixed
    <3>0. /\ Len(stack) > 0 /\ Len(stack) <= Len(savepoints)
          /\ stack' = SubSeq(stack, 1, Len(stack) - 1)
          /\ Len(stack') = Len(stack) - 1
          /\ Len(stack) \in Nat /\ Len(savepoints) \in Nat
          /\ Len(savepoints') = Len(savepoints) - 1
      BY <1>6, <1>a, <1>b, <2>3
    <3>1. ASSUME NEW i \in 1..Len(stack')
          PROVE  stack'[i] = savepoints'[Len(savepoints') - Len(stack') + i]
      <4>1. /\ i \in 1..Len(stack)
            /\ Len(savepoints') - Len(stack') + i = Len(savepoints) - Len(stack) + i
            /\ Len(savepoints) - Len(stack) + i \in 1..(Len(savepoints) - 1)
        <5>1. i \in 1..(Len(stack) - 1)
          BY <3>0
        <5>2. Len(savepoints') - Len(stack') + i
                 = (Len(savepoints) - 1) - (Len(stack) - 1) + i
          BY <3>0
        <5> QED
          BY <3>0, <5>1, <5>2, ShorterByOne
      <4>2. stack'[i] = stack[i]
        BY <3>0, <1>a, <4>1
      <4>3. savepoints'[Len(savepoints) - Len(stack) + i]
               = savepoints[Len(savepoints) - Len(stack) + i]
        BY <1>3, <1>a, <4>1, SMTT(60)
      <4> QED
        BY <1>6, <2>3, <4>1, <4>2, <4>3
    <3>2. Len(stack') <= Len(savepoints')
      BY <1>6, <1>a, <1>b, <2>3
    <3> QED
      BY <3>1, <3>2 DEF InnerOK
  <2> QED
    BY <2>1, <2>2, <2>3
<1> QED
  BY <1>2, <1>5, <1>7, <1>8, <1>9, <1>m DEF IInv

(* ROLLBACK TO alone, by a savepoint call or by raw SQL, leaves everything *)
(* but the stack as it is, and that too unless there are raw savepoints.   *)
LEMMA SavepointRollbackFailsKeeps ==
    ASSUME IInv, NEW n \in Names, SavepointRollbackFails(n)
    PROVE  IInv'
<1>1. /\ SqliteOK /\ RestOK /\ MixedOK /\ Truthful /\ OpenTransactionIsKnown /\ InnerOK
      /\ SqliteRollbackTo(n) /\ OnTop(n) /\ Innermost(n, 1)
  BY DEF IInv, SavepointRollbackFails
<1>2. SqliteOK' /\ ~Autocommit /\ UNCHANGED <<tx, opened, implicit>>
  BY <1>1, RollbackToOK
<1>3. UNCHANGED <<transaction_active, active_transaction, savepoints, handle,
                  ended, unnoticed, mixed>>
  BY DEF SavepointRollbackFails, flags
<1>4. CASE mixed
  <2>1. RestOK' /\ MixedOK' /\ OpenTransactionIsKnown'
    BY <1>1, <1>2, <1>3 DEF RestOK, MixedOK, OpenTransactionIsKnown, Autocommit
  <2>2. Truthful'
    BY <1>1, <1>2, <1>3, <1>4 DEF Truthful, FlagsTruthful, Autocommit,
       SavepointsMirrorSqlite, FinishEndsOwnTransaction
  <2>3. InnerOK'
    BY <1>3, <1>4 DEF InnerOK
  <2> QED
    BY <1>2, <2>1, <2>2, <2>3 DEF IInv
<1>5. CASE ~mixed
  <2>1. /\ stack \in Seq(Names) /\ DOMAIN stack = 1..Len(stack)
        /\ stack # <<>> /\ Len(stack) \in DOMAIN stack
    BY <1>1 DEF SqliteOK, Innermost
  <2>2. stack[Len(stack)] = n
    BY <1>1, <1>5, <2>1, TopIsInnermost
  <2>3. ASSUME NEW i \in DOMAIN stack, Innermost(n, i)
        PROVE  i = Len(stack)
    BY <2>1, <2>2, <2>3 DEF Innermost
  <2>4. stack' = SubSeq(stack, 1, Len(stack))
    BY <1>1, <2>3 DEF SqliteRollbackTo
  <2>5. stack' = stack
    BY <2>1, <2>4
  <2> QED
    BY <1>2, <1>3, <2>5, StutterKeeps DEF vars, sqlite, flags
<1> QED
  BY <1>4, <1>5


(* What esdb_exec and esdb_query do after a script that has changed        *)
(* SQLite's side: one of the ways in which a script does.                  *)
Scripted ==
    \/ tx' = 0
    \/ UNCHANGED <<tx, stack, implicit, mixed>>
    \/ ~Autocommit /\ mixed' /\ UNCHANGED tx
    \/ Autocommit /\ tx' = opened + 1 /\ (mixed' \/ (stack' = <<>> /\ ~implicit'))
    \/ unnoticed' /\ stack' = <<>>

LEMMA SyncKeeps ==
    ASSUME IInv, Sync, Scripted, SqliteOK', MixedOK', opened <= opened',
           unnoticed' \in BOOLEAN, unnoticed => unnoticed', UNCHANGED ended
    PROVE  IInv'
<1>1. SqliteOK /\ RestOK /\ MixedOK /\ Truthful /\ OpenTransactionIsKnown /\ InnerOK
  BY DEF IInv
<1>2. Sync
  OBVIOUS
<1>3. /\ opened <= opened' /\ UNCHANGED ended
      /\ unnoticed' \in BOOLEAN /\ (unnoticed => unnoticed')
  OBVIOUS
<1>4. \A h \in Handles : /\ handle'[h] \in Handle
                         /\ handle'[h].began = handle[h].began
                         /\ handle'[h].active =>
                               handle[h].active /\ (tx' = 0 => h # active_transaction)
                         /\ tx' # 0 => handle'[h] = handle[h]
  <2>1. CASE tx' = 0
    <3>1. handle' = [h \in Handles |-> IF h = active_transaction
                                       THEN [handle[h] EXCEPT !.active = FALSE]
                                       ELSE handle[h]]
      BY <1>2, <2>1 DEF Sync
    <3>2. ASSUME NEW h \in Handles
          PROVE  /\ [handle[h] EXCEPT !.active = FALSE] \in Handle
                 /\ [handle[h] EXCEPT !.active = FALSE].began = handle[h].began
                 /\ [handle[h] EXCEPT !.active = FALSE].active = FALSE
                 /\ handle[h] \in Handle
      BY <1>1 DEF RestOK, Handle
    <3> QED
      BY <2>1, <3>1, <3>2
  <2>2. CASE tx' # 0
    BY <1>1, <1>2, <2>2 DEF Sync, RestOK
  <2> QED
    BY <2>1, <2>2
<1>5. handle' \in [Handles -> Handle]
  <2>1. CASE tx' = 0
    BY <1>1, <1>2, <1>4, <2>1 DEF Sync
  <2>2. CASE tx' # 0
    BY <1>1, <1>2, <2>2 DEF Sync, RestOK
  <2> QED
    BY <2>1, <2>2
<1>6. RestOK'
  <2>1. savepoints' \in Seq(Names) /\ Len(savepoints') <= MaxDepth
    <3>1. savepoints' = <<>> \/ savepoints' = savepoints
      BY <1>2 DEF Sync
    <3>2. CASE savepoints' = <<>>
      BY <3>2, EmptySeq, MaxDepthAssumption
    <3>3. CASE savepoints' = savepoints
      BY <1>1, <3>3 DEF RestOK
    <3> QED
      BY <3>1, <3>2, <3>3
  <2>2. transaction_active' \in BOOLEAN /\ unnoticed' \in BOOLEAN
    BY <1>2, <1>3, Zenon DEF Sync
  <2>3. \A h \in Handles : handle'[h].began <= opened'
    BY <1>1, <1>3, <1>4 DEF RestOK, SqliteOK, Handle, Txs
  <2>4. active_transaction' \in Handles \cup {NoHandle}
    BY <1>1, <1>2 DEF Sync, RestOK
  <2> QED
    BY <1>1, <1>3, <1>5, <2>1, <2>2, <2>3, <2>4, Zenon DEF RestOK
<1>7. Truthful'
  <2>1. CASE unnoticed'
    BY <2>1
    DEF Truthful, FlagsTruthful, SavepointsMirrorSqlite, FinishEndsOwnTransaction
  <2>2. CASE ~unnoticed'
    <3>1. ~unnoticed
      BY <1>3, <2>2
    <3>2. /\ mixed \/ savepoints = stack
          /\ mixed \/ ~implicit
          /\ FlagsTruthful /\ FinishEndsOwnTransaction
          /\ Autocommit => stack = <<>> /\ ~mixed
      BY <1>1, <3>1 DEF Truthful, SavepointsMirrorSqlite, SqliteOK, MixedOK
    <3>3. mixed' \/ (savepoints' = stack' /\ ~implicit')
      <4>1. CASE tx' = 0
        <5>1. savepoints' = <<>> /\ stack' = <<>>
          BY <1>2, <4>1 DEF Sync, SqliteOK, Autocommit
        <5>2. ~implicit'
          BY <4>1 DEF SqliteOK, Autocommit
        <5> QED
          BY <5>1, <5>2
      <4>2. CASE tx' # 0
        <5>1. UNCHANGED savepoints
          BY <1>2, <4>2 DEF Sync
        <5>2. \/ mixed'
              \/ UNCHANGED <<stack, implicit>> /\ (mixed' \/ ~mixed)
              \/ Autocommit /\ stack' = <<>> /\ ~implicit'
          BY <2>2, <4>2, Zenon DEF Scripted
        <5>3. CASE UNCHANGED <<stack, implicit>> /\ ~mixed
          BY <3>2, <5>1, <5>3
        <5>4. CASE Autocommit /\ stack' = <<>> /\ ~implicit'
          BY <3>2, <5>1, <5>4
        <5> QED
          BY <5>2, <5>3, <5>4
      <4> QED
        BY <4>1, <4>2
    <3>4. FlagsTruthful'
      <4>1. transaction_active' = (tx' # 0)
        BY <1>2 DEF Sync
      <4>2. CASE tx' = 0
        <5>1. \A h \in Handles : ~handle'[h].active
          BY <1>4, <3>1, <3>2, <4>2 DEF FlagsTruthful
        <5> QED
          BY <4>1, <4>2, <5>1 DEF FlagsTruthful, Autocommit
      <4>3. CASE tx' # 0 /\ Autocommit
        <5>1. \A h \in Handles : ~handle[h].active /\ handle'[h] = handle[h]
          BY <1>4, <3>1, <3>2, <4>3 DEF FlagsTruthful
        <5>2. tx' = opened + 1 /\ opened \in Nat
          BY <1>1, <2>2, <4>3, MaxTxAssumption DEF Scripted, Autocommit, SqliteOK, Txs
        <5>3. \A h \in Handles : handle[h].began # tx'
          BY <1>1, <5>2 DEF RestOK, Handle, Txs
        <5> QED
          BY <4>1, <4>3, <5>1, <5>3 DEF FlagsTruthful, Autocommit
      <4>4. CASE tx' # 0 /\ ~Autocommit
        <5>1. tx' = tx /\ active_transaction' = active_transaction /\ handle' = handle
          BY <1>2, <2>2, <4>4 DEF Sync, Scripted
        <5> QED
          BY <3>1, <3>2, <4>1, <4>4, <5>1 DEF FlagsTruthful, Autocommit
      <4> QED
        BY <4>2, <4>3, <4>4
    <3> QED
      BY <1>3, <3>2, <3>3, <3>4
      DEF Truthful, SavepointsMirrorSqlite, FinishEndsOwnTransaction
  <2> QED
    BY <2>1, <2>2
<1>8. OpenTransactionIsKnown'
  BY <1>2 DEF Sync, OpenTransactionIsKnown, Autocommit
<1>9. InnerOK'
  <2>1. CASE stack' = <<>>
    BY <1>6, <2>1, EmptyStackInner DEF RestOK
  <2>2. CASE mixed'
    BY <2>2 DEF InnerOK
  <2>3. CASE stack' # <<>> /\ ~mixed'
    <3>1. tx' # 0
      BY <2>3 DEF SqliteOK, Autocommit
    <3>2. UNCHANGED <<stack, mixed, savepoints>>
      BY <1>2, <2>3, <3>1 DEF Scripted, Sync
    <3> QED
      BY <1>1, <3>2 DEF InnerOK
  <2> QED
    BY <2>1, <2>2, <2>3
<1> QED
  BY <1>6, <1>7, <1>8, <1>9 DEF IInv

LEMMA ExecKeeps ==
    ASSUME IInv, NEW command \in RawCommands, Exec(command)
    PROVE  IInv'
<1>1. SqliteOK /\ MixedOK /\ unnoticed \in BOOLEAN
  BY DEF IInv, RestOK
<1>2. /\ Sync /\ UNCHANGED ended
      /\ unnoticed' = (unnoticed \/ command = "restart")
      /\ mixed' = (mixed /\ tx' = tx)
  BY DEF Exec
<1>3. opened \in Nat
  BY <1>1, MaxTxAssumption DEF SqliteOK, Txs
<1>4. SqliteOK' /\ opened <= opened' /\ Scripted
  <2>1. CASE SqliteBegins /\ (command = "restart" \/ Autocommit)
    <3>1. SqliteOK' /\ tx' = opened + 1 /\ opened' = tx' /\ stack' = <<>> /\ ~implicit'
      BY <1>1, <2>1, BeginsOK
    <3>2. Scripted
      BY <1>2, <2>1, <3>1, Zenon DEF Scripted
    <3> QED
      BY <1>3, <3>1, <3>2
  <2>2. CASE SqliteEnds
    <3>1. SqliteOK' /\ tx' = 0 /\ opened' = opened
      BY <1>1, <2>2, EndsOK
    <3> QED
      BY <1>3, <3>1 DEF Scripted
  <2>3. CASE UNCHANGED sqlite
    <3>1. UNCHANGED <<tx, opened, stack, implicit>>
      BY <2>3 DEF sqlite
    <3>2. UNCHANGED mixed
      BY <1>1, <1>2, <3>1, Zenon DEF MixedOK
    <3> QED
      BY <1>1, <1>3, <3>1, <3>2 DEF SqliteOK, Autocommit, Scripted
  <2> QED
    BY <2>1, <2>2, <2>3 DEF Exec
<1>5. MixedOK'
  <2>1. mixed' \in BOOLEAN
    BY <1>2, Zenon
  <2> QED
    BY <1>1, <1>2, <2>1 DEF MixedOK, Autocommit
<1>6. unnoticed' \in BOOLEAN /\ (unnoticed => unnoticed')
  BY <1>2, Zenon
<1> QED
  BY <1>2, <1>4, <1>5, <1>6, SyncKeeps

LEMMA ExecSavepointKeeps ==
    ASSUME IInv, NEW command \in RawCommands, NEW n \in Names,
           ExecSavepoint(command, n)
    PROVE  IInv'
<1>1. SqliteOK /\ MixedOK /\ unnoticed \in BOOLEAN
  BY DEF IInv, RestOK
<1>2. /\ Sync /\ UNCHANGED <<ended, unnoticed>>
      /\ mixed' = (tx' # 0 /\ (mixed \/ stack' # stack))
  BY DEF ExecSavepoint
<1>3. opened \in Nat /\ stack \in Seq(Names)
  BY <1>1, MaxTxAssumption DEF SqliteOK, Txs
<1>4. MixedOK'
  <2>1. mixed' \in BOOLEAN
    BY <1>2, Zenon
  <2> QED
    BY <1>2, <2>1 DEF MixedOK, Autocommit
<1>5. SqliteOK' /\ opened <= opened'
  <2>1. CASE SqliteSavepoint(n)
    BY <1>1, <2>1, SavepointOK
  <2>2. CASE SqliteRelease(n)
    BY <1>1, <1>3, <2>2, ReleaseOK
  <2>3. CASE SqliteRollbackTo(n)
    BY <1>1, <1>3, <2>3, RollbackToOK
  <2> QED
    BY <2>1, <2>2, <2>3 DEF ExecSavepoint
<1>6. Scripted
  <2>1. CASE SqliteSavepoint(n)
    <3>1. tx' # 0 /\ stack' = Append(stack, n)
      BY <1>1, <2>1, SavepointOK
    <3>2. mixed'
      <4>1. stack' # stack
        <5>1. Len(Append(stack, n)) = Len(stack) + 1 /\ Len(stack) \in Nat
          BY <1>3
        <5> QED
          BY <3>1, <5>1
      <4> QED
        BY <1>2, <3>1, <4>1, Zenon
    <3>3. CASE Autocommit
      <4>1. tx' = opened + 1
        BY <2>1, <3>3 DEF SqliteSavepoint
      <4> QED
        BY <3>2, <3>3, <4>1, Zenon DEF Scripted
    <3>4. CASE ~Autocommit
      <4>1. UNCHANGED tx
        BY <2>1, <3>4 DEF SqliteSavepoint
      <4> QED
        BY <3>2, <3>4, <4>1, Zenon DEF Scripted
    <3> QED
      BY <3>3, <3>4
  <2>2. CASE SqliteRelease(n) \/ SqliteRollbackTo(n)
    <3>1. ~Autocommit /\ (tx' = 0 \/ UNCHANGED <<tx, implicit>>)
      BY <1>1, <2>2, ReleaseOK, RollbackToOK
    <3>2. CASE tx' # 0 /\ ~mixed /\ stack' = stack
      <4>1. UNCHANGED mixed
        BY <1>1, <1>2, <3>2, Zenon DEF MixedOK
      <4> QED
        BY <3>1, <3>2, <4>1 DEF Scripted
    <3> QED
      BY <1>2, <3>1, <3>2 DEF Scripted
  <2> QED
    BY <2>1, <2>2 DEF ExecSavepoint
<1> QED
  BY <1>1, <1>2, <1>4, <1>5, <1>6, SyncKeeps

LEMMA StoreMutationKeeps ==
    ASSUME IInv, StoreMutation
    PROVE  IInv'
<1>1. /\ SqliteOK /\ RestOK /\ MixedOK /\ Truthful /\ OpenTransactionIsKnown /\ InnerOK
      /\ Autocommit
  BY DEF IInv, StoreMutation
<1>2. /\ transaction_active' = FALSE /\ savepoints' = <<>>
      /\ UNCHANGED <<tx, opened, stack, implicit, active_transaction, handle,
                     ended, unnoticed, mixed>>
  BY DEF StoreMutation, sqlite
<1>3. savepoints' \in Seq(Names) /\ Len(savepoints') <= MaxDepth
  BY <1>2, EmptySeq, MaxDepthAssumption
<1>4. stack = <<>>
  BY <1>1 DEF SqliteOK
<1>5. RestOK'
  BY <1>1, <1>2, <1>3, Zenon DEF RestOK
<1>m. MixedOK'
  BY <1>1, <1>2 DEF MixedOK, Autocommit
<1>6. Truthful'
  <2>1. CASE unnoticed
    BY <1>2, <2>1
    DEF Truthful, FlagsTruthful, SavepointsMirrorSqlite, FinishEndsOwnTransaction
  <2>2. CASE ~unnoticed
    <3>1. FlagsTruthful'
      BY <1>1, <1>2, <2>2 DEF Truthful, FlagsTruthful, Autocommit
    <3> QED
      BY <1>1, <1>2, <1>4, <2>2, <3>1
      DEF Truthful, SavepointsMirrorSqlite, FinishEndsOwnTransaction
  <2> QED
    BY <2>1, <2>2
<1>7. SqliteOK'
  BY <1>1, <1>2, Zenon DEF SqliteOK, Autocommit
<1>8. OpenTransactionIsKnown'
  BY <1>1, <1>2 DEF OpenTransactionIsKnown, Autocommit
<1>9. InnerOK'
  BY <1>2, <1>3, <1>4, EmptyStackInner
<1> QED
  BY <1>5, <1>6, <1>7, <1>8, <1>9, <1>m DEF IInv

LEMMA UnnoticedRollbackKeeps ==
    ASSUME IInv, InternalStatementRollsBack
    PROVE  IInv'
<1>1. SqliteOK /\ RestOK /\ SqliteEnds
  BY DEF IInv, InternalStatementRollsBack
<1>2. SqliteOK' /\ tx' = 0 /\ opened' = opened /\ stack' = <<>> /\ ~implicit'
  BY <1>1, EndsOK
<1>3. /\ unnoticed' = TRUE /\ mixed' = FALSE
      /\ UNCHANGED <<transaction_active, active_transaction, savepoints, handle,
                     ended>>
  BY DEF InternalStatementRollsBack, flags
<1>4. RestOK'
  BY <1>1, <1>2, <1>3, Zenon DEF RestOK
<1>m. MixedOK'
  BY <1>3 DEF MixedOK, Autocommit
<1>5. Truthful'
  BY <1>3
  DEF Truthful, FlagsTruthful, SavepointsMirrorSqlite, FinishEndsOwnTransaction
<1>6. OpenTransactionIsKnown'
  BY <1>2 DEF OpenTransactionIsKnown, Autocommit
<1>7. InnerOK'
  BY <1>2, <1>4, EmptyStackInner DEF RestOK
<1> QED
  BY <1>2, <1>4, <1>5, <1>6, <1>7, <1>m DEF IInv

-----------------------------------------------------------------------------
(* The invariant. *)

LEMMA InitIInv == Init => IInv
<1> SUFFICES ASSUME Init PROVE IInv
  OBVIOUS
<1>1. /\ tx = 0 /\ opened = 0 /\ stack = <<>> /\ savepoints = <<>>
      /\ implicit = FALSE /\ transaction_active = FALSE /\ unnoticed = FALSE
      /\ active_transaction = NoHandle /\ ended = {} /\ mixed = FALSE
      /\ handle = [h \in Handles |-> NoTransaction]
  BY DEF Init
<1>2. 0 \in Txs /\ stack \in Seq(Names) /\ Len(savepoints) <= MaxDepth
      /\ Len(stack) = 0
  BY <1>1, MaxTxAssumption, MaxDepthAssumption DEF Txs
<1>3. NoTransaction \in Handle /\ ~NoTransaction.active /\ NoTransaction.began = 0
  BY <1>2 DEF NoTransaction, Handle
<1>4. SqliteOK
  <2>1. tx <= opened
    BY <1>1
  <2> QED
    BY <1>1, <1>2, <2>1, Zenon DEF SqliteOK
<1>5. RestOK
  <2>1. /\ handle \in [Handles -> Handle]
        /\ \A h \in Handles : handle[h].began <= opened
    BY <1>1, <1>3
  <2> QED
    BY <1>1, <1>2, <2>1, Zenon DEF RestOK
<1>6. Truthful
  <2>1. \A h \in Handles : ~handle[h].active
    BY <1>1, <1>3
  <2>2. FlagsTruthful
    BY <1>1, <2>1 DEF FlagsTruthful, Autocommit
  <2> QED
    BY <1>1, <2>2 DEF Truthful, SavepointsMirrorSqlite, FinishEndsOwnTransaction
<1>7. OpenTransactionIsKnown /\ InnerOK
  BY <1>1, <1>2 DEF OpenTransactionIsKnown, InnerOK, Autocommit
<1> QED
  BY <1>1, <1>4, <1>5, <1>6, <1>7 DEF IInv, MixedOK

LEMMA NextIInv == IInv /\ [Next]_vars => IInv'
<1> SUFFICES ASSUME IInv, [Next]_vars PROVE IInv'
  OBVIOUS
<1>1. CASE UNCHANGED vars
  BY <1>1, StutterKeeps
<1>2. ASSUME NEW h \in Handles, Begin(h) PROVE IInv'
  BY <1>2, BeginKeeps
<1>3. ASSUME NEW h \in Handles, CommitOrRollback(h) PROVE IInv'
  BY <1>3, FinishKeeps DEF CommitOrRollback
<1>4. ASSUME NEW h \in Handles, FinishStaysOpen(h) PROVE IInv'
  BY <1>4, KeepOpenKeeps
<1>5. ASSUME NEW h \in Handles, Destroy(h) PROVE IInv'
  BY <1>5, FinishKeeps, DestroyKeeps, StaysOpenChangesNothing DEF Destroy
<1>6. ASSUME NEW n \in Names, SavepointBegin(n) PROVE IInv'
  BY <1>6, SavepointBeginKeeps
<1>7. ASSUME NEW n \in Names, SavepointReleaseOrRollback(n) PROVE IInv'
  BY <1>7, SavepointEndKeeps
<1>8. ASSUME NEW command \in RawCommands, Exec(command) PROVE IInv'
  BY <1>8, ExecKeeps
<1>9. CASE StoreMutation
  BY <1>9, StoreMutationKeeps
<1>10. CASE InternalStatementRollsBack
  BY <1>10, UnnoticedRollbackKeeps
<1>11. ASSUME NEW n \in Names, SavepointRollbackFails(n) PROVE IInv'
  BY <1>11, SavepointRollbackFailsKeeps
<1>12. ASSUME NEW command \in RawCommands, NEW n \in Names, ExecSavepoint(command, n)
       PROVE  IInv'
  BY <1>12, ExecSavepointKeeps
<1> QED
  BY <1>11, <1>12, <1>1, <1>2, <1>3, <1>4, <1>5, <1>6, <1>7, <1>8, <1>9, <1>10 DEF Next

LEMMA IInvAlways == Spec => []IInv
BY InitIInv, NextIInv, PTL DEF Spec

LEMMA SuffixOK ==
    ASSUME NEW S, NEW s \in Seq(S), NEW m \in Nat, m > 0, m <= Len(s) + 1
    PROVE  /\ SubSeq(s, m, Len(s)) \in Seq(S)
           /\ Len(SubSeq(s, m, Len(s))) = Len(s) - m + 1
           /\ \A i \in 1..(Len(s) - m + 1) :
                 SubSeq(s, m, Len(s))[i] = s[m + i - 1]
OBVIOUS

LEMMA InnerNames ==
    ASSUME TypeOK, InnerOK
    PROVE  StackIsInnerNames
<1> SUFFICES ASSUME ~mixed PROVE StackIsInnerNames
  BY DEF StackIsInnerNames
<1> DEFINE m == Len(savepoints) - Len(stack) + 1
           s == SubSeq(savepoints, m, Len(savepoints))
<1>1. /\ stack \in Seq(Names) /\ savepoints \in Seq(Names)
      /\ Len(stack) \in Nat /\ Len(savepoints) \in Nat
      /\ Len(stack) <= Len(savepoints)
  BY DEF TypeOK, InnerOK
<1>2. m \in Nat /\ m > 0 /\ m <= Len(savepoints) + 1
  BY <1>1
<1>3. /\ s \in Seq(Names)
      /\ Len(s) = Len(savepoints) - m + 1
      /\ \A i \in 1..(Len(savepoints) - m + 1) : s[i] = savepoints[m + i - 1]
  <2> HIDE DEF m
  <2> QED
    BY <1>1, <1>2, SuffixOK
<1>4. Len(s) = Len(stack) /\ Len(savepoints) - m + 1 = Len(stack)
  BY <1>1, <1>3
<1>5. \A i \in 1..Len(stack) : stack[i] = s[i]
  <2> SUFFICES ASSUME NEW i \in 1..Len(stack) PROVE stack[i] = s[i]
    OBVIOUS
  <2>1. m + i - 1 = Len(savepoints) - Len(stack) + i
    BY <1>1
  <2>2. s[i] = savepoints[m + i - 1]
    BY <1>3, <1>4
  <2> HIDE DEF s, m
  <2> QED
    BY <2>1, <2>2 DEF InnerOK
<1>6. stack = s
  <2> HIDE DEF s
  <2> QED
    BY <1>1, <1>3, <1>4, <1>5, SeqEqual
<1> QED
  BY <1>1, <1>6 DEF StackIsInnerNames

(* TypeOK: in particular savepoint_depth never passes the end of           *)
(* esdb_database::savepoints, whatever SQL runs in between.                *)
THEOREM TransactionTypes == Spec => []TypeOK
<1>1. IInv => TypeOK
  BY DEF IInv, SqliteOK, RestOK, MixedOK, TypeOK, Handle
<1> QED
  BY <1>1, IInvAlways, PTL

(* BookkeepingTruthful: as long as no transaction ends where nobody looks, *)
(* transaction_active, the handles and the savepoint names are SQLite's    *)
(* own state, and esdb_commit, esdb_rollback and esdb_transaction_destroy  *)
(* end the transaction their handle began.                                 *)
THEOREM BookkeepingStaysTruthful == Spec => []BookkeepingTruthful
<1>1. IInv => BookkeepingTruthful
  BY DEF IInv, Truthful, BookkeepingTruthful
<1> QED
  BY <1>1, IInvAlways, PTL

(* StaleBookkeepingIsSafe: even after that no open transaction is hidden   *)
(* from esdb_begin, and the name on top of the array is the innermost      *)
(* savepoint's.                                                            *)
THEOREM StaleIsSafe == Spec => []StaleBookkeepingIsSafe
<1>1. IInv => StaleBookkeepingIsSafe
  BY InnerNames DEF IInv, SqliteOK, RestOK, MixedOK, TypeOK, Handle,
     StaleBookkeepingIsSafe
<1> QED
  BY <1>1, IInvAlways, PTL

(* A handle that esdb_commit, esdb_rollback or raw SQL has made inactive   *)
(* stays so until it is destroyed: no later transaction revives it.        *)
THEOREM HandleNeverRevives ==
    Spec => [][\A h \in Handles :
                  handle[h].allocated /\ ~handle[h].active => ~handle'[h].active]_vars
<1> DEFINE P == \A h \in Handles :
                  handle[h].allocated /\ ~handle[h].active => ~handle'[h].active
<1>1. IInv /\ [Next]_vars => [P]_vars
  <2> SUFFICES ASSUME IInv, Next, NEW h \in Handles,
                      handle[h].allocated, ~handle[h].active
               PROVE  ~handle'[h].active
    BY DEF P
  <2>1. handle \in [Handles -> Handle]
    BY DEF IInv, RestOK
  <2>2. ASSUME NEW g \in Handles, Begin(g) PROVE ~handle'[h].active
    BY <2>1, <2>2 DEF Begin
  <2>3. ASSUME NEW g \in Handles, NEW freed \in BOOLEAN, Finish(g, freed)
        PROVE  ~handle'[h].active
    BY <2>1, <2>3 DEF Finish, NoTransaction, Handle
  <2>4. ASSUME NEW g \in Handles, handle' = [handle EXCEPT ![g] = NoTransaction]
        PROVE  ~handle'[h].active
    BY <2>1, <2>4 DEF NoTransaction
  <2>5. ASSUME NEW g \in Handles, Destroy(g) PROVE ~handle'[h].active
    BY <2>3, <2>4, <2>5 DEF Destroy
  <2>6. ASSUME Sync PROVE ~handle'[h].active
    <3>1. Sync
      BY <2>6
    <3>2. CASE tx' = 0
      <4>1. handle'[h] = IF h = active_transaction
                         THEN [handle[h] EXCEPT !.active = FALSE]
                         ELSE handle[h]
        BY <3>1, <3>2 DEF Sync
      <4> QED
        BY <2>1, <4>1 DEF Handle
    <3>3. CASE tx' # 0
      BY <3>1, <3>3 DEF Sync
    <3> QED
      BY <3>2, <3>3
  <2>7. CASE handle' = handle
    BY <2>7
  <2> QED
    BY <2>2, <2>3, <2>5, <2>6, <2>7
    DEF Next, CommitOrRollback, FinishStaysOpen, SavepointBegin,
        SavepointReleaseOrRollback, SavepointRollbackFails, Exec, ExecSavepoint,
        StoreMutation, InternalStatementRollsBack
<1> QED
  BY <1>1, IInvAlways, PTL DEF Spec
=============================================================================
