-------------------------- MODULE ObjectStoreProofs --------------------------
(***************************************************************************)
(* Proofs about ObjectStore for every set of connections, stores and keys  *)
(* and every revision domain.                                              *)
(*                                                                         *)
(* TypeOK is not inductive: the change row a mutation inserts is built     *)
(* from the locals of the call, so the invariant must say what these are   *)
(* at every step (CallInv).  RevisionMetadataCoherent needs to know which  *)
(* images may be incoherent at which step: only the one of a transaction   *)
(* between its change row and its metadata row, and then the locals say    *)
(* what is missing (ImagesOK); that in turn needs what a scope holds       *)
(* (ScopeOK).  AckedIsDurable needs to know which of the active handles    *)
(* began the open transaction (OwnerInv).                                  *)
(***************************************************************************)
EXTENDS ObjectStoreRefinement, FiniteSetTheorems, SequenceTheorems, TLAPS

(* The SQLite part and the rest of TypeOK. *)
SqliteOK ==
    /\ disk \in Image
    /\ writer \in Conns \cup {NoConn}
    /\ auto \in [Conns -> BOOLEAN]
    /\ lock \in [Conns -> {"none", "read", "write"}]
    /\ view \in [Conns -> Image]
    /\ save \in [Conns -> Image]

CallerOK ==
    /\ outer \in [Conns -> SUBSET Handles]
    /\ owner \in [Conns -> Handles \cup {NoHandle}]
    /\ active \in [Conns -> BOOLEAN]
    /\ ready \in [Conns -> BOOLEAN]
    /\ promised \in [Conns -> SUBSET Change]
    /\ acked \in SUBSET Change
    /\ dropped \in [Conns -> SUBSET Handles]
    /\ misled \in BOOLEAN

RestOK == CallerOK /\ call \in [Conns -> Call]

(* What the locals of a call are at its steps. *)
MutationSteps == {"begin", "register", "remove", "change", "record", "meta",
                  "commit"}

CallOK(k) ==
    /\ k \in Call
    /\ k.pc # "idle" => k.at \in Places
    /\ k.pc \in MutationSteps => k.kind \in {"put", "delete"}
    /\ k.pc = "lookup" => k.kind \in {"delete", "ensure"}
    /\ k.changed => k.rev \in Revisions /\ k.pc \in {"record", "meta", "commit"}
    /\ k.pc \in {"record", "meta"} => k.changed

CallInv == \A c \in Conns : CallOK(call[c])

TypeInv == SqliteOK /\ RestOK /\ CallInv

(* What a mutation scope holds. *)
ScopeOK(c) ==
    /\ auto[c] => lock[c] = "none"
    /\ call[c].pc \in ScopeSteps => ~auto[c]
    /\ call[c].owns => lock[c] = "write" /\ call[c].pc \in ScopeSteps

(* Which images are coherent, and what an incoherent one lacks. *)
ImagesOK(c) ==
    /\ lock[c] # "none" /\ call[c].pc \notin {"record", "meta"}
          => Coherent(view[c])
    /\ call[c].pc \in {"record", "meta"}
          => lock[c] = "write" /\ view[c].seq = call[c].rev
    /\ call[c].pc \in ScopeSteps /\ ~call[c].owns => Coherent(save[c])

CoherenceInv ==
    /\ Coherent(disk)
    /\ \A c \in Conns : ScopeOK(c) /\ ImagesOK(c)

-----------------------------------------------------------------------------
(* The image operations. *)

LEMMA EmptyImageOK == EmptyImage \in Image
BY MaxRevisionAssumption DEF EmptyImage, Image

LEMMA RegisterStoreOK ==
    ASSUME NEW d \in Image, NEW s \in Stores
    PROVE  RegisterStore(d, s) \in Image
BY DEF RegisterStore, Image

LEMMA PruneChangesOK ==
    ASSUME NEW d \in Image, NEW r
    PROVE  PruneChanges(d, r) \in Image
BY DEF PruneChanges, Image

LEMMA CreateSchemaOK ==
    ASSUME NEW d \in Image
    PROVE  CreateSchema(d) \in Image
BY DEF CreateSchema, Image

LEMMA RecordOK ==
    ASSUME NEW d \in Image, NEW at \in Places, NEW r \in 0..MaxRevision
    PROVE  /\ UpsertRecord(d, at, r) \in Image
           /\ DeleteRecord(d, at) \in Image
BY MaxRevisionAssumption DEF UpsertRecord, DeleteRecord, Image

LEMMA SetStoreRevisionOK ==
    ASSUME NEW d \in Image, NEW r \in 0..MaxRevision
    PROVE  SetStoreRevision(d, r) \in Image
BY DEF SetStoreRevision, Image

LEMMA InsertChangeOK ==
    ASSUME NEW d \in Image, NEW at \in Places, NEW o \in {"put", "delete"},
           d.seq < MaxRevision
    PROVE  /\ InsertChange(d, at, o) \in Image
           /\ InsertChange(d, at, o).seq = d.seq + 1
           /\ d.seq + 1 \in Revisions
<1>1. d.seq + 1 \in Revisions
  BY MaxRevisionAssumption DEF Image, Revisions
<1>2. ChangeRow(d, at, o) \in Change
  BY <1>1 DEF ChangeRow, Change
<1>3. d.seq + 1 \in 0..MaxRevision
  BY <1>1 DEF Revisions
<1>4. InsertChange(d, at, o) \in Image
  BY <1>2, <1>3 DEF InsertChange, Image
<1> QED
  BY <1>1, <1>4 DEF InsertChange, Image

-----------------------------------------------------------------------------
(* The SQLite operations keep SqliteOK. *)

LEMMA VisibleOK ==
    ASSUME SqliteOK, NEW c \in Conns
    PROVE  Visible(c) \in Image
BY DEF SqliteOK, Visible

LEMMA ReadStatementOK ==
    ASSUME SqliteOK, NEW c \in Conns, ReadStatement(c)
    PROVE  SqliteOK'
BY DEF SqliteOK, ReadStatement

LEMMA WriteStatementOK ==
    ASSUME SqliteOK, NEW c \in Conns, NEW d \in Image, WriteStatement(c, d)
    PROVE  SqliteOK'
BY DEF SqliteOK, WriteStatement

LEMMA EndTransactionOK ==
    ASSUME SqliteOK, NEW c \in Conns, disk' \in Image, EndTransaction(c)
    PROVE  SqliteOK'
BY EmptyImageOK DEF SqliteOK, EndTransaction

LEMMA CommitImageOK ==
    ASSUME SqliteOK, NEW c \in Conns, CommitImage(c)
    PROVE  SqliteOK'
<1>1. disk' \in Image
  BY DEF SqliteOK, CommitImage
<1> QED
  BY <1>1, EndTransactionOK DEF CommitImage

LEMMA DiscardImageOK ==
    ASSUME SqliteOK, NEW c \in Conns, DiscardImage(c)
    PROVE  SqliteOK'
<1>1. disk' \in Image
  BY DEF SqliteOK, DiscardImage
<1> QED
  BY <1>1, EndTransactionOK DEF DiscardImage

LEMMA BeginImmediateOK ==
    ASSUME SqliteOK, NEW c \in Conns, BeginImmediate(c)
    PROVE  SqliteOK'
BY DEF SqliteOK, BeginImmediate

LEMMA EndScopeOK ==
    ASSUME SqliteOK, NEW c \in Conns, EndScope(c)
    PROVE  SqliteOK'
<1>1. CASE call[c].owns
  BY <1>1, CommitImageOK DEF EndScope
<1>2. CASE ~call[c].owns
  BY <1>2, EmptyImageOK DEF EndScope, SqliteOK
<1> QED
  BY <1>1, <1>2

LEMMA UndoScopeOK ==
    ASSUME SqliteOK, NEW c \in Conns, UndoScope(c)
    PROVE  SqliteOK'
<1>1. CASE call[c].owns
  BY <1>1, DiscardImageOK DEF UndoScope
<1>2. CASE ~call[c].owns
  BY <1>2, EmptyImageOK DEF UndoScope, SqliteOK
<1> QED
  BY <1>1, <1>2

LEMMA BeginStoreMutationOK ==
    ASSUME SqliteOK, NEW c \in Conns, NEW step, BeginStoreMutation(c, step)
    PROVE  SqliteOK'
<1>1. CASE auto[c]
  BY <1>1, BeginImmediateOK DEF BeginStoreMutation
<1>2. CASE ~auto[c]
  BY <1>2, VisibleOK DEF BeginStoreMutation, SqliteOK
<1> QED
  BY <1>1, <1>2

-----------------------------------------------------------------------------
(* The calls in flight keep CallOK. *)

LEMMA IdleCallOK == CallOK(IdleCall)
BY MaxRevisionAssumption
DEF CallOK, IdleCall, Call, Kinds, NoPlace, MutationSteps

(* Replacing one call by a good one. *)
LEMMA CallUpdateOK ==
    ASSUME CallInv, call \in [Conns -> Call], NEW c \in Conns, NEW k, CallOK(k),
           call' = [call EXCEPT ![c] = k]
    PROVE  call' \in [Conns -> Call] /\ CallInv'
<1>1. k \in Call
  BY DEF CallOK
<1>2. call' \in [Conns -> Call]
  BY <1>1
<1>3. ASSUME NEW b \in Conns PROVE CallOK(call'[b])
  BY <1>3 DEF CallInv
<1>4. CallInv'
  BY <1>3 DEF CallInv
<1> QED
  BY <1>2, <1>4

LEMMA ReturnOK ==
    ASSUME CallInv, call \in [Conns -> Call], NEW c \in Conns, Return(c)
    PROVE  call' \in [Conns -> Call] /\ CallInv'
BY IdleCallOK, CallUpdateOK DEF Return

(* Moving a call to a step that asks nothing more of its locals. *)
LEMMA GotoOK ==
    ASSUME CallInv, call \in [Conns -> Call], NEW c \in Conns,
           NEW step, step \in SchemaSteps \cup BodySteps,
           call[c].pc # "idle",
           step \in MutationSteps => call[c].kind \in {"put", "delete"},
           step = "lookup" => call[c].kind \in {"delete", "ensure"},
           call[c].changed => step \in {"record", "meta", "commit"},
           step \in {"record", "meta"} => call[c].changed,
           Goto(c, step)
    PROVE  call' \in [Conns -> Call] /\ CallInv'
<1> DEFINE k == [call[c] EXCEPT !.pc = step]
<1>1. CallOK(call[c]) /\ call[c] \in Call
  BY DEF CallInv
<1>2. k \in Call /\ k.pc = step /\ k.kind = call[c].kind /\ k.at = call[c].at
      /\ k.rev = call[c].rev /\ k.changed = call[c].changed
  BY <1>1 DEF Call
<1>3. CallOK(k)
  BY <1>1, <1>2 DEF CallOK, SchemaSteps, BodySteps
<1>4. call' = [call EXCEPT ![c] = k]
  BY DEF Goto
<1> QED
  BY <1>3, <1>4, CallUpdateOK

(* The same, for the steps that begin or end a scope. *)
LEMMA GotoScopeOK ==
    ASSUME CallInv, call \in [Conns -> Call], NEW c \in Conns,
           NEW step, step \in SchemaSteps \cup {"register", "remove"},
           NEW b \in BOOLEAN, call[c].pc # "idle", ~call[c].changed,
           step \in MutationSteps => call[c].kind \in {"put", "delete"},
           call' = [call EXCEPT ![c].pc = step, ![c].owns = b]
    PROVE  call' \in [Conns -> Call] /\ CallInv'
<1> DEFINE k == [call[c] EXCEPT !.pc = step, !.owns = b]
<1>1. CallOK(call[c]) /\ call[c] \in Call
  BY DEF CallInv
<1>2. k \in Call /\ k.pc = step /\ k.kind = call[c].kind /\ k.at = call[c].at
      /\ k.changed = call[c].changed
  BY <1>1 DEF Call, BodySteps
<1>3. CallOK(k)
  BY <1>1, <1>2 DEF CallOK, SchemaSteps
<1>4. call' = [call EXCEPT ![c] = k]
  OBVIOUS
<1> QED
  BY <1>3, <1>4, CallUpdateOK

-----------------------------------------------------------------------------
(* Every action keeps TypeInv. *)

(* The caller's transactions leave the calls alone. *)
LEMMA CallerTypes ==
    ASSUME TypeInv, NEW c \in Conns,
           NEW h \in Handles,
           \/ \E mode \in {"deferred", "immediate"} : CallerBegin(c, h, mode)
           \/ CallerCommit(c, h)
           \/ CallerRollback(c, h)
    PROVE  TypeInv'
<1>1. ASSUME NEW mode \in {"deferred", "immediate"}, CallerBegin(c, h, mode)
      PROVE  TypeInv'
  <2>1. SqliteOK'
    <3>1. CASE BeginImmediate(c)
      BY <3>1, BeginImmediateOK DEF TypeInv
    <3>2. CASE ~BeginImmediate(c)
      BY <1>1, <3>2 DEF CallerBegin, TypeInv, SqliteOK
    <3> QED
      BY <3>1, <3>2
  <2>2. RestOK'
    BY <1>1 DEF CallerBegin, TypeInv, RestOK, CallerOK
  <2>3. CallInv'
    BY <1>1 DEF CallerBegin, TypeInv, CallInv
  <2> QED
    BY <2>1, <2>2, <2>3 DEF TypeInv
<1>2. CASE CallerCommit(c, h)
  <2>1. SqliteOK'
    BY <1>2, CommitImageOK DEF CallerCommit, TypeInv
  <2>2. RestOK'
    BY <1>2 DEF CallerCommit, Finished, Misleads, Owning, TypeInv, RestOK, CallerOK
  <2>3. CallInv'
    BY <1>2 DEF CallerCommit, Finished, TypeInv, CallInv
  <2> QED
    BY <2>1, <2>2, <2>3 DEF TypeInv
<1>3. CASE CallerRollback(c, h)
  <2>1. SqliteOK'
    BY <1>3, DiscardImageOK DEF CallerRollback, TypeInv
  <2>2. RestOK'
    BY <1>3 DEF CallerRollback, Finished, Owning, TypeInv, RestOK, CallerOK
  <2>3. CallInv'
    BY <1>3 DEF CallerRollback, Finished, TypeInv, CallInv
  <2> QED
    BY <2>1, <2>2, <2>3 DEF TypeInv
<1> QED
  BY <1>1, <1>2, <1>3

(* A step of a call that leaves the caller's state alone is good when it   *)
(* is good for SQLite and for the call.                                    *)
LEMMA CombineTypes ==
    ASSUME TypeInv, SqliteOK', call' \in [Conns -> Call], CallInv', CallerOK'
    PROVE  TypeInv'
BY DEF TypeInv, RestOK

LEMMA FailureTypes ==
    ASSUME TypeInv, NEW c \in Conns,
           CrashAndReopen(c) \/ StatementFails(c) \/ SqliteRollsBack(c)
    PROVE  TypeInv'
<1>1. Return(c)
  BY DEF CrashAndReopen, StatementFails, SqliteRollsBack, Return
<1>2. call' \in [Conns -> Call] /\ CallInv'
  BY <1>1, ReturnOK DEF TypeInv, RestOK
<1>3. SqliteOK'
  <2>1. CASE CrashAndReopen(c) \/ SqliteRollsBack(c)
    BY <2>1, DiscardImageOK DEF CrashAndReopen, SqliteRollsBack, TypeInv
  <2>2. CASE StatementFails(c)
    <3>1. CASE call[c].pc \in ScopeSteps
      BY <2>2, <3>1, UndoScopeOK DEF StatementFails, TypeInv
    <3>2. CASE call[c].pc \notin ScopeSteps
      BY <2>2, <3>2 DEF StatementFails, TypeInv, SqliteOK, sqlite
    <3> QED
      BY <3>1, <3>2
  <2> QED
    BY <2>1, <2>2
<1>4. CallerOK'
  <2>1. CASE CrashAndReopen(c)
    BY <2>1 DEF CrashAndReopen, TypeInv, RestOK, CallerOK
  <2>2. CASE StatementFails(c)
    <3>1. active' = active \/ active' = [active EXCEPT ![c] = FALSE]
      BY <2>2 DEF StatementFails, UndoScope
    <3> QED
      BY <2>2, <3>1
      DEF StatementFails, handles, ghosts, TypeInv, RestOK, CallerOK
  <2>3. CASE SqliteRollsBack(c)
    <3>1. \E b \in BOOLEAN : active' = [active EXCEPT ![c] = b]
      BY <2>3 DEF SqliteRollsBack
    <3>2. dropped[c] \cup Owning(c) \subseteq Handles
      BY DEF Owning, TypeInv, RestOK, CallerOK
    <3> QED
      BY <2>3, <3>1, <3>2 DEF SqliteRollsBack, TypeInv, RestOK, CallerOK
  <2> QED
    BY <2>1, <2>2, <2>3
<1> QED
  BY <1>2, <1>3, <1>4, CombineTypes

LEMMA StartTypes ==
    ASSUME TypeInv, NEW c \in Conns, StartCall(c)
    PROVE  TypeInv'
<1>1. PICK kind \in Kinds, at \in Places, r \in 0..MaxRevision :
        Start(c, kind, at, r)
  BY MaxRevisionAssumption DEF StartCall, Kinds, Revisions
<1> DEFINE step == IF ready[c] THEN FirstStep(kind) ELSE "inspect"
           k == [IdleCall EXCEPT !.pc = step, !.kind = kind, !.at = at, !.rev = r]
<1>2. /\ step \in {"inspect", "begin", "lookup", "prune", "read"}
      /\ step = "begin" => kind = "put"
      /\ step = "lookup" => kind \in {"delete", "ensure"}
  BY DEF FirstStep, Kinds
<1> HIDE DEF step
<1>3. /\ k \in Call
      /\ k.pc = step /\ k.kind = kind /\ k.at = at /\ ~k.changed
  BY <1>2, IdleCallOK DEF CallOK, IdleCall, Call, SchemaSteps, BodySteps
<1>4. CallOK(k)
  BY <1>2, <1>3 DEF CallOK, MutationSteps
<1>5. call' = [call EXCEPT ![c] = k]
  BY <1>1 DEF Start, step
<1>6. call' \in [Conns -> Call] /\ CallInv'
  BY <1>4, <1>5, CallUpdateOK DEF TypeInv, RestOK
<1>7. SqliteOK'
  BY <1>1 DEF Start, sqlite, TypeInv, SqliteOK
<1>8. CallerOK'
  BY <1>1 DEF Start, handles, ghosts, TypeInv, RestOK, CallerOK
<1> QED
  BY <1>6, <1>7, <1>8, CombineTypes

(* A step of a call: the caller's handle and the ghosts keep their types,  *)
(* and the call's locals are the ones its step promises.                   *)
LEMMA CallStepFrame ==
    ASSUME TypeInv, NEW c \in Conns, CallStep(c), ~MutationCommit(c)
    PROVE  CallerOK'
<1>1. UNCHANGED <<handles, ghosts>>
  BY DEF CallStep, SchemaStep, BodyStep, Inspect, SchemaBegin, SchemaCreate,
         SchemaCommit, Verify, ReadRows, LookupStore, EnsureStore, PruneRows,
         MutationBegin, RegisterForPut, RemoveRow, AppendChange, UpsertRow,
         StoreRevision, BeginStoreMutation
<1>2. ready' = ready \/ ready' = [ready EXCEPT ![c] = TRUE]
  BY DEF CallStep, SchemaStep, BodyStep, Inspect, SchemaBegin, SchemaCreate,
         SchemaCommit, Verify, ReadRows, LookupStore, EnsureStore, PruneRows,
         MutationBegin, RegisterForPut, RemoveRow, AppendChange, UpsertRow,
         StoreRevision, BeginStoreMutation
<1>3. active' = active \/ \E b \in BOOLEAN : active' = [active EXCEPT ![c] = b]
  BY DEF CallStep, SchemaStep, BodyStep, Inspect, SchemaBegin, SchemaCreate,
         SchemaCommit, Verify, ReadRows, LookupStore, EnsureStore, PruneRows,
         MutationBegin, RegisterForPut, RemoveRow, AppendChange, UpsertRow,
         StoreRevision, BeginStoreMutation, EndScope, TypeInv, RestOK, CallerOK,
         SqliteOK
<1> QED
  BY <1>1, <1>2, <1>3 DEF handles, ghosts, TypeInv, RestOK, CallerOK

LEMMA Locals ==
    ASSUME TypeInv, NEW c \in Conns
    PROVE  CallOK(call[c]) /\ call[c] \in Call /\ Visible(c) \in Image
BY VisibleOK DEF TypeInv, RestOK, CallInv

LEMMA SchemaTypes ==
    ASSUME TypeInv, NEW c \in Conns, SchemaStep(c)
    PROVE  TypeInv'
<1> USE DEF At
<1>a. SqliteOK /\ CallInv /\ call \in [Conns -> Call] /\ auto \in [Conns -> BOOLEAN]
  BY DEF TypeInv, RestOK, SqliteOK
<1>b. CallOK(call[c]) /\ call[c] \in Call /\ Visible(c) \in Image
  BY Locals
<1>1. CASE Inspect(c)
  <2>1. SqliteOK'
    BY <1>1, <1>a, ReadStatementOK DEF Inspect
  <2>2. call' \in [Conns -> Call] /\ CallInv'
    BY <1>1, <1>a, <1>b, GotoOK
    DEF Inspect, CallOK, MutationSteps, SchemaSteps
  <2> QED
    BY <1>1, <2>1, <2>2, CallStepFrame, CombineTypes DEF CallStep, Inspect, MutationCommit
<1>2. CASE SchemaBegin(c)
  <2>1. SqliteOK'
    BY <1>2, <1>a, BeginStoreMutationOK DEF SchemaBegin
  <2>2. call' \in [Conns -> Call] /\ CallInv'
    BY <1>2, <1>a, <1>b, GotoScopeOK
    DEF SchemaBegin, BeginStoreMutation, CallOK, MutationSteps, SchemaSteps
  <2> QED
    BY <1>2, <2>1, <2>2, CallStepFrame, CombineTypes
    DEF CallStep, SchemaStep, SchemaBegin, MutationCommit
<1>3. CASE SchemaCreate(c)
  <2>1. SqliteOK'
    BY <1>3, <1>a, <1>b, ReadStatementOK, WriteStatementOK, CreateSchemaOK
    DEF SchemaCreate
  <2>2. call' \in [Conns -> Call] /\ CallInv'
    BY <1>3, <1>a, <1>b, GotoOK
    DEF SchemaCreate, CallOK, MutationSteps, SchemaSteps
  <2> QED
    BY <1>3, <2>1, <2>2, CallStepFrame, CombineTypes
    DEF CallStep, SchemaCreate, MutationCommit
<1>4. CASE SchemaCommit(c)
  <2>1. SqliteOK'
    BY <1>4, <1>a, EndScopeOK DEF SchemaCommit
  <2>2. call' \in [Conns -> Call] /\ CallInv'
    BY <1>4, <1>a, <1>b, GotoScopeOK
    DEF SchemaCommit, CallOK, MutationSteps, SchemaSteps
  <2> QED
    BY <1>4, <2>1, <2>2, CallStepFrame, CombineTypes
    DEF CallStep, SchemaStep, SchemaCommit, MutationCommit
<1>5. CASE Verify(c)
  <2>1. SqliteOK'
    BY <1>5, <1>a, ReadStatementOK DEF Verify
  <2>2. CASE Coherent(Visible(c))
    <3> DEFINE step == FirstStep(call[c].kind)
    <3>1. call[c].kind \in Kinds
      BY <1>b DEF Call
    <3>2. /\ step \in {"begin", "lookup", "prune", "read"}
          /\ step = "begin" => call[c].kind = "put"
          /\ step = "lookup" => call[c].kind \in {"delete", "ensure"}
      BY <3>1 DEF FirstStep, Kinds
    <3>3. Goto(c, step) /\ call[c].pc = "verify"
      BY <1>5, <2>2 DEF Verify
    <3> HIDE DEF step
    <3>4. call' \in [Conns -> Call] /\ CallInv'
      BY <3>2, <3>3, <1>a, <1>b, GotoOK DEF CallOK, MutationSteps, BodySteps
    <3> QED
      BY <1>5, <2>1, <3>4, CallStepFrame, CombineTypes
      DEF CallStep, SchemaStep, Verify, MutationCommit
  <2>3. CASE ~Coherent(Visible(c))
    <3>1. call' \in [Conns -> Call] /\ CallInv'
      BY <1>5, <2>3, <1>a, ReturnOK DEF Verify
    <3> QED
      BY <1>5, <2>1, <3>1, CallStepFrame, CombineTypes
      DEF CallStep, SchemaStep, Verify, MutationCommit
  <2> QED
    BY <2>2, <2>3
<1> QED
  BY <1>1, <1>2, <1>3, <1>4, <1>5 DEF SchemaStep

LEMMA BodyTypes ==
    ASSUME TypeInv, NEW c \in Conns, BodyStep(c)
    PROVE  TypeInv'
<1> USE DEF At
<1>a. SqliteOK /\ CallInv /\ call \in [Conns -> Call] /\ auto \in [Conns -> BOOLEAN]
  BY DEF TypeInv, RestOK, SqliteOK
<1>b. CallOK(call[c]) /\ call[c] \in Call /\ Visible(c) \in Image
  BY Locals
<1>c. call[c].pc # "idle" => call[c].at \in Places /\ call[c].at[1] \in Stores
  BY <1>b DEF CallOK, Places
<1>d. call[c].rev \in 0..MaxRevision /\ call[c].kind \in Kinds
  BY <1>b DEF Call
<1>1. CASE ReadRows(c)
  <2>1. SqliteOK'
    BY <1>1, <1>a, ReadStatementOK DEF ReadRows
  <2>2. call' \in [Conns -> Call] /\ CallInv'
    BY <1>1, <1>a, ReturnOK DEF ReadRows
  <2> QED
    BY <1>1, <2>1, <2>2, CallStepFrame, CombineTypes
    DEF CallStep, BodyStep, ReadRows, Table, MutationCommit
<1>2. CASE LookupStore(c)
  <2>1. SqliteOK'
    BY <1>2, <1>a, ReadStatementOK DEF LookupStore
  <2>2. call' \in [Conns -> Call] /\ CallInv'
    <3>1. CASE Return(c)
      BY <3>1, <1>a, ReturnOK
    <3>2. CASE Goto(c, "begin") /\ call[c].kind = "delete"
      BY <3>2, <1>2, <1>a, <1>b, GotoOK
      DEF LookupStore, Table, CallOK, MutationSteps, BodySteps
    <3>3. CASE Goto(c, "ensure")
      BY <3>3, <1>2, <1>a, <1>b, GotoOK
      DEF LookupStore, Table, CallOK, MutationSteps, BodySteps
    <3> QED
      BY <1>2, <3>1, <3>2, <3>3 DEF LookupStore
  <2> QED
    BY <1>2, <2>1, <2>2, CallStepFrame, CombineTypes
    DEF CallStep, BodyStep, LookupStore, Table, MutationCommit
<1>3. CASE EnsureStore(c)
  <2>1. SqliteOK'
    BY <1>3, <1>a, <1>b, <1>c, WriteStatementOK, RegisterStoreOK
    DEF EnsureStore, Table
  <2>2. call' \in [Conns -> Call] /\ CallInv'
    BY <1>3, <1>a, ReturnOK DEF EnsureStore
  <2> QED
    BY <1>3, <2>1, <2>2, CallStepFrame, CombineTypes
    DEF CallStep, BodyStep, EnsureStore, Table, MutationCommit
<1>4. CASE PruneRows(c)
  <2>1. SqliteOK'
    BY <1>4, <1>a, <1>b, WriteStatementOK, PruneChangesOK DEF PruneRows
  <2>2. call' \in [Conns -> Call] /\ CallInv'
    BY <1>4, <1>a, ReturnOK DEF PruneRows
  <2> QED
    BY <1>4, <2>1, <2>2, CallStepFrame, CombineTypes
    DEF CallStep, BodyStep, PruneRows, Table, MutationCommit
<1>5. CASE MutationBegin(c)
  <2>1. SqliteOK'
    BY <1>5, <1>a, BeginStoreMutationOK DEF MutationBegin
  <2>2. call' \in [Conns -> Call] /\ CallInv'
    BY <1>5, <1>a, <1>b, GotoScopeOK
    DEF MutationBegin, BeginStoreMutation, CallOK, MutationSteps
  <2> QED
    BY <1>5, <2>1, <2>2, CallStepFrame, CombineTypes
    DEF CallStep, BodyStep, MutationBegin, Table, MutationCommit
<1>6. CASE RegisterForPut(c)
  <2>1. SqliteOK'
    BY <1>6, <1>a, <1>b, <1>c, WriteStatementOK, RegisterStoreOK
    DEF RegisterForPut, Table
  <2>2. call' \in [Conns -> Call] /\ CallInv'
    BY <1>6, <1>a, <1>b, GotoOK
    DEF RegisterForPut, Table, CallOK, MutationSteps, BodySteps
  <2> QED
    BY <1>6, <2>1, <2>2, CallStepFrame, CombineTypes
    DEF CallStep, BodyStep, RegisterForPut, Table, MutationCommit
<1>7. CASE RemoveRow(c)
  <2>1. SqliteOK'
    BY <1>7, <1>a, <1>b, <1>c, <1>d, WriteStatementOK, RecordOK
    DEF RemoveRow, Table
  <2>2. call' \in [Conns -> Call] /\ CallInv'
    BY <1>7, <1>a, <1>b, GotoOK, SMTT(60)
    DEF RemoveRow, Table, CallOK, MutationSteps, BodySteps
  <2> QED
    BY <1>7, <2>1, <2>2, CallStepFrame, CombineTypes
    DEF CallStep, BodyStep, RemoveRow, Table, MutationCommit
<1>8. CASE AppendChange(c)
  <2> DEFINE d == InsertChange(Visible(c), call[c].at, call[c].kind)
             step == IF call[c].kind = "put" THEN "record" ELSE "meta"
             k == [call[c] EXCEPT !.rev = d.seq, !.changed = TRUE, !.pc = step]
  <2>1. /\ call[c].pc = "change" /\ Visible(c).seq < MaxRevision
        /\ call[c].kind \in {"put", "delete"}
    BY <1>8, <1>b DEF AppendChange, Table, CallOK, MutationSteps
  <2>2. d \in Image /\ d.seq \in Revisions /\ d.seq \in 0..MaxRevision
    BY <2>1, <1>b, <1>c, InsertChangeOK DEF Revisions
  <2>3. WriteStatement(c, d) /\ call' = [call EXCEPT ![c] = k]
    BY <1>8 DEF AppendChange
  <2> HIDE DEF d
  <2>4. SqliteOK'
    BY <2>2, <2>3, <1>a, WriteStatementOK
  <2>5. /\ k \in Call /\ k.pc = step /\ k.rev = d.seq /\ k.changed
        /\ k.at = call[c].at /\ k.kind = call[c].kind
    BY <2>2, <1>b DEF Call, BodySteps
  <2>6. CallOK(k)
    BY <2>1, <2>2, <2>5, <1>c DEF CallOK, MutationSteps
  <2>7. call' \in [Conns -> Call] /\ CallInv'
    BY <2>3, <2>6, <1>a, CallUpdateOK
  <2> QED
    BY <1>8, <2>4, <2>7, CallStepFrame, CombineTypes
    DEF CallStep, BodyStep, AppendChange, Table, MutationCommit
<1>9. CASE UpsertRow(c)
  <2>1. SqliteOK'
    BY <1>9, <1>a, <1>b, <1>c, <1>d, WriteStatementOK, RecordOK
    DEF UpsertRow, Table
  <2>2. call' \in [Conns -> Call] /\ CallInv'
    BY <1>9, <1>a, <1>b, GotoOK
    DEF UpsertRow, Table, CallOK, MutationSteps, BodySteps
  <2> QED
    BY <1>9, <2>1, <2>2, CallStepFrame, CombineTypes
    DEF CallStep, BodyStep, UpsertRow, Table, MutationCommit
<1>10. CASE StoreRevision(c)
  <2>1. SqliteOK'
    BY <1>10, <1>a, <1>b, <1>d, WriteStatementOK, SetStoreRevisionOK
    DEF StoreRevision
  <2>2. call' \in [Conns -> Call] /\ CallInv'
    BY <1>10, <1>a, <1>b, GotoOK
    DEF StoreRevision, Table, CallOK, MutationSteps, BodySteps
  <2> QED
    BY <1>10, <2>1, <2>2, CallStepFrame, CombineTypes
    DEF CallStep, BodyStep, StoreRevision, Table, MutationCommit
<1>11. CASE MutationCommit(c)
  <2>1. SqliteOK'
    BY <1>11, <1>a, EndScopeOK DEF MutationCommit
  <2>2. call' \in [Conns -> Call] /\ CallInv'
    BY <1>11, <1>a, ReturnOK DEF MutationCommit
  <2>3. Reported(c) \subseteq Change
    BY <1>11, <1>b, <1>c
    DEF MutationCommit, Reported, Change, CallOK, MutationSteps
  <2>4. CallerOK'
    BY <1>11, <2>3
    DEF MutationCommit, EndScope, handles, TypeInv, RestOK, CallerOK
  <2> QED
    BY <2>1, <2>2, <2>4, CombineTypes
<1> QED
  BY <1>1, <1>2, <1>3, <1>4, <1>5, <1>6, <1>7, <1>8, <1>9, <1>10, <1>11
  DEF BodyStep

LEMMA TypeInit == Init => TypeInv
<1> SUFFICES ASSUME Init PROVE TypeInv
  OBVIOUS
<1>1. SqliteOK
  BY EmptyImageOK DEF Init, SqliteOK
<1>2. CallInv /\ call \in [Conns -> Call]
  BY IdleCallOK DEF Init, CallInv, CallOK
<1> QED
  BY <1>1, <1>2 DEF Init, TypeInv, RestOK, CallerOK

LEMMA TypeStep == TypeInv /\ [Next]_vars => TypeInv'
<1> SUFFICES ASSUME TypeInv, [Next]_vars PROVE TypeInv'
  OBVIOUS
<1>1. CASE Next
  <2>1. PICK c \in Conns :
          \/ CallerStep(c) \/ CrashAndReopen(c)
          \/ StartCall(c) \/ CallStep(c)
          \/ StatementFails(c) \/ SqliteRollsBack(c)
    BY <1>1 DEF Next
  <2> QED
    BY <2>1, CallerTypes, FailureTypes, StartTypes, SchemaTypes, BodyTypes
    DEF CallStep, CallerStep
<1>2. CASE UNCHANGED vars
  BY <1>2 DEF vars, TypeInv, SqliteOK, RestOK, CallerOK, CallInv
<1> QED
  BY <1>1, <1>2

(* The types of ObjectStore: in particular every revision the code hands   *)
(* out or stores stays within 1..ESDB_REVISION_MAX (insert_change, whose   *)
(* AUTOINCREMENT insert fails when the domain is used up).                 *)
THEOREM TypeCorrect == Spec => []TypeOK
<1>1. TypeInv => TypeOK
  BY DEF TypeInv, SqliteOK, RestOK, CallerOK, TypeOK
<1> QED
  BY <1>1, TypeInit, TypeStep, PTL DEF Spec

-----------------------------------------------------------------------------
(* The revision metadata stays coherent. *)

LEMMA CoherentOps ==
    ASSUME NEW d \in Image, NEW s, NEW r, NEW at \in Places
    PROVE  /\ Coherent(RegisterStore(d, s)) <=> Coherent(d)
           /\ Coherent(PruneChanges(d, r)) <=> Coherent(d)
           /\ Coherent(CreateSchema(d)) <=> Coherent(d)
           /\ Coherent(DeleteRecord(d, at)) <=> Coherent(d)
           /\ UpsertRecord(d, at, r).seq = d.seq
           /\ Coherent(SetStoreRevision(d, r)) <=> r = d.seq
           /\ InsertChange(d, at, s).seq = d.seq + 1
<1>1. Coherent(RegisterStore(d, s)) <=> Coherent(d)
  BY DEF Coherent, RegisterStore, Image
<1>2. Coherent(PruneChanges(d, r)) <=> Coherent(d)
  BY DEF Coherent, PruneChanges, Image
<1>3. Coherent(CreateSchema(d)) <=> Coherent(d)
  BY DEF Coherent, CreateSchema, Image
<1>4. Coherent(DeleteRecord(d, at)) <=> Coherent(d)
  BY DEF Coherent, DeleteRecord, Image
<1>5. UpsertRecord(d, at, r).seq = d.seq
  BY DEF UpsertRecord, Image
<1>6. Coherent(SetStoreRevision(d, r)) <=> r = d.seq
  BY DEF Coherent, SetStoreRevision, Image
<1>7. InsertChange(d, at, s).seq = d.seq + 1
  BY DEF InsertChange, Image
<1> QED
  BY <1>1, <1>2, <1>3, <1>4, <1>5, <1>6, <1>7

LEMMA EmptyImageCoherent == Coherent(EmptyImage)
BY DEF Coherent, EmptyImage

(* The image a connection works on between two of its scopes' steps. *)
LEMMA VisibleCoherent ==
    ASSUME CoherenceInv, NEW c \in Conns, call[c].pc \notin {"record", "meta"}
    PROVE  Coherent(Visible(c))
BY DEF CoherenceInv, ImagesOK, Visible

(* What the SQLite operations do to the connection that executes them. *)
LEMMA ReadEffect ==
    ASSUME SqliteOK, NEW c \in Conns, ReadStatement(c)
    PROVE  /\ disk' = disk /\ auto'[c] = auto[c]
           /\ lock[c] # "none" => lock'[c] = lock[c] /\ view'[c] = view[c]
                                  /\ save'[c] = save[c]
           /\ lock[c] = "none" /\ auto[c] => lock'[c] = "none" /\ save'[c] = save[c]
           /\ lock[c] = "none" /\ ~auto[c] => view'[c] = disk /\ save'[c] = disk
BY DEF SqliteOK, ReadStatement

LEMMA WriteEffect ==
    ASSUME SqliteOK, NEW c \in Conns, NEW d \in Image, WriteStatement(c, d)
    PROVE  /\ auto'[c] = auto[c]
           /\ auto[c] => disk' = d /\ lock'[c] = lock[c]
                         /\ view'[c] = view[c] /\ save'[c] = save[c]
           /\ ~auto[c] => disk' = disk /\ lock'[c] = "write" /\ view'[c] = d
                          /\ save'[c] = IF lock[c] = "none" THEN disk ELSE save[c]
BY DEF SqliteOK, WriteStatement

LEMMA EndEffect ==
    ASSUME SqliteOK, NEW c \in Conns, EndTransaction(c)
    PROVE  auto'[c] /\ lock'[c] = "none"
BY DEF SqliteOK, EndTransaction

(* A step of c leaves every other connection alone. *)
Others(c) ==
    \A b \in Conns \ {c} :
        /\ auto'[b] = auto[b] /\ lock'[b] = lock[b]
        /\ view'[b] = view[b] /\ save'[b] = save[b]

LEMMA SqliteOthers ==
    ASSUME SqliteOK, NEW c \in Conns,
           \/ UNCHANGED sqlite \/ ReadStatement(c) \/ (\E d \in Image : WriteStatement(c, d))
           \/ EndTransaction(c) \/ BeginImmediate(c)
           \/ (\E d \in Image : /\ save' = [save EXCEPT ![c] = d]
                                /\ UNCHANGED <<auto, lock>>
                                /\ view' = view \/ view' = [view EXCEPT ![c] = save[c]])
    PROVE  Others(c)
<1>1. CASE UNCHANGED sqlite
  BY <1>1 DEF sqlite, Others
<1>2. CASE ReadStatement(c)
  BY <1>2 DEF ReadStatement, SqliteOK, Others
<1>3. ASSUME NEW d \in Image, WriteStatement(c, d) PROVE Others(c)
  BY <1>3 DEF WriteStatement, SqliteOK, Others
<1>4. CASE EndTransaction(c)
  BY <1>4 DEF EndTransaction, SqliteOK, Others
<1>5. CASE BeginImmediate(c)
  BY <1>5 DEF BeginImmediate, SqliteOK, Others
<1>6. ASSUME NEW d \in Image, save' = [save EXCEPT ![c] = d],
             UNCHANGED <<auto, lock>>,
             view' = view \/ view' = [view EXCEPT ![c] = save[c]]
      PROVE  Others(c)
  BY <1>6 DEF SqliteOK, Others
<1> QED
  BY <1>1, <1>2, <1>3, <1>4, <1>5, <1>6

(* Hence an action of c keeps CoherenceInv when it keeps c's share of it. *)
LEMMA CombineCoherence ==
    ASSUME TypeInv, CoherenceInv, NEW c \in Conns, Others(c),
           \A b \in Conns \ {c} : call'[b] = call[b],
           Coherent(disk'), ScopeOK(c)', ImagesOK(c)'
    PROVE  CoherenceInv'
<1>1. ASSUME NEW b \in Conns, b # c PROVE ScopeOK(b)' /\ ImagesOK(b)'
  BY <1>1 DEF Others, CoherenceInv, ScopeOK, ImagesOK
<1>2. ASSUME NEW b \in Conns PROVE ScopeOK(b)' /\ ImagesOK(b)'
  BY <1>1, <1>2
<1> QED
  BY <1>2 DEF CoherenceInv

(* A transaction that ends takes c out of every scope. *)
LEMMA EndCoherence ==
    ASSUME TypeInv, CoherenceInv, NEW c \in Conns, EndTransaction(c),
           Coherent(disk'), \A b \in Conns \ {c} : call'[b] = call[b],
           call'[c].pc \notin ScopeSteps, ~call'[c].owns
    PROVE  CoherenceInv'
<1>1. auto'[c] /\ lock'[c] = "none"
  BY EndEffect DEF TypeInv
<1>2. call'[c].pc \notin {"record", "meta"}
  BY DEF ScopeSteps
<1>3. ScopeOK(c)' /\ ImagesOK(c)'
  BY <1>1, <1>2 DEF ScopeOK, ImagesOK
<1>4. Others(c)
  BY SqliteOthers DEF TypeInv
<1> QED
  BY <1>3, <1>4, CombineCoherence

LEMMA IdleFacts ==
    ASSUME TypeInv, NEW c \in Conns, Return(c)
    PROVE  /\ \A b \in Conns \ {c} : call'[b] = call[b]
           /\ call'[c].pc = "idle" /\ call'[c].owns = FALSE
BY DEF TypeInv, RestOK, Return, IdleCall

LEMMA GotoFacts ==
    ASSUME TypeInv, NEW c \in Conns, NEW step, Goto(c, step)
    PROVE  /\ \A b \in Conns \ {c} : call'[b] = call[b]
           /\ call'[c].pc = step /\ call'[c].owns = call[c].owns
           /\ call'[c].rev = call[c].rev
BY DEF TypeInv, RestOK, Goto, Call

LEMMA CallerCoherence ==
    ASSUME TypeInv, CoherenceInv, NEW c \in Conns,
           NEW h \in Handles,
           \/ \E mode \in {"deferred", "immediate"} : CallerBegin(c, h, mode)
           \/ CallerCommit(c, h)
           \/ CallerRollback(c, h)
    PROVE  CoherenceInv'
<1>1. /\ call' = call /\ call[c].pc = "idle" /\ call[c].pc \notin ScopeSteps
      /\ ~call[c].owns
  BY DEF CallerBegin, CallerCommit, CallerRollback, Finished, At, ScopeSteps,
         CoherenceInv, ScopeOK
<1>2. ASSUME NEW mode \in {"deferred", "immediate"}, CallerBegin(c, h, mode)
      PROVE  CoherenceInv'
  <2>1. CASE BeginImmediate(c)
    <3>1. Others(c)
      BY <2>1, SqliteOthers DEF TypeInv
    <3>2. /\ disk' = disk /\ lock'[c] = "write" /\ view'[c] = disk
          /\ auto'[c] = FALSE
      BY <2>1 DEF BeginImmediate, TypeInv, SqliteOK
    <3>3. ScopeOK(c)' /\ ImagesOK(c)' /\ Coherent(disk')
      BY <1>1, <3>2 DEF ScopeOK, ImagesOK, CoherenceInv
    <3> QED
      BY <1>1, <3>1, <3>3, CombineCoherence
  <2>2. CASE ~BeginImmediate(c)
    <3>1. auto' = [auto EXCEPT ![c] = FALSE] /\ UNCHANGED <<disk, lock, view, save>>
      BY <1>2, <2>2 DEF CallerBegin
    <3>2. Others(c)
      BY <3>1 DEF Others, TypeInv, SqliteOK
    <3>3. ScopeOK(c)' /\ ImagesOK(c)' /\ Coherent(disk')
      BY <1>1, <3>1 DEF ScopeOK, ImagesOK, CoherenceInv
    <3> QED
      BY <1>1, <3>2, <3>3, CombineCoherence
  <2> QED
    BY <2>1, <2>2
<1>3. CASE CallerCommit(c, h)
  <2>1. Coherent(disk')
    BY <1>1, <1>3 DEF CallerCommit, CommitImage, CoherenceInv, ImagesOK
  <2> QED
    BY <1>1, <1>3, <2>1, EndCoherence DEF CallerCommit, CommitImage
<1>4. CASE CallerRollback(c, h)
  <2>1. Coherent(disk')
    BY <1>4 DEF CallerRollback, DiscardImage, CoherenceInv
  <2> QED
    BY <1>1, <1>4, <2>1, EndCoherence DEF CallerRollback, DiscardImage
<1> QED
  BY <1>2, <1>3, <1>4

LEMMA FailureCoherence ==
    ASSUME TypeInv, CoherenceInv, NEW c \in Conns,
           CrashAndReopen(c) \/ StatementFails(c) \/ SqliteRollsBack(c)
    PROVE  CoherenceInv'
<1>1. Return(c)
  BY DEF CrashAndReopen, StatementFails, SqliteRollsBack, Return
<1>2. /\ \A b \in Conns \ {c} : call'[b] = call[b]
      /\ call'[c].pc = "idle" /\ ~call'[c].owns /\ call'[c].pc \notin ScopeSteps
  BY <1>1, IdleFacts DEF ScopeSteps
<1>3. CASE DiscardImage(c)
  <2>1. Coherent(disk')
    BY <1>3 DEF DiscardImage, CoherenceInv
  <2> QED
    BY <1>2, <1>3, <2>1, EndCoherence DEF DiscardImage
<1>4. CASE StatementFails(c) /\ call[c].pc \in ScopeSteps /\ ~call[c].owns
  <2>1. /\ save' = [save EXCEPT ![c] = EmptyImage]
        /\ UNCHANGED <<disk, auto, lock>>
        /\ view' = IF lock[c] = "none" THEN view
                   ELSE [view EXCEPT ![c] = save[c]]
    BY <1>4 DEF StatementFails, UndoScope
  <2>2. Others(c)
    BY <2>1, SqliteOthers, EmptyImageOK DEF TypeInv
  <2>3. Coherent(save[c]) /\ (lock[c] # "none" => view'[c] = save[c])
    BY <1>4, <2>1 DEF CoherenceInv, ImagesOK, TypeInv, SqliteOK
  <2>4. ScopeOK(c)' /\ ImagesOK(c)' /\ Coherent(disk')
    BY <1>2, <2>1, <2>3 DEF ScopeOK, ImagesOK, CoherenceInv
  <2> QED
    BY <1>2, <2>2, <2>4, CombineCoherence
<1>5. CASE StatementFails(c) /\ call[c].pc \notin ScopeSteps
  <2>1. UNCHANGED sqlite /\ call[c].pc \notin {"record", "meta"}
    BY <1>5 DEF StatementFails, ScopeSteps
  <2>2. Others(c)
    BY <2>1, SqliteOthers DEF TypeInv
  <2>3. ScopeOK(c)' /\ ImagesOK(c)' /\ Coherent(disk')
    BY <1>2, <2>1 DEF ScopeOK, ImagesOK, CoherenceInv, sqlite
  <2> QED
    BY <1>2, <2>2, <2>3, CombineCoherence
<1> QED
  BY <1>3, <1>4, <1>5 DEF CrashAndReopen, StatementFails, SqliteRollsBack, UndoScope

(* A step that reads. *)
LEMMA ReadCoherence ==
    ASSUME TypeInv, CoherenceInv, NEW c \in Conns, ReadStatement(c),
           \A b \in Conns \ {c} : call'[b] = call[b],
           call[c].pc \notin {"record", "meta"},
           call'[c].pc \notin {"record", "meta"},
           call'[c].pc \in ScopeSteps <=> call[c].pc \in ScopeSteps,
           call'[c].owns = call[c].owns
    PROVE  CoherenceInv'
<1>1. Others(c)
  BY SqliteOthers DEF TypeInv
<1>2. lock'[c] = lock[c] \/ (~auto[c] /\ lock[c] = "none")
  BY ReadEffect DEF TypeInv, CoherenceInv, ScopeOK
<1>3. ScopeOK(c)'
  BY <1>2, ReadEffect DEF ScopeOK, CoherenceInv, TypeInv
<1>4. ImagesOK(c)'
  BY <1>2, ReadEffect DEF ImagesOK, ScopeOK, CoherenceInv, TypeInv
<1>5. Coherent(disk')
  BY ReadEffect DEF CoherenceInv, TypeInv
<1> QED
  BY <1>1, <1>3, <1>4, <1>5, CombineCoherence

(* A step that writes a coherent image. *)
LEMMA WriteCoherence ==
    ASSUME TypeInv, CoherenceInv, NEW c \in Conns, NEW d \in Image,
           WriteStatement(c, d), Coherent(d),
           \A b \in Conns \ {c} : call'[b] = call[b],
           call'[c].pc \notin {"record", "meta"},
           call'[c].pc \in ScopeSteps <=> call[c].pc \in ScopeSteps,
           call'[c].owns = call[c].owns
    PROVE  CoherenceInv'
<1>1. Others(c)
  BY SqliteOthers DEF TypeInv
<1>2. ScopeOK(c)'
  BY WriteEffect DEF ScopeOK, CoherenceInv, TypeInv
<1>3. ImagesOK(c)'
  BY WriteEffect DEF ImagesOK, ScopeOK, CoherenceInv, TypeInv
<1>4. Coherent(disk')
  BY WriteEffect DEF CoherenceInv, TypeInv
<1> QED
  BY <1>1, <1>2, <1>3, <1>4, CombineCoherence

(* The beginning of a scope. *)
LEMMA BeginCoherence ==
    ASSUME TypeInv, CoherenceInv, NEW c \in Conns,
           NEW step \in ScopeSteps \ {"record", "meta"},
           call[c].pc \notin {"record", "meta"}, BeginStoreMutation(c, step)
    PROVE  CoherenceInv'
<1>1. /\ \A b \in Conns \ {c} : call'[b] = call[b]
      /\ call'[c].pc = step /\ call'[c].owns = auto[c]
  BY DEF BeginStoreMutation, TypeInv, RestOK, Call
<1>2. CASE auto[c]
  <2>1. BeginImmediate(c)
    BY <1>2 DEF BeginStoreMutation
  <2>2. Others(c)
    BY <2>1, SqliteOthers DEF TypeInv
  <2>3. /\ disk' = disk /\ lock'[c] = "write" /\ view'[c] = disk
        /\ auto'[c] = FALSE
    BY <2>1 DEF BeginImmediate, TypeInv, SqliteOK
  <2>4. ScopeOK(c)' /\ ImagesOK(c)' /\ Coherent(disk')
    BY <1>1, <1>2, <2>3 DEF ScopeOK, ImagesOK, CoherenceInv
  <2> QED
    BY <1>1, <2>2, <2>4, CombineCoherence
<1>3. CASE ~auto[c]
  <2>1. /\ save' = [save EXCEPT ![c] = Visible(c)]
        /\ UNCHANGED <<disk, auto, lock, view>>
    BY <1>3 DEF BeginStoreMutation
  <2>2. Others(c)
    BY <2>1, SqliteOthers, VisibleOK DEF TypeInv
  <2>3. Coherent(save'[c])
    BY <2>1, VisibleCoherent DEF TypeInv, SqliteOK
  <2>4. ScopeOK(c)' /\ ImagesOK(c)' /\ Coherent(disk')
    BY <1>1, <1>3, <2>1, <2>3 DEF ScopeOK, ImagesOK, CoherenceInv
  <2> QED
    BY <1>1, <2>2, <2>4, CombineCoherence
<1> QED
  BY <1>2, <1>3

(* The end of a scope. *)
LEMMA EndScopeCoherence ==
    ASSUME TypeInv, CoherenceInv, NEW c \in Conns, EndScope(c),
           call[c].pc \notin {"record", "meta"},
           \A b \in Conns \ {c} : call'[b] = call[b],
           call'[c].pc \notin ScopeSteps, ~call'[c].owns
    PROVE  CoherenceInv'
<1>1. CASE call[c].owns
  <2>1. CommitImage(c)
    BY <1>1 DEF EndScope
  <2>2. Coherent(disk')
    BY <2>1 DEF CommitImage, CoherenceInv, ImagesOK
  <2> QED
    BY <2>1, <2>2, EndCoherence DEF CommitImage
<1>2. CASE ~call[c].owns
  <2>1. /\ save' = [save EXCEPT ![c] = EmptyImage]
        /\ UNCHANGED <<disk, auto, lock, view>>
    BY <1>2 DEF EndScope
  <2>2. Others(c)
    BY <2>1, SqliteOthers, EmptyImageOK DEF TypeInv
  <2>3. ScopeOK(c)' /\ ImagesOK(c)' /\ Coherent(disk')
    BY <2>1 DEF ScopeOK, ImagesOK, CoherenceInv, ScopeSteps
  <2> QED
    BY <2>2, <2>3, CombineCoherence
<1> QED
  BY <1>1, <1>2

LEMMA StartCoherence ==
    ASSUME TypeInv, CoherenceInv, NEW c \in Conns, StartCall(c)
    PROVE  CoherenceInv'
<1>1. PICK kind \in Kinds, at \in Places, r \in 0..MaxRevision :
        Start(c, kind, at, r)
  BY MaxRevisionAssumption DEF StartCall, Kinds, Revisions
<1> DEFINE step == IF ready[c] THEN FirstStep(kind) ELSE "inspect"
<1>2. step \notin ScopeSteps
  BY DEF FirstStep, Kinds, ScopeSteps
<1>3. /\ \A b \in Conns \ {c} : call'[b] = call[b]
      /\ call'[c].pc = step /\ call'[c].owns = FALSE
  BY <1>1 DEF Start, IdleCall, TypeInv, RestOK
<1>4. UNCHANGED sqlite /\ call[c].pc = "idle"
  BY <1>1 DEF Start, At
<1>5. Others(c)
  BY <1>4, SqliteOthers DEF TypeInv
<1> HIDE DEF step
<1>6. ScopeOK(c)' /\ ImagesOK(c)' /\ Coherent(disk')
  BY <1>2, <1>3, <1>4 DEF ScopeOK, ImagesOK, CoherenceInv, sqlite, ScopeSteps
<1> QED
  BY <1>3, <1>5, <1>6, CombineCoherence

LEMMA SchemaCoherence ==
    ASSUME TypeInv, CoherenceInv, NEW c \in Conns, SchemaStep(c)
    PROVE  CoherenceInv'
<1> USE DEF At
<1>a. call[c].pc \notin ScopeSteps => call[c].owns = FALSE
  BY Locals DEF CoherenceInv, ScopeOK, Call
<1>b. Visible(c) \in Image
  BY Locals
<1>1. CASE Inspect(c)
  <2>1. PICK step \in {"verify", "schema_begin"} : Goto(c, step)
    BY <1>1 DEF Inspect
  <2> QED
    BY <1>1, <2>1, GotoFacts, ReadCoherence DEF Inspect, ScopeSteps
<1>2. CASE SchemaBegin(c)
  BY <1>2, BeginCoherence DEF SchemaBegin, ScopeSteps
<1>3. CASE SchemaCreate(c)
  <2>1. Coherent(Visible(c)) /\ Goto(c, "schema_commit") /\ call[c].pc = "schema_create"
    BY <1>3, VisibleCoherent DEF SchemaCreate
  <2>2. CASE ReadStatement(c)
    BY <2>1, <2>2, GotoFacts, ReadCoherence DEF ScopeSteps
  <2>3. CASE WriteStatement(c, CreateSchema(Visible(c)))
    <3>1. Coherent(CreateSchema(Visible(c))) /\ CreateSchema(Visible(c)) \in Image
      BY <1>b, <2>1, CreateSchemaOK DEF Coherent, CreateSchema, Image
    <3> QED
      BY <2>1, <2>3, <3>1, GotoFacts, WriteCoherence DEF ScopeSteps
  <2> QED
    BY <1>3, <2>2, <2>3 DEF SchemaCreate
<1>4. CASE SchemaCommit(c)
  <2>1. /\ \A b \in Conns \ {c} : call'[b] = call[b]
        /\ call'[c].pc = "verify" /\ call'[c].owns = FALSE
    BY <1>4 DEF SchemaCommit, TypeInv, RestOK, Call
  <2> QED
    BY <1>4, <2>1, EndScopeCoherence DEF SchemaCommit, ScopeSteps
<1>5. CASE Verify(c)
  <2>1. Coherent(Visible(c))
    BY <1>5, VisibleCoherent DEF Verify
  <2> DEFINE step == FirstStep(call[c].kind)
  <2>2. step \notin ScopeSteps
    BY Locals DEF FirstStep, Kinds, ScopeSteps, Call
  <2>3. Goto(c, step) /\ ReadStatement(c) /\ call[c].pc = "verify"
    BY <1>5, <2>1 DEF Verify
  <2> HIDE DEF step
  <2> QED
    BY <2>2, <2>3, GotoFacts, ReadCoherence DEF ScopeSteps
<1> QED
  BY <1>1, <1>2, <1>3, <1>4, <1>5 DEF SchemaStep

LEMMA BodyCoherence ==
    ASSUME TypeInv, CoherenceInv, NEW c \in Conns, BodyStep(c)
    PROVE  CoherenceInv'
<1> USE DEF At
<1>a. /\ call[c].pc \notin ScopeSteps => call[c].owns = FALSE
      /\ call[c].pc \in ScopeSteps => ~auto[c]
      /\ call[c].pc # "idle" => call[c].at \in Places /\ call[c].at[1] \in Stores
      /\ call[c].rev \in 0..MaxRevision
  BY Locals DEF CoherenceInv, ScopeOK, Call, CallOK, Places
<1>b. SqliteOK /\ Visible(c) \in Image
  BY Locals DEF TypeInv
<1>1. CASE ReadRows(c)
  BY <1>1, <1>a, IdleFacts, ReadCoherence DEF ReadRows, Table, ScopeSteps
<1>2. CASE LookupStore(c)
  <2>1. call[c].pc = "lookup" /\ ReadStatement(c)
    BY <1>2 DEF LookupStore, Table
  <2>2. CASE Return(c)
    BY <2>1, <2>2, <1>a, IdleFacts, ReadCoherence DEF ScopeSteps
  <2>3. ASSUME NEW step \in {"begin", "ensure"}, Goto(c, step)
        PROVE  CoherenceInv'
    BY <2>1, <2>3, <1>a, GotoFacts, ReadCoherence DEF ScopeSteps
  <2> QED
    BY <1>2, <2>2, <2>3 DEF LookupStore
<1>3. CASE EnsureStore(c)
  <2> DEFINE d == RegisterStore(Visible(c), call[c].at[1])
  <2>1. call[c].pc = "ensure" /\ WriteStatement(c, d) /\ Return(c)
    BY <1>3 DEF EnsureStore, Table
  <2>2. d \in Image /\ Coherent(d)
    <3>1. d \in Image
      BY <2>1, <1>a, <1>b, RegisterStoreOK
    <3>2. Coherent(Visible(c))
      BY <2>1, VisibleCoherent
    <3> QED
      BY <3>1, <3>2, <1>b DEF Coherent, RegisterStore, Image
  <2> HIDE DEF d
  <2> QED
    BY <2>1, <2>2, <1>a, IdleFacts, WriteCoherence DEF ScopeSteps
<1>4. CASE PruneRows(c)
  <2> DEFINE d == PruneChanges(Visible(c), call[c].rev)
  <2>1. call[c].pc = "prune" /\ WriteStatement(c, d) /\ Return(c)
    BY <1>4 DEF PruneRows, Table
  <2>2. d \in Image /\ Coherent(d)
    BY <2>1, <1>a, <1>b, PruneChangesOK, VisibleCoherent, CoherentOps
  <2> HIDE DEF d
  <2> QED
    BY <2>1, <2>2, <1>a, IdleFacts, WriteCoherence DEF ScopeSteps
<1>5. CASE MutationBegin(c)
  BY <1>5, BeginCoherence DEF MutationBegin, ScopeSteps
<1>6. CASE RegisterForPut(c)
  <2> DEFINE d == RegisterStore(Visible(c), call[c].at[1])
  <2>1. call[c].pc = "register" /\ WriteStatement(c, d) /\ Goto(c, "change")
    BY <1>6 DEF RegisterForPut, Table
  <2>2. d \in Image /\ Coherent(d)
    <3>1. d \in Image
      BY <2>1, <1>a, <1>b, RegisterStoreOK
    <3>2. Coherent(Visible(c))
      BY <2>1, VisibleCoherent
    <3> QED
      BY <3>1, <3>2, <1>b DEF Coherent, RegisterStore, Image
  <2> HIDE DEF d
  <2> QED
    BY <2>1, <2>2, GotoFacts, WriteCoherence DEF ScopeSteps
<1>7. CASE RemoveRow(c)
  <2> DEFINE d == DeleteRecord(Visible(c), call[c].at)
  <2>1. call[c].pc = "remove" /\ WriteStatement(c, d)
    BY <1>7 DEF RemoveRow, Table
  <2>2. PICK step \in {"commit", "change"} : Goto(c, step)
    BY <1>7 DEF RemoveRow
  <2>3. d \in Image /\ Coherent(d)
    BY <2>1, <1>a, <1>b, RecordOK, VisibleCoherent, CoherentOps
  <2> HIDE DEF d
  <2> QED
    BY <2>1, <2>2, <2>3, GotoFacts, WriteCoherence DEF ScopeSteps
<1>8. CASE AppendChange(c)
  <2> DEFINE d == InsertChange(Visible(c), call[c].at, call[c].kind)
  <2>1. /\ call[c].pc = "change" /\ WriteStatement(c, d)
        /\ Visible(c).seq < MaxRevision
    BY <1>8 DEF AppendChange, Table
  <2>2. d \in Image
    BY <2>1, <1>a, <1>b, InsertChangeOK, Locals DEF CallOK, MutationSteps
  <2>3. /\ \A b \in Conns \ {c} : call'[b] = call[b]
        /\ call'[c].pc \in {"record", "meta"}
        /\ call'[c].owns = call[c].owns /\ call'[c].rev = d.seq
    BY <1>8 DEF AppendChange, TypeInv, RestOK, Call
  <2> HIDE DEF d
  <2>4. /\ disk' = disk /\ lock'[c] = "write" /\ view'[c] = d
        /\ auto'[c] = auto[c] /\ ~auto[c]
        /\ save'[c] = IF lock[c] = "none" THEN disk ELSE save[c]
    BY <2>1, <2>2, <1>a, <1>b, WriteEffect DEF ScopeSteps
  <2>5. Others(c)
    BY <2>1, <2>2, SqliteOthers DEF TypeInv
  <2>6. ScopeOK(c)' /\ ImagesOK(c)' /\ Coherent(disk')
    BY <2>1, <2>3, <2>4 DEF ScopeOK, ImagesOK, CoherenceInv, ScopeSteps
  <2> QED
    BY <2>3, <2>5, <2>6, CombineCoherence
<1>9. CASE UpsertRow(c)
  <2> DEFINE d == UpsertRecord(Visible(c), call[c].at, call[c].rev)
  <2>1. call[c].pc = "record" /\ WriteStatement(c, d) /\ Goto(c, "meta")
    BY <1>9 DEF UpsertRow, Table
  <2>2. d \in Image /\ d.seq = Visible(c).seq
    BY <2>1, <1>a, <1>b, RecordOK, CoherentOps, ZenonT(60)
  <2>3. d.seq = call[c].rev
    BY <2>1, <2>2 DEF CoherenceInv, ImagesOK, Visible
  <2> HIDE DEF d
  <2>4. /\ disk' = disk /\ lock'[c] = "write" /\ view'[c] = d
        /\ auto'[c] = auto[c] /\ ~auto[c]
        /\ save'[c] = IF lock[c] = "none" THEN disk ELSE save[c]
    BY <2>1, <2>2, <1>a, <1>b, WriteEffect DEF ScopeSteps
  <2>5. Others(c)
    BY <2>1, <2>2, SqliteOthers DEF TypeInv
  <2>6. ScopeOK(c)' /\ ImagesOK(c)' /\ Coherent(disk')
    BY <2>1, <2>3, <2>4, GotoFacts DEF ScopeOK, ImagesOK, CoherenceInv, ScopeSteps
  <2> QED
    BY <2>1, <2>5, <2>6, GotoFacts, CombineCoherence
<1>10. CASE StoreRevision(c)
  <2> DEFINE d == SetStoreRevision(Visible(c), call[c].rev)
  <2>1. call[c].pc = "meta" /\ WriteStatement(c, d) /\ Goto(c, "commit")
    BY <1>10 DEF StoreRevision, Table
  <2>2. Visible(c).seq = call[c].rev
    BY <2>1 DEF CoherenceInv, ImagesOK, Visible
  <2>3. d \in Image /\ Coherent(d)
    BY <2>1, <2>2, <1>a, <1>b, SetStoreRevisionOK, CoherentOps
  <2> HIDE DEF d
  <2> QED
    BY <2>1, <2>3, GotoFacts, WriteCoherence DEF ScopeSteps
<1>11. CASE MutationCommit(c)
  BY <1>11, IdleFacts, EndScopeCoherence DEF MutationCommit, ScopeSteps
<1> QED
  BY <1>1, <1>2, <1>3, <1>4, <1>5, <1>6, <1>7, <1>8, <1>9, <1>10, <1>11
  DEF BodyStep

LEMMA CoherenceInit == Init => CoherenceInv
BY EmptyImageCoherent
DEF Init, CoherenceInv, ScopeOK, ImagesOK, IdleCall, ScopeSteps

LEMMA CoherenceStep == TypeInv /\ CoherenceInv /\ [Next]_vars => CoherenceInv'
<1> SUFFICES ASSUME TypeInv, CoherenceInv, [Next]_vars PROVE CoherenceInv'
  OBVIOUS
<1>1. CASE Next
  <2>1. PICK c \in Conns :
          \/ CallerStep(c) \/ CrashAndReopen(c)
          \/ StartCall(c) \/ CallStep(c)
          \/ StatementFails(c) \/ SqliteRollsBack(c)
    BY <1>1 DEF Next
  <2> QED
    BY <2>1, CallerCoherence, FailureCoherence, StartCoherence,
       SchemaCoherence, BodyCoherence
    DEF CallStep, CallerStep
<1>2. CASE UNCHANGED vars
  BY <1>2 DEF vars, CoherenceInv, ScopeOK, ImagesOK
<1> QED
  BY <1>1, <1>2

(* No interleaving of connections, crash, failed statement or rollback     *)
(* separates the change row of a mutation from the revision stored in      *)
(* __esdb_meta (begin_store_mutation ... commit_store_mutation): the       *)
(* cross-check of read_store_revision_metadata never reports corruption.   *)
THEOREM MetadataCoherent == Spec => []RevisionMetadataCoherent
<1>1. CoherenceInv => RevisionMetadataCoherent
  BY VisibleCoherent DEF CoherenceInv, RevisionMetadataCoherent, ScopeSteps
<1> QED
  BY <1>1, TypeInit, TypeStep, CoherenceInit, CoherenceStep, PTL DEF Spec

-----------------------------------------------------------------------------
(***************************************************************************)
(* The history: HistoryContiguous, JournalIsSuffix, AckedIsDurable and the *)
(* refinement of RevisionedStore.                                          *)
(*                                                                         *)
(* The argument is about images, not about connections.  Every image there *)
(* is (the committed one, the one of an open transaction, the one a        *)
(* savepoint restores) has a good history (HistoryOK) and, except between  *)
(* the two statements of a mutation that change the record and journal the *)
(* change, the records its history produces (Replayed).  A writer's image  *)
(* continues the committed one (Extends): SQLite gave it the write lock on *)
(* the current image, and nobody else commits while it is held.  So a      *)
(* commit can only move the committed image forward.                       *)
(***************************************************************************)

(* e is the last of the first n changes of d at p. *)
LastAt(d, n, p, e) ==
    /\ e \in d.hist /\ e.at = p /\ e.rev <= n
    /\ \A f \in d.hist : f.at = p /\ f.rev <= n => f.rev <= e.rev

(* The change rows of d are numbered 1..d.seq without reuse, the journal   *)
(* holds the newest of them, they are about registered stores, and a       *)
(* delete is only journalled for a record that was there.                  *)
NumberedOK(d) ==
    /\ \A e \in d.hist : e.rev <= d.seq
    /\ \A r \in 1..d.seq : \E e \in d.hist : e.rev = r
    /\ \A e, f \in d.hist : e.rev = f.rev => e = f

JournalOK(d) == \E k \in 0..d.seq : d.changes = {e \in d.hist : e.rev > k}

RowsOK(d) ==
    \A e \in d.hist :
        /\ e.at[1] \in d.stores
        /\ e.op = "delete" =>
              \E f \in d.hist : LastAt(d, e.rev - 1, e.at, f) /\ f.op = "put"

HistoryOK(d) == NumberedOK(d) /\ JournalOK(d) /\ RowsOK(d)

(* v is what the first n changes of d leave at p. *)
RecordIs(d, n, p, v) ==
    \/ v = 0 /\ \A e \in d.hist : e.rev <= n => e.at # p
    \/ \E e \in d.hist : /\ LastAt(d, n, p, e)
                         /\ v = IF e.op = "delete" THEN 0 ELSE e.rev

ReplayedAt(d, p) == RecordIs(d, d.seq, p, d.records[p])
Replayed(d) == \A p \in Places : ReplayedAt(d, p)

(* e is d with further changes, registrations and prunes. *)
Extends(d, e) ==
    /\ d.hist \subseteq e.hist /\ d.seq <= e.seq /\ d.stores \subseteq e.stores
    /\ \A f \in e.changes : f.rev <= d.seq => f \in d.changes

(* The image d of a transaction with lock l while it executes call k. *)
InFlightOK(k, l, d) ==
    /\ k.pc \notin {"change", "record"} => Replayed(d)
    /\ k.pc \in {"change", "record"} =>
          l = "write" /\ \A p \in Places \ {k.at} : ReplayedAt(d, p)
    /\ k.pc = "change" =>
          /\ k.at[1] \in d.stores
          /\ k.kind = "delete" =>
                /\ d.records[k.at] = 0
                /\ \E f \in d.hist : LastAt(d, d.seq, k.at, f) /\ f.op = "put"
    /\ k.pc \in {"register", "record"} => k.kind = "put"
    /\ k.changed => /\ l = "write"
                    /\ [rev |-> k.rev, at |-> k.at, op |-> k.kind] \in d.hist

Nested(c) == call[c].pc \in ScopeSteps /\ ~call[c].owns

(* The write lock, and what its holder's images continue. *)
LineOK(c) ==
    /\ lock[c] = "write" <=> writer = c
    /\ lock[c] = "write" => Extends(disk, view[c])
    /\ Nested(c) /\ lock[c] = "write" => Extends(disk, save[c])
    /\ Nested(c) /\ lock[c] = "read" => save[c] = view[c]

(* What was reported OK in the caller's transaction is part of it. *)
PromiseOK(c) ==
    /\ ~auto[c] /\ ~call[c].owns =>
          /\ promised[c] \subseteq view[c].hist
          /\ promised[c] # {} => lock[c] = "write"
    /\ Nested(c) => promised[c] \subseteq save[c].hist

(* The handle that began the open transaction, and the active ones that    *)
(* did not: SQLite ended the transactions of these.                        *)
OwnerOK(c) ==
    /\ owner[c] # NoHandle => ~auto[c] /\ ~call[c].owns
    /\ outer[c] \ {owner[c]} \subseteq dropped[c]

OwnerInv == ~misled /\ \A c \in Conns : OwnerOK(c)

ShareOK(c) ==
    /\ HistoryOK(view[c]) /\ HistoryOK(save[c]) /\ Replayed(save[c])
    /\ InFlightOK(call[c], lock[c], view[c])
    /\ LineOK(c) /\ PromiseOK(c)

HistoryInv ==
    /\ HistoryOK(disk) /\ Replayed(disk)
    /\ acked \subseteq disk.hist
    /\ \A c \in Conns : ShareOK(c)

-----------------------------------------------------------------------------
(* The image operations. *)

LEMMA EmptyImageHistory == HistoryOK(EmptyImage) /\ Replayed(EmptyImage)
<1>1. NumberedOK(EmptyImage) /\ RowsOK(EmptyImage)
  BY DEF NumberedOK, RowsOK, EmptyImage
<1>2. JournalOK(EmptyImage)
  BY DEF JournalOK, EmptyImage
<1>3. Replayed(EmptyImage)
  BY DEF Replayed, ReplayedAt, RecordIs, EmptyImage
<1> QED
  BY <1>1, <1>2, <1>3 DEF HistoryOK

LEMMA ExtendsReflexive ==
    ASSUME NEW d \in Image
    PROVE  Extends(d, d)
BY MaxRevisionAssumption DEF Extends, Image

LEMMA ExtendsTransitive ==
    ASSUME NEW d \in Image, NEW e \in Image, NEW g \in Image,
           Extends(d, e), Extends(e, g)
    PROVE  Extends(d, g)
<1>1. d.seq <= g.seq
  BY MaxRevisionAssumption DEF Extends, Image
<1>2. ASSUME NEW f \in g.changes, f.rev <= d.seq PROVE f \in d.changes
  <2>1. f.rev \in Nat
    BY DEF Image, Change, Revisions
  <2>2. f.rev <= e.seq
    BY <1>2, <2>1, MaxRevisionAssumption DEF Extends, Image
  <2> QED
    BY <1>2, <2>2 DEF Extends
<1> QED
  BY <1>1, <1>2 DEF Extends

(* Statements that leave the journal alone. *)
LEMMA SameHistory ==
    ASSUME NEW d \in Image, NEW e \in Image, HistoryOK(d),
           e.hist = d.hist, e.seq = d.seq, e.changes = d.changes,
           d.stores \subseteq e.stores
    PROVE  HistoryOK(e) /\ Extends(d, e)
<1>1. NumberedOK(e) /\ JournalOK(e)
  BY DEF HistoryOK, NumberedOK, JournalOK
<1>2. RowsOK(e)
  BY DEF HistoryOK, RowsOK, LastAt
<1>3. Extends(d, e)
  BY MaxRevisionAssumption DEF Extends, Image
<1> QED
  BY <1>1, <1>2, <1>3 DEF HistoryOK

LEMMA SameReplay ==
    ASSUME NEW d \in Image, NEW e \in Image, NEW p \in Places,
           e.hist = d.hist, e.seq = d.seq, e.records[p] = d.records[p]
    PROVE  ReplayedAt(e, p) <=> ReplayedAt(d, p)
BY DEF ReplayedAt, RecordIs, LastAt

LEMMA RegisterHistory ==
    ASSUME NEW d \in Image, HistoryOK(d), NEW s \in Stores
    PROVE  LET e == RegisterStore(d, s)
           IN  /\ e \in Image /\ HistoryOK(e) /\ Extends(d, e)
               /\ s \in e.stores /\ (Replayed(d) => Replayed(e))
<1> DEFINE e == RegisterStore(d, s)
<1>1. /\ e \in Image /\ e.hist = d.hist /\ e.seq = d.seq
      /\ e.changes = d.changes /\ e.stores = d.stores \cup {s}
      /\ e.records = d.records
  BY RegisterStoreOK DEF RegisterStore, Image
<1> HIDE DEF e
<1>2. HistoryOK(e) /\ Extends(d, e)
  BY <1>1, SameHistory
<1>3. Replayed(d) => Replayed(e)
  BY <1>1, SameReplay DEF Replayed
<1> QED
  BY <1>1, <1>2, <1>3 DEF e

LEMMA SchemaHistory ==
    ASSUME NEW d \in Image, HistoryOK(d)
    PROVE  LET e == CreateSchema(d)
           IN  /\ e \in Image /\ HistoryOK(e) /\ Extends(d, e)
               /\ (Replayed(d) => Replayed(e))
<1> DEFINE e == CreateSchema(d)
<1>1. /\ e \in Image /\ e.hist = d.hist /\ e.seq = d.seq
      /\ e.changes = d.changes /\ e.stores = d.stores
      /\ e.records = d.records
  BY CreateSchemaOK DEF CreateSchema, Image
<1> HIDE DEF e
<1>2. HistoryOK(e) /\ Extends(d, e)
  BY <1>1, SameHistory
<1>3. Replayed(d) => Replayed(e)
  BY <1>1, SameReplay DEF Replayed
<1> QED
  BY <1>1, <1>2, <1>3 DEF e

LEMMA MetaHistory ==
    ASSUME NEW d \in Image, HistoryOK(d), NEW r \in 0..MaxRevision
    PROVE  LET e == SetStoreRevision(d, r)
           IN  /\ e \in Image /\ HistoryOK(e) /\ Extends(d, e)
               /\ e.hist = d.hist
               /\ (Replayed(d) => Replayed(e))
<1> DEFINE e == SetStoreRevision(d, r)
<1>1. /\ e \in Image /\ e.hist = d.hist /\ e.seq = d.seq
      /\ e.changes = d.changes /\ e.stores = d.stores
      /\ e.records = d.records
  BY SetStoreRevisionOK DEF SetStoreRevision, Image
<1> HIDE DEF e
<1>2. HistoryOK(e) /\ Extends(d, e)
  BY <1>1, SameHistory
<1>3. Replayed(d) => Replayed(e)
  BY <1>1, SameReplay DEF Replayed
<1> QED
  BY <1>1, <1>2, <1>3 DEF e

(* The record statements change what is stored at one place. *)
LEMMA RecordHistory ==
    ASSUME NEW d \in Image, HistoryOK(d), NEW at \in Places,
           NEW r \in 0..MaxRevision, NEW e,
           e = UpsertRecord(d, at, r) \/ (e = DeleteRecord(d, at) /\ r = 0)
    PROVE  /\ e \in Image /\ HistoryOK(e) /\ Extends(d, e)
           /\ e.hist = d.hist /\ e.seq = d.seq /\ e.stores = d.stores
           /\ e.records[at] = r
           /\ \A p \in Places \ {at} : e.records[p] = d.records[p]
           /\ \A p \in Places \ {at} : ReplayedAt(d, p) => ReplayedAt(e, p)
<1>1. /\ e \in Image /\ e.hist = d.hist /\ e.seq = d.seq
      /\ e.changes = d.changes /\ e.stores = d.stores
      /\ e.records = [d.records EXCEPT ![at] = r]
  BY RecordOK DEF UpsertRecord, DeleteRecord, Image
<1>2. /\ e.records[at] = r
      /\ \A p \in Places \ {at} : e.records[p] = d.records[p]
  BY <1>1 DEF Image
<1>3. HistoryOK(e) /\ Extends(d, e)
  BY <1>1, SameHistory
<1>4. \A p \in Places \ {at} : ReplayedAt(d, p) => ReplayedAt(e, p)
  BY <1>1, <1>2, SameReplay
<1> QED
  BY <1>1, <1>2, <1>3, <1>4

(* A prune takes a further prefix away from the journal. *)
LEMMA PruneHistory ==
    ASSUME NEW d \in Image, HistoryOK(d), NEW r \in 0..MaxRevision
    PROVE  LET e == PruneChanges(d, r)
           IN  /\ e \in Image /\ HistoryOK(e) /\ Extends(d, e)
               /\ (Replayed(d) => Replayed(e))
<1> DEFINE e == PruneChanges(d, r)
<1>1. /\ e \in Image /\ e.hist = d.hist /\ e.seq = d.seq
      /\ e.changes = {f \in d.changes : f.rev > r} /\ e.stores = d.stores
      /\ e.records = d.records
  BY PruneChangesOK DEF PruneChanges, Image
<1> HIDE DEF e
<1>a. d.seq \in Nat /\ r \in Nat /\ \A f \in d.hist : f.rev \in Nat
  BY MaxRevisionAssumption DEF Image, Change, Revisions
<1>2. JournalOK(e)
  <2>1. PICK k \in 0..d.seq : d.changes = {f \in d.hist : f.rev > k}
    BY DEF HistoryOK, JournalOK
  <2>2. CASE r <= k
    <3>1. e.changes = {f \in e.hist : f.rev > k}
      BY <1>1, <1>a, <2>1, <2>2
    <3> QED
      BY <1>1, <3>1 DEF JournalOK
  <2>3. CASE r > k /\ r <= d.seq
    <3>1. e.changes = {f \in e.hist : f.rev > r}
      BY <1>1, <1>a, <2>1, <2>3
    <3> QED
      BY <1>1, <1>a, <2>3, <3>1 DEF JournalOK
  <2>4. CASE r > k /\ r > d.seq
    <3>1. e.changes = {f \in e.hist : f.rev > d.seq}
      BY <1>1, <1>a, <2>1, <2>4 DEF HistoryOK, NumberedOK
    <3> QED
      BY <1>1, <1>a, <3>1 DEF JournalOK
  <2> QED
    BY <1>a, <2>1, <2>2, <2>3, <2>4
<1>3. NumberedOK(e)
  BY <1>1 DEF HistoryOK, NumberedOK
<1>4. RowsOK(e)
  BY <1>1 DEF HistoryOK, RowsOK, LastAt
<1>5. Extends(d, e)
  BY <1>1, <1>a DEF Extends
<1>6. Replayed(d) => Replayed(e)
  BY <1>1, SameReplay DEF Replayed
<1> QED
  BY <1>1, <1>2, <1>3, <1>4, <1>5, <1>6 DEF e, HistoryOK

(* A change row continues the history, and settles the record at its place. *)
LEMMA InsertHistory ==
    ASSUME NEW d \in Image, HistoryOK(d), NEW at \in Places,
           NEW o \in {"put", "delete"}, d.seq < MaxRevision,
           at[1] \in d.stores,
           o = "delete" => \E f \in d.hist : /\ LastAt(d, d.seq, at, f)
                                             /\ f.op = "put"
    PROVE  LET e == InsertChange(d, at, o)
               row == ChangeRow(d, at, o)
           IN  /\ e \in Image /\ HistoryOK(e) /\ Extends(d, e)
               /\ e.seq = d.seq + 1 /\ e.records = d.records
               /\ row \in e.hist /\ row.rev = d.seq + 1
               /\ row = [rev |-> e.seq, at |-> at, op |-> o]
               /\ LastAt(e, e.seq, at, row)
               /\ \A p \in Places \ {at} : ReplayedAt(d, p) => ReplayedAt(e, p)
               /\ o = "delete" /\ d.records[at] = 0 => ReplayedAt(e, at)
<1> DEFINE e == InsertChange(d, at, o)
           row == ChangeRow(d, at, o)
<1>1. /\ e \in Image /\ e.hist = d.hist \cup {row} /\ e.seq = d.seq + 1
      /\ e.changes = d.changes \cup {row} /\ e.stores = d.stores
      /\ e.records = d.records
  BY InsertChangeOK, ZenonT(60) DEF InsertChange, Image
<1>2. /\ row.rev = d.seq + 1 /\ row.at = at /\ row.op = o
      /\ row = [rev |-> e.seq, at |-> at, op |-> o]
  BY <1>1 DEF ChangeRow
<1> HIDE DEF e, row
<1>a. d.seq \in Nat /\ \A f \in d.hist : f.rev \in Nat
  BY MaxRevisionAssumption DEF Image, Change, Revisions
<1>b. \A f \in d.hist : f.rev <= d.seq /\ f.rev # row.rev
  BY <1>2, <1>a DEF HistoryOK, NumberedOK
<1>3. NumberedOK(e)
  <2>1. \A f \in e.hist : f.rev <= e.seq
    BY <1>1, <1>2, <1>a, <1>b
  <2>2. ASSUME NEW r \in 1..e.seq PROVE \E f \in e.hist : f.rev = r
    <3>1. r = e.seq \/ r \in 1..d.seq
      BY <1>1, <1>a
    <3> QED
      BY <1>1, <1>2, <3>1 DEF HistoryOK, NumberedOK
  <2>3. \A f, g \in e.hist : f.rev = g.rev => f = g
    BY <1>1, <1>b DEF HistoryOK, NumberedOK
  <2> QED
    BY <2>1, <2>2, <2>3 DEF NumberedOK
<1>4. JournalOK(e)
  <2>1. PICK k \in 0..d.seq : d.changes = {f \in d.hist : f.rev > k}
    BY DEF HistoryOK, JournalOK
  <2>2. e.changes = {f \in e.hist : f.rev > k} /\ k \in 0..e.seq
    BY <1>1, <1>2, <1>a, <2>1
  <2> QED
    BY <2>2 DEF JournalOK
<1>5. ASSUME NEW n \in Nat, n <= d.seq, NEW p, NEW f
      PROVE  LastAt(e, n, p, f) <=> LastAt(d, n, p, f)
  BY <1>1, <1>2, <1>5, <1>a DEF LastAt
<1>6. RowsOK(e)
  <2>1. ASSUME NEW f \in d.hist, f.op = "delete"
        PROVE  \E g \in e.hist : LastAt(e, f.rev - 1, f.at, g) /\ g.op = "put"
    <3>1. PICK g \in d.hist : LastAt(d, f.rev - 1, f.at, g) /\ g.op = "put"
      BY <2>1 DEF HistoryOK, RowsOK
    <3>2. f.rev \in 1..d.seq
      BY <1>a, <1>b DEF Image, Change, Revisions
    <3>3. f.rev - 1 \in Nat /\ f.rev - 1 <= d.seq
      BY <1>a, <3>2
    <3> QED
      BY <1>1, <1>5, <3>1, <3>3
  <2>2. ASSUME o = "delete"
        PROVE  \E g \in e.hist : LastAt(e, row.rev - 1, row.at, g) /\ g.op = "put"
    <3>1. PICK g \in d.hist : LastAt(d, d.seq, at, g) /\ g.op = "put"
      BY <2>2
    <3>2. row.rev - 1 = d.seq
      BY <1>2, <1>a
    <3> QED
      BY <1>1, <1>2, <1>5, <1>a, <3>1, <3>2
  <2> QED
    BY <1>1, <1>2, <2>1, <2>2 DEF RowsOK, HistoryOK
<1>7. Extends(d, e)
  BY <1>1, <1>2, <1>a DEF Extends
<1>8. LastAt(e, e.seq, at, row)
  BY <1>1, <1>2, <1>a, <1>b DEF LastAt
<1>9. ASSUME NEW p \in Places \ {at}, ReplayedAt(d, p)
      PROVE  ReplayedAt(e, p)
  <2>1. CASE d.records[p] = 0 /\ \A f \in d.hist : f.rev <= d.seq => f.at # p
    <3>1. \A f \in e.hist : f.rev <= e.seq => f.at # p
      BY <1>1, <1>2, <1>b, <2>1
    <3> QED
      BY <1>1, <2>1, <3>1 DEF ReplayedAt, RecordIs
  <2>2. ASSUME NEW f \in d.hist, LastAt(d, d.seq, p, f),
               d.records[p] = IF f.op = "delete" THEN 0 ELSE f.rev
        PROVE  ReplayedAt(e, p)
    <3>1. LastAt(e, e.seq, p, f)
      BY <1>1, <1>2, <1>a, <1>b, <2>2 DEF LastAt
    <3> QED
      BY <1>1, <2>2, <3>1 DEF ReplayedAt, RecordIs
  <2> QED
    BY <1>9, <2>1, <2>2 DEF ReplayedAt, RecordIs
<1>10. o = "delete" /\ d.records[at] = 0 => ReplayedAt(e, at)
  BY <1>1, <1>2, <1>8 DEF ReplayedAt, RecordIs
<1> QED
  BY <1>1, <1>2, <1>3, <1>4, <1>6, <1>7, <1>8, <1>9, <1>10
  DEF HistoryOK, e, row

-----------------------------------------------------------------------------
(* Every action keeps HistoryInv. *)

(* A step of c leaves the calls and promises of the others alone. *)
Frame(c) ==
    \A b \in Conns \ {c} :
        call'[b] = call[b] /\ promised'[b] = promised[b]

(* The invariants of this and of the previous module. *)
AllInv == TypeInv /\ CoherenceInv /\ OwnerInv /\ HistoryInv

LEMMA Images ==
    ASSUME AllInv, NEW c \in Conns
    PROVE  /\ disk \in Image /\ view[c] \in Image /\ save[c] \in Image
           /\ Visible(c) \in Image /\ HistoryOK(Visible(c))
           /\ call[c].pc \notin {"change", "record"} => Replayed(Visible(c))
<1>1. disk \in Image /\ view[c] \in Image /\ save[c] \in Image
  BY DEF AllInv, TypeInv, SqliteOK
<1> QED
  BY <1>1 DEF Visible, AllInv, HistoryInv, ShareOK, InFlightOK

(* An action of c keeps HistoryInv when it keeps c's share of it, and the  *)
(* committed image moves only while no other connection may write.         *)
LEMMA CombineHistory ==
    ASSUME AllInv, NEW c \in Conns, Others(c), Frame(c),
           \A b \in Conns \ {c} : writer' = b <=> writer = b,
           disk' = disk \/ \A b \in Conns \ {c} : writer # b,
           HistoryOK(disk'), Replayed(disk'), acked' \subseteq disk'.hist,
           ShareOK(c)'
    PROVE  HistoryInv'
<1>1. ASSUME NEW b \in Conns \ {c} PROVE ShareOK(b)'
  <2>1. /\ view'[b] = view[b] /\ save'[b] = save[b] /\ lock'[b] = lock[b]
        /\ auto'[b] = auto[b] /\ call'[b] = call[b]
        /\ promised'[b] = promised[b]
    BY DEF Others, Frame
  <2>2. ShareOK(b)
    BY DEF AllInv, HistoryInv
  <2>3. Nested(b)' <=> Nested(b)
    BY <2>1 DEF Nested
  <2>4. LineOK(b)'
    BY <2>1, <2>2, <2>3 DEF ShareOK, LineOK
  <2>5. PromiseOK(b)'
    BY <2>1, <2>2, <2>3 DEF ShareOK, PromiseOK
  <2> QED
    BY <2>1, <2>2, <2>4, <2>5 DEF ShareOK
<1>2. ASSUME NEW b \in Conns PROVE ShareOK(b)'
  BY <1>1, <1>2
<1> QED
  BY <1>2 DEF HistoryInv

(* A step that reads. *)
LEMMA ReadHistory ==
    ASSUME AllInv, NEW c \in Conns, ReadStatement(c), Frame(c),
           UNCHANGED <<promised, acked>>,
           call[c].pc \notin {"change", "record"},
           call'[c].pc \notin {"register", "change", "record"},
           ~call'[c].changed,
           call'[c].pc \in ScopeSteps <=> call[c].pc \in ScopeSteps,
           call'[c].owns = call[c].owns
    PROVE  HistoryInv'
<1>1. Others(c)
  BY SqliteOthers DEF AllInv, TypeInv
<1>2. writer' = writer /\ disk' = disk /\ auto'[c] = auto[c]
  BY DEF ReadStatement
<1>3. ShareOK(c) /\ ScopeOK(c) /\ (Nested(c)' <=> Nested(c))
      /\ HistoryOK(disk) /\ Replayed(disk) /\ acked \subseteq disk.hist
  BY DEF AllInv, HistoryInv, CoherenceInv, Nested
<1>4. CASE ~auto[c] /\ lock[c] = "none"
  <2>1. lock'[c] = "read" /\ view'[c] = disk /\ save'[c] = disk
    BY <1>4 DEF ReadStatement, AllInv, TypeInv, SqliteOK
  <2>2. ~call[c].owns /\ promised[c] = {}
    BY <1>3, <1>4 DEF ScopeOK, ShareOK, PromiseOK
  <2>3. InFlightOK(call'[c], "read", disk)
    BY <1>3 DEF InFlightOK
  <2>4. writer # c
    BY <1>3, <1>4 DEF ShareOK, LineOK
  <2>5. LineOK(c)'
    BY <1>2, <2>1, <2>4 DEF LineOK
  <2>6. PromiseOK(c)'
    BY <1>3, <1>4, <2>2 DEF PromiseOK, ShareOK
  <2>7. ShareOK(c)'
    BY <1>3, <2>1, <2>3, <2>5, <2>6 DEF ShareOK
  <2> QED
    BY <1>1, <1>2, <1>3, <2>7, CombineHistory
<1>5. CASE auto[c] \/ lock[c] # "none"
  <2>1. lock' = lock /\ view' = view /\ save' = save
    BY <1>5 DEF ReadStatement
  <2>2. InFlightOK(call'[c], lock[c], view[c])
    BY <1>3 DEF InFlightOK, ShareOK
  <2>3. LineOK(c)'
    BY <1>2, <1>3, <2>1 DEF LineOK, ShareOK
  <2>4. PromiseOK(c)'
    BY <1>2, <1>3, <2>1 DEF PromiseOK, ShareOK
  <2>5. ShareOK(c)'
    BY <1>3, <2>1, <2>2, <2>3, <2>4 DEF ShareOK
  <2> QED
    BY <1>1, <1>2, <1>3, <2>5, CombineHistory
<1> QED
  BY <1>4, <1>5

(* A step that writes an image which continues the visible one. *)
LEMMA WriteHistory ==
    ASSUME AllInv, NEW c \in Conns, NEW d \in Image, WriteStatement(c, d),
           HistoryOK(d), Extends(Visible(c), d), Frame(c),
           UNCHANGED <<promised, acked>>,
           auto[c] => Replayed(d) /\ call'[c] = IdleCall,
           ~auto[c] => InFlightOK(call'[c], "write", d),
           call'[c].pc \in ScopeSteps <=> call[c].pc \in ScopeSteps,
           call'[c].owns = call[c].owns
    PROVE  HistoryInv'
<1>1. Others(c)
  BY SqliteOthers DEF AllInv, TypeInv
<1>2. ShareOK(c) /\ ScopeOK(c) /\ (Nested(c)' <=> Nested(c))
      /\ HistoryOK(disk) /\ Replayed(disk) /\ acked \subseteq disk.hist
  BY DEF AllInv, HistoryInv, CoherenceInv, Nested
<1>3. \A b \in Conns \ {c} : writer # b
  <2>1. lock[c] = "write" => writer = c
    BY <1>2 DEF ShareOK, LineOK
  <2> QED
    BY <2>1, NoConnAssumption DEF WriteStatement, CanWrite
<1>a. disk \in Image /\ view[c] \in Image /\ save[c] \in Image
  BY Images
<1>4. CASE auto[c]
  <2>1. /\ disk' = d /\ writer' = writer /\ lock' = lock /\ view' = view
        /\ save' = save /\ auto' = auto
    BY <1>4 DEF WriteStatement
  <2>2. lock[c] = "none" /\ call[c].pc \notin ScopeSteps
    BY <1>2, <1>4 DEF ScopeOK
  <2>3. Visible(c) = disk /\ acked \subseteq d.hist
    BY <1>2, <2>2 DEF Visible, Extends
  <2>4. InFlightOK(call'[c], lock[c], view[c])
    <3>1. Replayed(view[c])
      BY <1>2, <2>2 DEF InFlightOK, ShareOK, ScopeSteps
    <3> QED
      BY <1>4, <3>1 DEF InFlightOK, IdleCall
  <2>5. ShareOK(c)'
    <3>1. LineOK(c)'
      BY <1>2, <2>1, <2>2 DEF LineOK, ShareOK, Nested
    <3>2. PromiseOK(c)'
      BY <1>2, <1>4, <2>1 DEF PromiseOK, ShareOK
    <3> QED
      BY <1>2, <2>1, <2>4, <3>1, <3>2 DEF ShareOK
  <2> QED
    BY <1>1, <1>3, <1>4, <2>1, <2>3, <2>5, CombineHistory
<1>5. CASE ~auto[c]
  <2>1. /\ disk' = disk /\ writer' = c /\ lock'[c] = "write" /\ view'[c] = d
        /\ auto' = auto
        /\ save'[c] = IF lock[c] = "none" THEN disk ELSE save[c]
    BY <1>5 DEF WriteStatement, AllInv, TypeInv, SqliteOK
  <2>2. Extends(disk, Visible(c))
    <3>1. CASE lock[c] = "write"
      BY <1>2, <3>1 DEF Visible, ShareOK, LineOK
    <3>2. CASE lock[c] # "write"
      <4>1. Visible(c) = disk
        BY <3>2 DEF WriteStatement, CanWrite, Visible, AllInv, TypeInv, SqliteOK
      <4> QED
        BY <1>a, <4>1, ExtendsReflexive
    <3> QED
      BY <3>1, <3>2
  <2>3. Extends(disk, d)
    BY <2>2, Images, ExtendsTransitive
  <2>4. Nested(c) => Extends(disk, save'[c])
    <3>1. CASE lock[c] = "none"
      BY <1>a, <2>1, <3>1, ExtendsReflexive
    <3>2. CASE lock[c] = "read"
      <4>1. view[c] = disk
        BY <3>2 DEF WriteStatement, CanWrite
      <4> QED
        BY <1>2, <1>a, <2>1, <3>2, <4>1, ExtendsReflexive DEF ShareOK, LineOK
    <3>3. CASE lock[c] = "write"
      BY <1>2, <2>1, <3>3 DEF ShareOK, LineOK
    <3> QED
      BY <3>1, <3>2, <3>3 DEF AllInv, TypeInv, SqliteOK
  <2>5. LineOK(c)'
    BY <1>2, <2>1, <2>3, <2>4 DEF LineOK
  <2>6. PromiseOK(c)'
    <3>1. CASE lock[c] = "none"
      <4>1. ~call[c].owns /\ promised[c] = {}
        BY <1>2, <1>5, <3>1 DEF ScopeOK, ShareOK, PromiseOK
      <4> QED
        BY <1>2, <1>5, <4>1, <2>1 DEF PromiseOK, ShareOK
    <3>2. CASE lock[c] # "none"
      <4>1. view[c].hist \subseteq d.hist /\ save'[c] = save[c]
        BY <2>1, <3>2 DEF Extends, Visible
      <4> QED
        BY <1>2, <1>5, <2>1, <4>1 DEF PromiseOK, ShareOK
    <3> QED
      BY <3>1, <3>2
  <2>7. ShareOK(c)'
    BY <1>2, <1>5, <2>1, <2>5, <2>6 DEF ShareOK
  <2>8. \A b \in Conns \ {c} : writer' # b
    BY <2>1
  <2> QED
    BY <1>1, <1>2, <1>3, <2>1, <2>7, <2>8, CombineHistory
<1> QED
  BY <1>4, <1>5

(* BEGIN IMMEDIATE, by the caller or at the start of an owned scope. *)
LEMMA BeginImmediateHistory ==
    ASSUME AllInv, NEW c \in Conns, BeginImmediate(c), Frame(c),
           acked' = acked, call'[c].owns \/ promised'[c] = {},
           call'[c].pc \notin {"change", "record"}, ~call'[c].changed, ~Nested(c)',
           call'[c].pc = "register" => call'[c].kind = "put"
    PROVE  HistoryInv'
<1>1. Others(c)
  BY SqliteOthers DEF AllInv, TypeInv
<1>2. /\ disk' = disk /\ writer' = c /\ writer = NoConn /\ lock'[c] = "write"
      /\ view'[c] = disk /\ save' = save /\ auto'[c] = FALSE
  BY DEF BeginImmediate, AllInv, TypeInv, SqliteOK
<1>3. ShareOK(c) /\ HistoryOK(disk) /\ Replayed(disk) /\ acked \subseteq disk.hist
  BY DEF AllInv, HistoryInv
<1>4. Extends(disk, disk)
  BY Images, ExtendsReflexive
<1>5. LineOK(c)'
  BY <1>2, <1>4 DEF LineOK
<1>6. PromiseOK(c)'
  BY <1>2, <1>3 DEF PromiseOK, ShareOK
<1>7. InFlightOK(call'[c], "write", disk)
  BY <1>3 DEF InFlightOK
<1>8. ShareOK(c)'
  BY <1>2, <1>3, <1>5, <1>6, <1>7 DEF ShareOK
<1>9. \A b \in Conns \ {c} : writer' # b /\ writer # b
  BY <1>2, NoConnAssumption
<1> QED
  BY <1>1, <1>2, <1>3, <1>8, <1>9, CombineHistory

(* The beginning of a scope. *)
LEMMA BeginHistory ==
    ASSUME AllInv, NEW c \in Conns,
           NEW step \in {"schema_create", "register", "remove"},
           call[c].pc \in {"schema_begin", "begin"}, BeginStoreMutation(c, step),
           step = "register" => call[c].kind = "put"
    PROVE  HistoryInv'
<1>1. /\ call'[c].pc = step /\ call'[c].owns = auto[c]
      /\ call'[c].changed = call[c].changed /\ call'[c].kind = call[c].kind
      /\ \A b \in Conns \ {c} : call'[b] = call[b]
  BY DEF BeginStoreMutation, AllInv, TypeInv, RestOK, Call
<1>2. UNCHANGED <<promised, acked>> /\ Frame(c)
  BY <1>1 DEF BeginStoreMutation, ghosts, Frame
<1>3. ~call[c].changed /\ step \notin {"change", "record"}
  BY DEF AllInv, TypeInv, CallInv, CallOK
<1>4. CASE auto[c]
  <2>1. BeginImmediate(c) /\ ~Nested(c)'
    BY <1>1, <1>4 DEF BeginStoreMutation, Nested
  <2> QED
    BY <1>1, <1>2, <1>3, <1>4, <2>1, BeginImmediateHistory
<1>5. CASE ~auto[c]
  <2>1. /\ save' = [save EXCEPT ![c] = Visible(c)]
        /\ UNCHANGED <<disk, writer, auto, lock, view>>
    BY <1>5 DEF BeginStoreMutation
  <2>2. Others(c)
    BY <2>1, SqliteOthers, VisibleOK DEF AllInv, TypeInv
  <2>3. save'[c] = Visible(c)
    BY <2>1 DEF AllInv, TypeInv, SqliteOK
  <2>4. ShareOK(c) /\ ScopeOK(c) /\ HistoryOK(disk) /\ Replayed(disk)
        /\ acked \subseteq disk.hist
    BY DEF AllInv, HistoryInv, CoherenceInv
  <2>5. HistoryOK(Visible(c)) /\ Replayed(Visible(c))
    BY Images
  <2>6. ~call[c].owns
    BY <2>4 DEF ScopeOK, ScopeSteps
  <2>7. LineOK(c)'
    <3>1. lock[c] = "write" => Extends(disk, Visible(c))
      BY <2>4 DEF Visible, ShareOK, LineOK
    <3>2. lock[c] = "read" => Visible(c) = view[c]
      BY DEF Visible
    <3> QED
      BY <2>1, <2>3, <2>4, <3>1, <3>2 DEF LineOK, ShareOK
  <2>8. PromiseOK(c)'
    <3>1. promised[c] \subseteq Visible(c).hist
      BY <1>5, <2>4, <2>6 DEF Visible, ShareOK, PromiseOK
    <3> QED
      BY <1>2, <1>5, <2>1, <2>3, <2>4, <2>6, <3>1 DEF PromiseOK, ShareOK
  <2>9. InFlightOK(call'[c], lock[c], view[c])
    BY <1>1, <1>3, <2>4 DEF InFlightOK, ShareOK
  <2>10. ShareOK(c)'
    BY <2>1, <2>3, <2>4, <2>5, <2>7, <2>8, <2>9 DEF ShareOK
  <2> QED
    BY <1>2, <2>1, <2>2, <2>4, <2>10, CombineHistory
<1> QED
  BY <1>4, <1>5

(* A transaction that ends, once its image is committed or dropped. *)
LEMMA EndHistory ==
    ASSUME AllInv, NEW c \in Conns, EndTransaction(c), Frame(c),
           disk' = disk \/ lock[c] = "write",
           HistoryOK(disk'), Replayed(disk'), acked' \subseteq disk'.hist,
           call'[c].pc \notin ScopeSteps, ~call'[c].changed
    PROVE  HistoryInv'
<1>1. Others(c)
  BY SqliteOthers DEF AllInv, TypeInv
<1>2. /\ auto'[c] /\ lock'[c] = "none"
      /\ view'[c] = EmptyImage /\ save'[c] = EmptyImage
  BY DEF EndTransaction, AllInv, TypeInv, SqliteOK
<1>3. /\ writer' # c
      /\ \A b \in Conns \ {c} : writer' = b <=> writer = b
  BY NoConnAssumption DEF EndTransaction
<1>4. LineOK(c)' /\ PromiseOK(c)'
  BY <1>2, <1>3 DEF LineOK, PromiseOK, Nested
<1>5. InFlightOK(call'[c], "none", EmptyImage)
  BY EmptyImageHistory DEF InFlightOK, ScopeSteps
<1>6. ShareOK(c)'
  BY <1>2, <1>4, <1>5, EmptyImageHistory DEF ShareOK
<1>7. lock[c] = "write" => writer = c
  BY DEF AllInv, HistoryInv, ShareOK, LineOK
<1> QED
  BY <1>1, <1>3, <1>6, <1>7, CombineHistory

LEMMA DiscardHistory ==
    ASSUME AllInv, NEW c \in Conns, DiscardImage(c), Frame(c), acked' = acked,
           call'[c].pc \notin ScopeSteps, ~call'[c].changed
    PROVE  HistoryInv'
<1>1. disk' = disk /\ EndTransaction(c)
  BY DEF DiscardImage
<1>2. HistoryOK(disk) /\ Replayed(disk) /\ acked \subseteq disk.hist
  BY DEF AllInv, HistoryInv
<1> QED
  BY <1>1, <1>2, EndHistory

(* COMMIT makes R durable when the transaction holds it. *)
LEMMA CommitHistory ==
    ASSUME AllInv, NEW c \in Conns, CommitImage(c), Frame(c),
           NEW R, R \subseteq view[c].hist, R # {} => lock[c] = "write",
           acked' \subseteq acked \cup R,
           call[c].pc \notin {"change", "record"},
           call'[c].pc \notin ScopeSteps, ~call'[c].changed
    PROVE  HistoryInv'
<1>1. /\ disk' = IF lock[c] = "write" THEN view[c] ELSE disk
      /\ EndTransaction(c)
  BY DEF CommitImage
<1>2. ShareOK(c) /\ HistoryOK(disk) /\ Replayed(disk) /\ acked \subseteq disk.hist
  BY DEF AllInv, HistoryInv
<1>3. HistoryOK(disk') /\ Replayed(disk')
  BY <1>1, <1>2 DEF ShareOK, InFlightOK
<1>4. disk.hist \subseteq disk'.hist
  BY <1>1, <1>2 DEF ShareOK, LineOK, Extends
<1>5. acked' \subseteq disk'.hist
  BY <1>1, <1>2, <1>4
<1> QED
  BY <1>1, <1>3, <1>5, EndHistory

(* The end of a scope: R is what the call reports. *)
LEMMA EndScopeHistory ==
    ASSUME AllInv, NEW c \in Conns, EndScope(c),
           call[c].pc \in {"schema_commit", "commit"},
           \A b \in Conns \ {c} : call'[b] = call[b],
           call'[c].pc \notin ScopeSteps, ~call'[c].changed, ~call'[c].owns,
           NEW R, R \subseteq view[c].hist, R # {} => lock[c] = "write",
           acked' = IF call[c].owns THEN acked \cup R ELSE acked,
           promised' = IF call[c].owns THEN promised
                       ELSE [promised EXCEPT ![c] = @ \cup R]
    PROVE  HistoryInv'
<1>1. Frame(c)
  BY DEF Frame, AllInv, TypeInv, RestOK, CallerOK
<1>2. ShareOK(c) /\ ScopeOK(c) /\ HistoryOK(disk) /\ Replayed(disk)
      /\ acked \subseteq disk.hist
  BY DEF AllInv, HistoryInv, CoherenceInv
<1>3. CASE call[c].owns
  <2>1. CommitImage(c) /\ acked' \subseteq acked \cup R /\ promised' = promised
    BY <1>3 DEF EndScope
  <2> QED
    BY <1>1, <2>1, CommitHistory
<1>4. CASE ~call[c].owns
  <2>1. /\ save' = [save EXCEPT ![c] = EmptyImage]
        /\ UNCHANGED <<disk, writer, auto, lock, view>>
        /\ acked' = acked
    BY <1>4 DEF EndScope
  <2>2. Others(c)
    BY <2>1, SqliteOthers, EmptyImageOK DEF AllInv, TypeInv
  <2>3. save'[c] = EmptyImage /\ promised'[c] = promised[c] \cup R
    BY <1>4, <2>1 DEF AllInv, TypeInv, SqliteOK, RestOK, CallerOK
  <2>4. ~auto[c] /\ ~Nested(c)' /\ Nested(c)
    BY <1>2, <1>4 DEF ScopeOK, ScopeSteps, Nested
  <2>5. PromiseOK(c)'
    <3>1. /\ promised[c] \cup R \subseteq view[c].hist
          /\ (promised[c] \cup R # {} => lock[c] = "write")
      BY <1>2, <1>4, <2>4 DEF ShareOK, PromiseOK
    <3> QED
      BY <2>1, <2>3, <2>4, <3>1 DEF PromiseOK
  <2>6. LineOK(c)'
    BY <1>2, <2>1, <2>4 DEF LineOK, ShareOK
  <2>7. InFlightOK(call'[c], lock[c], view[c])
    BY <1>2 DEF InFlightOK, ShareOK, ScopeSteps
  <2>8. ShareOK(c)'
    BY <1>2, <2>1, <2>3, <2>5, <2>6, <2>7, EmptyImageHistory DEF ShareOK
  <2> QED
    BY <1>1, <1>2, <2>1, <2>2, <2>8, CombineHistory
<1> QED
  BY <1>3, <1>4

LEMMA CallerHistory ==
    ASSUME AllInv, NEW c \in Conns,
           NEW h \in Handles,
           \/ \E mode \in {"deferred", "immediate"} : CallerBegin(c, h, mode)
           \/ CallerCommit(c, h)
           \/ CallerRollback(c, h)
    PROVE  HistoryInv'
<1>1. /\ call' = call /\ call[c].pc = "idle" /\ call[c].pc \notin ScopeSteps
      /\ ~call[c].owns /\ ~call[c].changed /\ ~Nested(c) /\ ~Nested(c)'
  BY DEF CallerBegin, CallerCommit, CallerRollback, Finished, At, ScopeSteps,
         Nested, AllInv, CoherenceInv, ScopeOK, TypeInv, CallInv, CallOK
<1>2. ShareOK(c) /\ ScopeOK(c) /\ HistoryOK(disk) /\ Replayed(disk)
      /\ acked \subseteq disk.hist
  BY DEF AllInv, HistoryInv, CoherenceInv
<1>3. ASSUME NEW mode \in {"deferred", "immediate"}, CallerBegin(c, h, mode)
      PROVE  HistoryInv'
  <2>1. auto[c] /\ acked' = acked /\ promised' = [promised EXCEPT ![c] = {}]
    BY <1>3 DEF CallerBegin
  <2>2. promised'[c] = {} /\ Frame(c)
    BY <1>1, <2>1 DEF Frame, AllInv, TypeInv, RestOK, CallerOK
  <2>3. CASE BeginImmediate(c)
    BY <1>1, <2>1, <2>2, <2>3, BeginImmediateHistory
  <2>4. CASE ~BeginImmediate(c)
    <3>1. /\ auto' = [auto EXCEPT ![c] = FALSE]
          /\ UNCHANGED <<disk, writer, lock, view, save>>
      BY <1>3, <2>4 DEF CallerBegin
    <3>2. Others(c)
      BY <3>1 DEF Others, AllInv, TypeInv, SqliteOK
    <3>3. LineOK(c)'
      BY <1>1, <1>2, <3>1 DEF LineOK, ShareOK
    <3>4. PromiseOK(c)'
      BY <1>1, <2>2 DEF PromiseOK
    <3>5. ShareOK(c)'
      BY <1>1, <1>2, <3>1, <3>3, <3>4 DEF ShareOK
    <3> QED
      BY <1>2, <2>1, <2>2, <3>1, <3>2, <3>5, CombineHistory
  <2> QED
    BY <2>3, <2>4
<1>4. CASE CallerCommit(c, h)
  <2>1. CommitImage(c) /\ promised' = [promised EXCEPT ![c] = {}]
        /\ acked' = IF owner[c] = h THEN acked \cup promised[c] ELSE acked
    BY <1>4 DEF CallerCommit, Finished
  <2>2. Frame(c)
    BY <1>1, <2>1 DEF Frame, AllInv, TypeInv, RestOK, CallerOK
  <2>3. CASE owner[c] # h
    <3> DEFINE R == {}
    <3>1. /\ acked' \subseteq acked \cup R /\ R \subseteq view[c].hist
          /\ R # {} => lock[c] = "write"
      BY <2>1, <2>3
    <3> HIDE DEF R
    <3> QED
      BY <1>1, <2>1, <2>2, <3>1, CommitHistory
  <2>4. CASE owner[c] = h
    <3>1. ~auto[c]
      BY <2>4 DEF AllInv, OwnerInv, OwnerOK, Handles, NoHandle
    <3>2. promised[c] \subseteq view[c].hist
          /\ (promised[c] # {} => lock[c] = "write")
      BY <1>1, <1>2, <3>1 DEF ShareOK, PromiseOK
    <3> QED
      BY <1>1, <2>1, <2>2, <2>4, <3>2, CommitHistory
  <2> QED
    BY <2>3, <2>4
<1>5. CASE CallerRollback(c, h)
  <2>1. DiscardImage(c) /\ promised' = [promised EXCEPT ![c] = {}]
        /\ acked' = acked
    BY <1>5 DEF CallerRollback, Finished
  <2>2. Frame(c)
    BY <1>1, <2>1 DEF Frame, AllInv, TypeInv, RestOK, CallerOK
  <2> QED
    BY <1>1, <2>1, <2>2, DiscardHistory
<1> QED
  BY <1>3, <1>4, <1>5

LEMMA IdleResult ==
    ASSUME AllInv, NEW c \in Conns, Return(c)
    PROVE  /\ \A b \in Conns \ {c} : call'[b] = call[b]
           /\ call'[c] = IdleCall /\ call'[c].pc = "idle"
           /\ call'[c].pc \notin ScopeSteps /\ ~call'[c].changed
           /\ call'[c].owns = FALSE /\ ~Nested(c)'
BY DEF AllInv, TypeInv, RestOK, Return, IdleCall, ScopeSteps, Nested

LEMMA GotoResult ==
    ASSUME AllInv, NEW c \in Conns, NEW step, Goto(c, step)
    PROVE  /\ \A b \in Conns \ {c} : call'[b] = call[b]
           /\ call'[c].pc = step /\ call'[c].owns = call[c].owns
           /\ call'[c].rev = call[c].rev /\ call'[c].at = call[c].at
           /\ call'[c].kind = call[c].kind /\ call'[c].changed = call[c].changed
BY DEF AllInv, TypeInv, RestOK, Goto, Call

LEMMA FailureHistory ==
    ASSUME AllInv, NEW c \in Conns,
           CrashAndReopen(c) \/ StatementFails(c) \/ SqliteRollsBack(c)
    PROVE  HistoryInv'
<1>1. Return(c)
  BY DEF CrashAndReopen, StatementFails, SqliteRollsBack, Return
<1>2. /\ \A b \in Conns \ {c} : call'[b] = call[b]
      /\ call'[c] = IdleCall /\ call'[c].pc = "idle" /\ call'[c].pc \notin ScopeSteps
      /\ ~call'[c].changed /\ ~call'[c].owns /\ ~Nested(c)'
  BY <1>1, IdleResult
<1>3. ShareOK(c) /\ ScopeOK(c) /\ HistoryOK(disk) /\ Replayed(disk)
      /\ acked \subseteq disk.hist
  BY DEF AllInv, HistoryInv, CoherenceInv
<1>4. acked' = acked /\ Frame(c)
  <2>1. CASE CrashAndReopen(c)
    BY <1>2, <2>1 DEF CrashAndReopen, Frame, AllInv, TypeInv, RestOK, CallerOK
  <2>2. CASE StatementFails(c) \/ SqliteRollsBack(c)
    <3>1. UNCHANGED <<promised, acked>>
      BY <2>2 DEF StatementFails, SqliteRollsBack, ghosts
    <3> QED
      BY <1>2, <3>1 DEF Frame
  <2> QED
    BY <2>1, <2>2
<1>5. CASE DiscardImage(c)
  BY <1>2, <1>4, <1>5, DiscardHistory
<1>6. CASE StatementFails(c) /\ call[c].pc \in ScopeSteps /\ ~call[c].owns
  <2>1. /\ save' = [save EXCEPT ![c] = EmptyImage]
        /\ UNCHANGED <<disk, writer, auto, lock, promised>>
        /\ view' = IF lock[c] = "none" THEN view
                   ELSE [view EXCEPT ![c] = save[c]]
    BY <1>6 DEF StatementFails, UndoScope, ghosts
  <2>2. Others(c)
    BY <2>1, SqliteOthers, EmptyImageOK DEF AllInv, TypeInv
  <2>3. /\ save'[c] = EmptyImage
        /\ view'[c] = IF lock[c] = "none" THEN view[c] ELSE save[c]
    BY <2>1 DEF AllInv, TypeInv, SqliteOK
  <2>4. Nested(c) /\ ~auto[c]
    BY <1>3, <1>6 DEF Nested, ScopeOK
  <2>5. LineOK(c)'
    BY <1>2, <1>3, <2>1, <2>3, <2>4 DEF LineOK, ShareOK
  <2>6. PromiseOK(c)'
    BY <1>2, <1>3, <1>6, <2>1, <2>3, <2>4 DEF PromiseOK, ShareOK
  <2>7. HistoryOK(view'[c]) /\ Replayed(view'[c])
    BY <1>3, <2>3 DEF ShareOK, InFlightOK
  <2>8. InFlightOK(call'[c], lock[c], view'[c])
    BY <1>2, <2>7 DEF InFlightOK
  <2>9. ShareOK(c)'
    BY <2>1, <2>3, <2>5, <2>6, <2>7, <2>8, EmptyImageHistory DEF ShareOK
  <2> QED
    BY <1>3, <1>4, <2>1, <2>2, <2>9, CombineHistory
<1>7. CASE StatementFails(c) /\ call[c].pc \notin ScopeSteps
  <2>1. UNCHANGED <<disk, writer, auto, lock, view, save, promised>>
    BY <1>7 DEF StatementFails, sqlite, ghosts
  <2>2. Others(c) /\ ~Nested(c) /\ ~call[c].owns
    BY <1>3, <1>7, <2>1 DEF Others, Nested, ScopeOK
  <2>3. LineOK(c)'
    BY <1>2, <1>3, <2>1, <2>2 DEF LineOK, ShareOK
  <2>4. PromiseOK(c)'
    BY <1>2, <1>3, <2>1, <2>2 DEF PromiseOK, ShareOK
  <2>5. InFlightOK(call'[c], lock[c], view[c])
    BY <1>2, <1>3, <1>7 DEF InFlightOK, ShareOK, ScopeSteps
  <2>6. ShareOK(c)'
    BY <1>3, <2>1, <2>3, <2>4, <2>5 DEF ShareOK
  <2> QED
    BY <1>3, <1>4, <2>1, <2>2, <2>6, CombineHistory
<1> QED
  BY <1>5, <1>6, <1>7
  DEF CrashAndReopen, StatementFails, SqliteRollsBack, UndoScope

LEMMA StartHistory ==
    ASSUME AllInv, NEW c \in Conns, StartCall(c)
    PROVE  HistoryInv'
<1>1. PICK kind \in Kinds, at \in Places, r \in 0..MaxRevision :
        Start(c, kind, at, r)
  BY MaxRevisionAssumption DEF StartCall, Kinds, Revisions
<1> DEFINE step == IF ready[c] THEN FirstStep(kind) ELSE "inspect"
<1>2. step \notin ScopeSteps
  BY DEF FirstStep, Kinds, ScopeSteps
<1>3. /\ \A b \in Conns \ {c} : call'[b] = call[b]
      /\ call'[c].pc = step /\ call'[c].owns = FALSE /\ ~call'[c].changed
  BY <1>1 DEF Start, IdleCall, AllInv, TypeInv, RestOK
<1> HIDE DEF step
<1>4. /\ UNCHANGED <<disk, writer, auto, lock, view, save>>
      /\ UNCHANGED <<promised, acked>> /\ call[c].pc = "idle"
  BY <1>1 DEF Start, At, sqlite, ghosts
<1>5. Others(c) /\ Frame(c) /\ ~Nested(c) /\ ~Nested(c)'
  BY <1>2, <1>3, <1>4 DEF Others, Frame, Nested, ScopeSteps
<1>6. ShareOK(c) /\ ScopeOK(c) /\ HistoryOK(disk) /\ Replayed(disk)
      /\ acked \subseteq disk.hist
  BY DEF AllInv, HistoryInv, CoherenceInv
<1>7. LineOK(c)'
  BY <1>4, <1>5, <1>6 DEF LineOK, ShareOK
<1>8. PromiseOK(c)'
  BY <1>3, <1>4, <1>5, <1>6 DEF PromiseOK, ShareOK, ScopeOK, ScopeSteps
<1>9. InFlightOK(call'[c], lock[c], view[c])
  BY <1>2, <1>3, <1>4, <1>6 DEF InFlightOK, ShareOK, ScopeSteps
<1>10. ShareOK(c)'
  BY <1>4, <1>6, <1>7, <1>8, <1>9 DEF ShareOK
<1> QED
  BY <1>4, <1>5, <1>6, <1>10, CombineHistory

(* The steps of a call other than the last leave the ghosts alone. *)
LEMMA StepFrame ==
    ASSUME AllInv, NEW c \in Conns, CallStep(c), ~MutationCommit(c)
    PROVE  UNCHANGED <<promised, acked>>
BY DEF CallStep, SchemaStep, BodyStep, Inspect, SchemaBegin, SchemaCreate,
       SchemaCommit, Verify, ReadRows, LookupStore, EnsureStore, PruneRows,
       MutationBegin, RegisterForPut, RemoveRow, AppendChange, UpsertRow,
       StoreRevision, BeginStoreMutation, ghosts

LEMMA SchemaStepHistory ==
    ASSUME AllInv, NEW c \in Conns, SchemaStep(c)
    PROVE  HistoryInv'
<1> USE DEF At
<1>a. /\ ~call[c].changed /\ call[c].pc \in SchemaSteps
      /\ call[c].pc \notin ScopeSteps => call[c].owns = FALSE
  BY Locals DEF AllInv, TypeInv, CallInv, CallOK, Call, CoherenceInv, ScopeOK,
     SchemaStep, Inspect, SchemaBegin, SchemaCreate, SchemaCommit, Verify,
     SchemaSteps
<1>b. UNCHANGED <<promised, acked>>
  <2>1. ~MutationCommit(c)
    BY <1>a DEF MutationCommit, SchemaSteps
  <2> QED
    BY <2>1, StepFrame DEF CallStep
<1>c. ASSUME \A b \in Conns \ {c} : call'[b] = call[b] PROVE Frame(c)
  BY <1>b, <1>c DEF Frame
<1>1. CASE Inspect(c)
  <2>1. PICK step \in {"verify", "schema_begin"} : Goto(c, step)
    BY <1>1 DEF Inspect
  <2>2. call[c].pc = "inspect" /\ ReadStatement(c)
    BY <1>1 DEF Inspect
  <2> QED
    BY <1>a, <1>b, <1>c, <2>1, <2>2, GotoResult, ReadHistory DEF ScopeSteps
<1>2. CASE SchemaBegin(c)
  BY <1>2, BeginHistory DEF SchemaBegin
<1>3. CASE SchemaCreate(c)
  <2>1. call[c].pc = "schema_create" /\ Goto(c, "schema_commit")
    BY <1>3 DEF SchemaCreate
  <2>2. CASE ReadStatement(c)
    BY <1>a, <1>b, <1>c, <2>1, <2>2, GotoResult, ReadHistory DEF ScopeSteps
  <2>3. CASE WriteStatement(c, CreateSchema(Visible(c)))
    <3> DEFINE d == CreateSchema(Visible(c))
    <3>1. d \in Image /\ HistoryOK(d) /\ Extends(Visible(c), d) /\ Replayed(d)
      BY <2>1, Images, SchemaHistory
    <3> HIDE DEF d
    <3>2. ~auto[c]
      BY <2>1 DEF AllInv, CoherenceInv, ScopeOK, ScopeSteps
    <3>3. InFlightOK(call'[c], "write", d)
      BY <1>a, <2>1, <3>1, GotoResult DEF InFlightOK
    <3> QED
      BY <1>b, <1>c, <2>1, <2>3, <3>1, <3>2, <3>3, GotoResult, WriteHistory
      DEF d, ScopeSteps
  <2> QED
    BY <1>3, <2>2, <2>3 DEF SchemaCreate
<1>4. CASE SchemaCommit(c)
  <2>1. /\ \A b \in Conns \ {c} : call'[b] = call[b]
        /\ call'[c].pc = "verify" /\ call'[c].owns = FALSE /\ ~call'[c].changed
    BY <1>4, <1>a DEF SchemaCommit, AllInv, TypeInv, RestOK, Call
  <2>2. call[c].pc = "schema_commit" /\ EndScope(c)
    BY <1>4 DEF SchemaCommit
  <2> DEFINE R == {}
  <2>3. /\ acked' = IF call[c].owns THEN acked \cup R ELSE acked
        /\ promised' = IF call[c].owns THEN promised
                       ELSE [promised EXCEPT ![c] = @ \cup R]
    BY <1>b DEF AllInv, TypeInv, RestOK, CallerOK
  <2>4. R \subseteq view[c].hist /\ (R # {} => lock[c] = "write")
    OBVIOUS
  <2>5. call'[c].pc \notin ScopeSteps
    BY <2>1 DEF ScopeSteps
  <2> HIDE DEF R
  <2> QED
    BY <2>1, <2>2, <2>3, <2>4, <2>5, EndScopeHistory
<1>5. CASE Verify(c)
  <2> DEFINE step == FirstStep(call[c].kind)
  <2>1. Coherent(Visible(c))
    BY <1>5, VisibleCoherent DEF Verify, AllInv
  <2>2. step \notin ScopeSteps
    BY Locals DEF FirstStep, Kinds, ScopeSteps, Call, AllInv
  <2>3. Goto(c, step) /\ ReadStatement(c) /\ call[c].pc = "verify"
    BY <1>5, <2>1 DEF Verify
  <2> HIDE DEF step
  <2>4. step \notin {"register", "change", "record"} /\ call[c].pc \notin ScopeSteps
    BY <2>2, <2>3 DEF ScopeSteps
  <2> QED
    BY <1>a, <1>b, <1>c, <2>2, <2>3, <2>4, GotoResult, ReadHistory
<1> QED
  BY <1>1, <1>2, <1>3, <1>4, <1>5 DEF SchemaStep

(* Reads, registrations and prunes, and the beginning of a mutation. *)
LEMMA PlainStepHistory ==
    ASSUME AllInv, NEW c \in Conns,
           ReadRows(c) \/ LookupStore(c) \/ EnsureStore(c) \/ PruneRows(c)
           \/ MutationBegin(c) \/ RegisterForPut(c)
    PROVE  HistoryInv'
<1> USE DEF At
<1>a. /\ ~call[c].changed
      /\ call[c].pc \in {"read", "lookup", "ensure", "prune", "begin", "register"}
      /\ call[c].pc \notin ScopeSteps => call[c].owns = FALSE
      /\ call[c].at \in Places /\ call[c].at[1] \in Stores
      /\ call[c].rev \in 0..MaxRevision
  BY Locals DEF AllInv, TypeInv, CallInv, CallOK, Call, CoherenceInv, ScopeOK,
     ReadRows, LookupStore, EnsureStore, PruneRows, MutationBegin,
     RegisterForPut, Table, Places
<1>b. UNCHANGED <<promised, acked>>
  <2>1. ~MutationCommit(c)
    BY <1>a DEF MutationCommit
  <2> QED
    BY <2>1, StepFrame DEF CallStep, BodyStep
<1>c. ASSUME \A b \in Conns \ {c} : call'[b] = call[b] PROVE Frame(c)
  BY <1>b, <1>c DEF Frame
<1>d. Visible(c) \in Image /\ HistoryOK(Visible(c)) /\ Replayed(Visible(c))
  BY <1>a, Images
<1>1. CASE ReadRows(c)
  BY <1>1, <1>a, <1>b, <1>c, IdleResult, ReadHistory
  DEF ReadRows, Table, ScopeSteps
<1>2. CASE LookupStore(c)
  <2>1. call[c].pc = "lookup" /\ ReadStatement(c)
    BY <1>2 DEF LookupStore, Table
  <2>2. CASE Return(c)
    BY <1>a, <1>b, <1>c, <2>1, <2>2, IdleResult, ReadHistory DEF ScopeSteps
  <2>3. ASSUME NEW step \in {"begin", "ensure"}, Goto(c, step)
        PROVE  HistoryInv'
    BY <1>a, <1>b, <1>c, <2>1, <2>3, GotoResult, ReadHistory DEF ScopeSteps
  <2> QED
    BY <1>2, <2>2, <2>3 DEF LookupStore
<1>3. CASE EnsureStore(c)
  <2> DEFINE d == RegisterStore(Visible(c), call[c].at[1])
  <2>1. call[c].pc = "ensure" /\ WriteStatement(c, d) /\ Return(c)
    BY <1>3 DEF EnsureStore, Table
  <2>2. d \in Image /\ HistoryOK(d) /\ Extends(Visible(c), d) /\ Replayed(d)
    BY <1>a, <1>d, RegisterHistory
  <2> HIDE DEF d
  <2>3. InFlightOK(call'[c], "write", d)
    BY <2>1, <2>2, IdleResult DEF InFlightOK
  <2> QED
    BY <1>a, <1>b, <1>c, <2>1, <2>2, <2>3, IdleResult, WriteHistory DEF ScopeSteps
<1>4. CASE PruneRows(c)
  <2> DEFINE d == PruneChanges(Visible(c), call[c].rev)
  <2>1. call[c].pc = "prune" /\ WriteStatement(c, d) /\ Return(c)
    BY <1>4 DEF PruneRows, Table
  <2>2. d \in Image /\ HistoryOK(d) /\ Extends(Visible(c), d) /\ Replayed(d)
    BY <1>a, <1>d, PruneHistory
  <2> HIDE DEF d
  <2>3. InFlightOK(call'[c], "write", d)
    BY <2>1, <2>2, IdleResult DEF InFlightOK
  <2> QED
    BY <1>a, <1>b, <1>c, <2>1, <2>2, <2>3, IdleResult, WriteHistory DEF ScopeSteps
<1>5. CASE MutationBegin(c)
  BY <1>5, BeginHistory DEF MutationBegin
<1>6. CASE RegisterForPut(c)
  <2> DEFINE d == RegisterStore(Visible(c), call[c].at[1])
  <2>1. call[c].pc = "register" /\ WriteStatement(c, d) /\ Goto(c, "change")
    BY <1>6 DEF RegisterForPut, Table
  <2>2. /\ d \in Image /\ HistoryOK(d) /\ Extends(Visible(c), d) /\ Replayed(d)
        /\ call[c].at[1] \in d.stores
    BY <1>a, <1>d, RegisterHistory
  <2> HIDE DEF d
  <2>3. call[c].kind = "put"
    BY <2>1 DEF AllInv, HistoryInv, ShareOK, InFlightOK
  <2>4. InFlightOK(call'[c], "write", d)
    BY <1>a, <2>1, <2>2, <2>3, GotoResult DEF InFlightOK, Replayed
  <2>5. ~auto[c]
    BY <2>1 DEF AllInv, CoherenceInv, ScopeOK, ScopeSteps
  <2> QED
    BY <1>b, <1>c, <2>1, <2>2, <2>4, <2>5, GotoResult, WriteHistory DEF ScopeSteps
<1> QED
  BY <1>1, <1>2, <1>3, <1>4, <1>5, <1>6

(* The statements of a mutation scope. *)
LEMMA MutationStepHistory ==
    ASSUME AllInv, NEW c \in Conns,
           RemoveRow(c) \/ AppendChange(c) \/ UpsertRow(c) \/ StoreRevision(c)
           \/ MutationCommit(c)
    PROVE  HistoryInv'
<1> USE DEF At
<1> DEFINE at == call[c].at
           v == Visible(c)
<1>a. /\ call[c].pc \in {"remove", "change", "record", "meta", "commit"}
      /\ at \in Places /\ at[1] \in Stores
      /\ call[c].rev \in 0..MaxRevision
      /\ call[c].kind \in {"put", "delete"}
      /\ call[c].pc \in {"remove", "change"} => ~call[c].changed
      /\ call[c].pc \in {"record", "meta"} => call[c].changed
  BY Locals DEF AllInv, TypeInv, CallInv, CallOK, Call, RemoveRow, AppendChange,
     UpsertRow, StoreRevision, MutationCommit, Table, Places, MutationSteps
<1>b. ~auto[c] /\ ShareOK(c) /\ ScopeOK(c) /\ ImagesOK(c)
  BY <1>a DEF AllInv, HistoryInv, CoherenceInv, ScopeOK, ScopeSteps
<1>c. ~MutationCommit(c) => UNCHANGED <<promised, acked>>
  BY StepFrame DEF CallStep, BodyStep
<1>d. v \in Image /\ HistoryOK(v)
  BY Images
<1>e. /\ call[c].pc \in {"change", "record"} =>
            v = view[c] /\ \A p \in Places \ {at} : ReplayedAt(v, p)
      /\ call[c].pc \notin {"change", "record"} => Replayed(v)
  BY <1>b, Images DEF ShareOK, InFlightOK, Visible
<1>f. ASSUME \A b \in Conns \ {c} : call'[b] = call[b], ~MutationCommit(c)
      PROVE  Frame(c)
  BY <1>c, <1>f DEF Frame
<1>g. call[c].changed =>
        /\ lock[c] = "write" /\ v = view[c]
        /\ [rev |-> call[c].rev, at |-> at, op |-> call[c].kind] \in v.hist
  BY <1>b DEF ShareOK, InFlightOK, Visible
<1> HIDE DEF at, v
<1>1. CASE RemoveRow(c)
  <2> DEFINE d == DeleteRecord(v, at)
  <2>1. call[c].pc = "remove" /\ WriteStatement(c, d)
    BY <1>1 DEF RemoveRow, Table, at, v
  <2>2. Goto(c, IF v.records[at] = 0 THEN "commit" ELSE "change")
    BY <1>1 DEF RemoveRow, at, v
  <2>3. /\ d \in Image /\ HistoryOK(d) /\ Extends(v, d) /\ d.hist = v.hist
        /\ d.seq = v.seq /\ d.stores = v.stores /\ d.records[at] = 0
        /\ \A p \in Places \ {at} : ReplayedAt(v, p) => ReplayedAt(d, p)
    BY <1>a, <1>d, MaxRevisionAssumption, RecordHistory, SMTT(60)
  <2> HIDE DEF d
  <2>4. ReplayedAt(v, at)
    BY <1>a, <1>e, <2>1 DEF Replayed
  <2>5. \A p \in Places \ {at} : ReplayedAt(d, p)
    BY <1>e, <2>1, <2>3 DEF Replayed
  <2>6. InFlightOK(call'[c], "write", d)
    <3>1. CASE v.records[at] = 0
      <4>1. ReplayedAt(d, at)
        BY <1>a, <1>d, <2>3, <2>4, <3>1, SameReplay
      <4>2. Replayed(d)
        BY <2>5, <4>1 DEF Replayed
      <4> QED
        BY <1>a, <2>1, <2>2, <3>1, <4>2, GotoResult DEF InFlightOK
    <3>2. CASE v.records[at] # 0
      <4>1. PICK f \in v.hist : LastAt(v, v.seq, at, f) /\ f.op # "delete"
        BY <2>4, <3>2 DEF ReplayedAt, RecordIs
      <4>2. f.op = "put" /\ f.at = at
        BY <1>d, <4>1 DEF LastAt, Image, Change
      <4>3. at[1] \in d.stores
        BY <1>d, <2>3, <4>2 DEF HistoryOK, RowsOK
      <4>4. LastAt(d, d.seq, at, f) /\ f \in d.hist
        BY <2>3, <4>1 DEF LastAt
      <4>5. call'[c].pc = "change" /\ call'[c].at = at /\ ~call'[c].changed
        BY <1>a, <2>1, <2>2, <3>2, GotoResult DEF at
      <4> QED
        BY <2>3, <2>5, <4>2, <4>3, <4>4, <4>5 DEF InFlightOK
    <3> QED
      BY <3>1, <3>2
  <2>7. call'[c].pc \in ScopeSteps /\ call'[c].owns = call[c].owns
    BY <2>2, GotoResult DEF ScopeSteps
  <2>8. Frame(c) /\ UNCHANGED <<promised, acked>>
    BY <1>c, <1>f, <2>1, <2>2, GotoResult DEF MutationCommit
  <2> QED
    BY <1>b, <2>1, <2>3, <2>6, <2>7, <2>8, WriteHistory DEF ScopeSteps, v
<1>2. CASE AppendChange(c)
  <2> DEFINE d == InsertChange(v, at, call[c].kind)
             row == ChangeRow(v, at, call[c].kind)
  <2>1. /\ call[c].pc = "change" /\ WriteStatement(c, d)
        /\ v.seq < MaxRevision
    BY <1>2 DEF AppendChange, Table, at, v
  <2>2. /\ at[1] \in v.stores
        /\ call[c].kind = "delete" =>
              /\ v.records[at] = 0
              /\ \E f \in v.hist : LastAt(v, v.seq, at, f) /\ f.op = "put"
    BY <1>b, <1>e, <2>1 DEF ShareOK, InFlightOK, at
  <2>3. /\ d \in Image /\ HistoryOK(d) /\ Extends(v, d)
        /\ d.seq = v.seq + 1 /\ d.records = v.records
        /\ row \in d.hist /\ row = [rev |-> d.seq, at |-> at, op |-> call[c].kind]
        /\ \A p \in Places \ {at} : ReplayedAt(v, p) => ReplayedAt(d, p)
        /\ call[c].kind = "delete" /\ v.records[at] = 0 => ReplayedAt(d, at)
    BY <1>a, <1>d, <2>1, <2>2, InsertHistory
  <2> HIDE DEF row
  <2>4. /\ \A b \in Conns \ {c} : call'[b] = call[b]
        /\ call'[c].pc = IF call[c].kind = "put" THEN "record" ELSE "meta"
        /\ call'[c].owns = call[c].owns /\ call'[c].rev = d.seq
        /\ call'[c].at = at /\ call'[c].kind = call[c].kind
        /\ call'[c].changed
    BY <1>2 DEF AppendChange, AllInv, TypeInv, RestOK, Call, at, v
  <2> HIDE DEF d
  <2>5. \A p \in Places \ {at} : ReplayedAt(d, p)
    BY <1>e, <2>1, <2>3
  <2>6. call[c].kind = "delete" => Replayed(d)
    BY <2>2, <2>3, <2>5 DEF Replayed
  <2>7. InFlightOK(call'[c], "write", d)
    BY <1>a, <2>3, <2>4, <2>5, <2>6 DEF InFlightOK
  <2>8. Frame(c) /\ UNCHANGED <<promised, acked>>
    BY <1>c, <1>f, <2>1, <2>4 DEF MutationCommit
  <2>9. call'[c].pc \in ScopeSteps /\ call[c].pc \in ScopeSteps
    BY <2>1, <2>4 DEF ScopeSteps
  <2> QED
    BY <1>b, <2>1, <2>3, <2>4, <2>7, <2>8, <2>9, WriteHistory DEF v
<1>3. CASE UpsertRow(c)
  <2> DEFINE d == UpsertRecord(v, at, call[c].rev)
             row == [rev |-> call[c].rev, at |-> at, op |-> call[c].kind]
  <2>1. call[c].pc = "record" /\ WriteStatement(c, d) /\ Goto(c, "meta")
    BY <1>3 DEF UpsertRow, Table, at, v
  <2>2. /\ d \in Image /\ HistoryOK(d) /\ Extends(v, d) /\ d.hist = v.hist
        /\ d.seq = v.seq /\ d.records[at] = call[c].rev
        /\ \A p \in Places \ {at} : ReplayedAt(v, p) => ReplayedAt(d, p)
    BY <1>a, <1>d, RecordHistory
  <2> HIDE DEF d
  <2>3. v.seq = call[c].rev /\ row \in d.hist /\ call[c].kind = "put"
    BY <1>a, <1>b, <1>g, <2>1, <2>2 DEF ImagesOK, ShareOK, InFlightOK
  <2>4. LastAt(d, d.seq, at, row)
    <3>1. \A f \in d.hist : f.rev <= d.seq
      BY <2>2 DEF HistoryOK, NumberedOK
    <3> QED
      BY <1>a, <2>2, <2>3, <3>1, MaxRevisionAssumption DEF LastAt
  <2>5. ReplayedAt(d, at)
    BY <2>2, <2>3, <2>4 DEF ReplayedAt, RecordIs
  <2>6. Replayed(d)
    BY <1>e, <2>1, <2>2, <2>5 DEF Replayed
  <2>7. InFlightOK(call'[c], "write", d)
    BY <2>1, <2>3, <2>6, GotoResult DEF InFlightOK, at
  <2>8. Frame(c) /\ UNCHANGED <<promised, acked>>
    BY <1>c, <1>f, <2>1, GotoResult DEF MutationCommit
  <2> QED
    BY <1>b, <2>1, <2>2, <2>7, <2>8, GotoResult, WriteHistory DEF ScopeSteps, v
<1>4. CASE StoreRevision(c)
  <2> DEFINE d == SetStoreRevision(v, call[c].rev)
  <2>1. call[c].pc = "meta" /\ WriteStatement(c, d) /\ Goto(c, "commit")
    BY <1>4 DEF StoreRevision, Table, v
  <2>2. /\ d \in Image /\ HistoryOK(d) /\ Extends(v, d) /\ Replayed(d)
        /\ d.hist = v.hist
    BY <1>a, <1>d, <1>e, <2>1, MetaHistory
  <2> HIDE DEF d
  <2>3. InFlightOK(call'[c], "write", d)
    BY <1>g, <2>1, <2>2, GotoResult DEF InFlightOK, at
  <2>4. Frame(c) /\ UNCHANGED <<promised, acked>>
    BY <1>c, <1>f, <2>1, GotoResult DEF MutationCommit
  <2> QED
    BY <1>b, <2>1, <2>2, <2>3, <2>4, GotoResult, WriteHistory DEF ScopeSteps, v
<1>5. CASE MutationCommit(c)
  <2>1. /\ call[c].pc = "commit" /\ EndScope(c) /\ Return(c)
        /\ acked' = IF call[c].owns THEN acked \cup Reported(c) ELSE acked
        /\ promised' = IF call[c].owns THEN promised
                       ELSE [promised EXCEPT ![c] = @ \cup Reported(c)]
    BY <1>5 DEF MutationCommit
  <2>2. /\ Reported(c) \subseteq view[c].hist
        /\ Reported(c) # {} => lock[c] = "write"
    BY <1>g DEF Reported, at
  <2> QED
    BY <2>1, <2>2, IdleResult, EndScopeHistory
<1> QED
  BY <1>1, <1>2, <1>3, <1>4, <1>5

(* The owner of a transaction. *)

LEMMA CombineOwner ==
    ASSUME OwnerInv, NEW c \in Conns, ~misled', OwnerOK(c)',
           \A b \in Conns \ {c} :
               /\ auto'[b] = auto[b] /\ call'[b] = call[b]
               /\ owner'[b] = owner[b] /\ outer'[b] = outer[b]
               /\ dropped'[b] = dropped[b]
    PROVE  OwnerInv'
BY DEF OwnerInv, OwnerOK

LEMMA CallerOwner ==
    ASSUME TypeInv, CoherenceInv, OwnerInv, NEW c \in Conns, NEW h \in Handles,
           \/ \E mode \in {"deferred", "immediate"} : CallerBegin(c, h, mode)
           \/ CallerCommit(c, h)
           \/ CallerRollback(c, h)
    PROVE  OwnerInv'
<1>1. OwnerOK(c) /\ ~misled /\ owner[c] \in Handles \cup {NoHandle}
  BY DEF OwnerInv, TypeInv, RestOK, CallerOK
<1>2. call' = call /\ ~call[c].owns
  BY DEF CallerBegin, CallerCommit, CallerRollback, Finished, At, ScopeSteps,
         CoherenceInv, ScopeOK
<1>3. ASSUME NEW mode \in {"deferred", "immediate"}, CallerBegin(c, h, mode)
      PROVE  OwnerInv'
  <2>1. /\ auto[c] /\ auto' = [auto EXCEPT ![c] = FALSE] /\ misled' = misled
        /\ outer' = [outer EXCEPT ![c] = @ \cup {h}] /\ dropped' = dropped
        /\ owner' = [owner EXCEPT ![c] = h]
    BY <1>3 DEF CallerBegin, BeginImmediate
  <2>2. outer[c] \subseteq dropped[c]
    BY <1>1, <2>1
    DEF OwnerOK, TypeInv, RestOK, CallerOK, Handles, NoHandle
  <2>3. OwnerOK(c)'
    BY <1>2, <2>1, <2>2 DEF OwnerOK, TypeInv, RestOK, CallerOK, SqliteOK
  <2> QED
    BY <1>1, <1>2, <2>1, <2>3, CombineOwner DEF TypeInv, RestOK, CallerOK, SqliteOK
<1>4. CASE CallerCommit(c, h) \/ CallerRollback(c, h)
  <2>1. /\ h \in outer[c] /\ EndTransaction(c) /\ Finished(c, h)
        /\ misled' = misled \/ misled' = (misled \/ Misleads(c, h))
    BY <1>4 DEF CallerCommit, CallerRollback, CommitImage, DiscardImage
  <2>2. h = owner[c] \/ h \in dropped[c]
    BY <1>1, <2>1 DEF OwnerOK
  <2>3. ~misled'
    BY <1>1, <2>1, <2>2 DEF Misleads
  <2>4. /\ auto'[c] /\ owner'[c] = NoHandle /\ outer'[c] = outer[c] \ {h}
        /\ dropped'[c] = (IF h \in dropped[c] THEN dropped[c] \cup Owning(c)
                                              ELSE dropped[c]) \ {h}
    BY <2>1 DEF EndTransaction, Finished, TypeInv, RestOK, CallerOK, SqliteOK
  <2>5. outer[c] \ {h} \subseteq dropped'[c]
    BY <1>1, <2>2, <2>4
    DEF OwnerOK, Owning, TypeInv, RestOK, CallerOK, Handles, NoHandle
  <2>6. OwnerOK(c)'
    BY <2>4, <2>5 DEF OwnerOK
  <2>7. \A b \in Conns \ {c} :
            /\ auto'[b] = auto[b] /\ owner'[b] = owner[b]
            /\ outer'[b] = outer[b] /\ dropped'[b] = dropped[b]
    BY <2>1 DEF EndTransaction, Finished, TypeInv, RestOK, CallerOK, SqliteOK
  <2> QED
    BY <1>2, <2>3, <2>6, <2>7, CombineOwner
<1> QED
  BY <1>3, <1>4

LEMMA FailureOwner ==
    ASSUME TypeInv, CoherenceInv, OwnerInv, NEW c \in Conns,
           CrashAndReopen(c) \/ StatementFails(c) \/ SqliteRollsBack(c)
    PROVE  OwnerInv'
<1>1. OwnerOK(c) /\ ~misled /\ owner[c] \in Handles \cup {NoHandle}
  BY DEF OwnerInv, TypeInv, RestOK, CallerOK
<1>2. Return(c)
  BY DEF CrashAndReopen, StatementFails, SqliteRollsBack, Return
<1>3. (\A b \in Conns \ {c} : call'[b] = call[b]) /\ ~call'[c].owns
  BY <1>2, IdleFacts
<1>4. CASE CrashAndReopen(c) \/ SqliteRollsBack(c)
  <2>1. /\ EndTransaction(c) /\ misled' = misled
        /\ owner' = [owner EXCEPT ![c] = NoHandle]
    BY <1>4 DEF CrashAndReopen, SqliteRollsBack, DiscardImage
  <2>2. /\ outer'[c] \subseteq dropped'[c]
        /\ \A b \in Conns \ {c} : outer'[b] = outer[b] /\ dropped'[b] = dropped[b]
    BY <1>1, <1>4
    DEF CrashAndReopen, SqliteRollsBack, OwnerOK, Owning, TypeInv, RestOK,
        CallerOK
  <2>3. owner'[c] = NoHandle /\ \A b \in Conns \ {c} :
            owner'[b] = owner[b] /\ auto'[b] = auto[b]
    BY <2>1 DEF EndTransaction, TypeInv, RestOK, CallerOK, SqliteOK
  <2>4. OwnerOK(c)'
    BY <2>2, <2>3 DEF OwnerOK
  <2> QED
    BY <1>1, <1>3, <2>1, <2>2, <2>3, <2>4, CombineOwner
<1>5. CASE StatementFails(c)
  <2>1. UNCHANGED <<outer, owner, dropped, misled>>
    BY <1>5 DEF StatementFails, handles, ghosts
  <2>2. /\ \A b \in Conns \ {c} : auto'[b] = auto[b]
        /\ ~call[c].owns => auto' = auto
    BY <1>5
    DEF StatementFails, UndoScope, DiscardImage, EndTransaction, sqlite, TypeInv,
        SqliteOK
  <2>3. OwnerOK(c)'
    BY <1>1, <1>3, <2>1, <2>2 DEF OwnerOK
  <2> QED
    BY <1>1, <1>3, <2>1, <2>2, <2>3, CombineOwner
<1> QED
  BY <1>4, <1>5

(* The calls leave the handles alone, and end no transaction of theirs. *)
LEMMA CallOwner ==
    ASSUME TypeInv, OwnerInv, NEW c \in Conns, CallStep(c) \/ StartCall(c)
    PROVE  OwnerInv'
<1>1. UNCHANGED <<outer, owner, dropped, misled>>
  BY DEF CallStep, SchemaStep, BodyStep, Inspect, SchemaBegin, SchemaCreate,
         SchemaCommit, Verify, ReadRows, LookupStore, EnsureStore, PruneRows,
         MutationBegin, RegisterForPut, RemoveRow, AppendChange, UpsertRow,
         StoreRevision, MutationCommit, BeginStoreMutation, StartCall, Start,
         handles, ghosts
<1>2. /\ \A b \in Conns \ {c} : auto'[b] = auto[b]
      /\ ~auto[c] /\ ~call[c].owns => ~auto'[c]
  BY DEF CallStep, SchemaStep, BodyStep, Inspect, SchemaBegin, SchemaCreate,
         SchemaCommit, Verify, ReadRows, LookupStore, EnsureStore, PruneRows,
         MutationBegin, RegisterForPut, RemoveRow, AppendChange, UpsertRow,
         StoreRevision, MutationCommit, BeginStoreMutation, StartCall, Start,
         ReadStatement, WriteStatement, EndScope, CommitImage, EndTransaction,
         BeginImmediate, sqlite, TypeInv, SqliteOK
<1>3. /\ \A b \in Conns \ {c} : call'[b] = call[b]
      /\ ~auto[c] /\ ~call[c].owns => ~call'[c].owns
  <2>1. CASE StartCall(c)
    BY <2>1 DEF StartCall, Start, IdleCall, TypeInv, RestOK
  <2>2. CASE SchemaBegin(c) \/ MutationBegin(c)
    BY <2>2 DEF SchemaBegin, MutationBegin, BeginStoreMutation, TypeInv, RestOK,
       Call
  <2>3. CASE SchemaCommit(c)
    BY <2>3 DEF SchemaCommit, TypeInv, RestOK, Call
  <2>4. CASE AppendChange(c)
    BY <2>4 DEF AppendChange, TypeInv, RestOK, Call
  <2>5. CASE Return(c)
    BY <2>5, IdleFacts
  <2>6. ASSUME NEW step, Goto(c, step)
        PROVE  (\A b \in Conns \ {c} : call'[b] = call[b])
               /\ call'[c].owns = call[c].owns
    BY <2>6, GotoFacts
  <2> QED
    BY <2>1, <2>2, <2>3, <2>4, <2>5, <2>6
    DEF CallStep, SchemaStep, BodyStep, Inspect, SchemaCreate, Verify, ReadRows,
        LookupStore, EnsureStore, PruneRows, RegisterForPut, RemoveRow,
        UpsertRow, StoreRevision, MutationCommit
<1>4. OwnerOK(c)'
  BY <1>1, <1>2, <1>3 DEF OwnerOK, OwnerInv
<1> QED
  BY <1>1, <1>2, <1>3, <1>4, CombineOwner DEF OwnerInv

LEMMA OwnerInit == Init => OwnerInv
BY DEF Init, OwnerInv, OwnerOK

LEMMA OwnerStep ==
    TypeInv /\ CoherenceInv /\ OwnerInv /\ [Next]_vars => OwnerInv'
<1> SUFFICES ASSUME TypeInv, CoherenceInv, OwnerInv, [Next]_vars PROVE OwnerInv'
  OBVIOUS
<1>1. CASE Next
  BY <1>1, CallerOwner, FailureOwner, CallOwner DEF Next, CallerStep
<1>2. CASE UNCHANGED vars
  BY <1>2 DEF vars, OwnerInv, OwnerOK
<1> QED
  BY <1>1, <1>2

LEMMA HistoryInit == Init => HistoryInv
<1> SUFFICES ASSUME Init PROVE HistoryInv
  OBVIOUS
<1>1. disk = EmptyImage /\ acked = {}
  BY DEF Init
<1>2. ASSUME NEW c \in Conns PROVE ShareOK(c)
  <2>1. /\ view[c] = EmptyImage /\ save[c] = EmptyImage /\ lock[c] = "none"
        /\ auto[c] /\ promised[c] = {} /\ call[c] = IdleCall
        /\ writer # c
    BY NoConnAssumption DEF Init
  <2>2. InFlightOK(IdleCall, "none", EmptyImage) /\ ~Nested(c)
    BY <2>1, EmptyImageHistory DEF InFlightOK, IdleCall, Nested, ScopeSteps
  <2>3. LineOK(c) /\ PromiseOK(c)
    BY <2>1, <2>2 DEF LineOK, PromiseOK
  <2> QED
    BY <2>1, <2>2, <2>3, EmptyImageHistory DEF ShareOK
<1> QED
  BY <1>1, <1>2, EmptyImageHistory DEF HistoryInv

LEMMA HistoryStep == AllInv /\ [Next]_vars => HistoryInv'
<1> SUFFICES ASSUME AllInv, [Next]_vars PROVE HistoryInv'
  OBVIOUS
<1>1. CASE Next
  <2>1. PICK c \in Conns :
          \/ CallerStep(c) \/ CrashAndReopen(c)
          \/ StartCall(c) \/ CallStep(c)
          \/ StatementFails(c) \/ SqliteRollsBack(c)
    BY <1>1 DEF Next
  <2> QED
    BY <2>1, CallerHistory, FailureHistory, StartHistory, SchemaStepHistory,
       PlainStepHistory, MutationStepHistory
    DEF CallStep, BodyStep, CallerStep
<1>2. CASE UNCHANGED vars
  BY <1>2 DEF vars, AllInv, HistoryInv, ShareOK, LineOK, PromiseOK, Nested
<1> QED
  BY <1>1, <1>2

LEMMA Invariants == Spec => []AllInv
<1>1. Init => AllInv
  BY TypeInit, CoherenceInit, OwnerInit, HistoryInit DEF AllInv
<1>2. AllInv /\ [Next]_vars => AllInv'
  BY TypeStep, CoherenceStep, OwnerStep, HistoryStep DEF AllInv
<1> QED
  BY <1>1, <1>2, PTL DEF Spec

(* Revisions of committed mutations are 1..revision, each given once       *)
(* (insert_change, set_store_revision), whatever connections, crashes,     *)
(* failed statements and rollbacks do.                                     *)
THEOREM HistoryIsContiguous == Spec => []HistoryContiguous
<1>1. AllInv => HistoryContiguous
  <2> SUFFICES ASSUME AllInv PROVE HistoryContiguous
    OBVIOUS
  <2>1. disk \in Image /\ disk.meta = disk.seq /\ NumberedOK(disk)
    BY DEF AllInv, TypeInv, SqliteOK, CoherenceInv, Coherent, HistoryInv, HistoryOK
  <2>2. \A e \in disk.hist : e.rev \in 1..disk.seq
    BY <2>1, MaxRevisionAssumption DEF NumberedOK, Image, Change, Revisions
  <2> QED
    BY <2>1, <2>2 DEF HistoryContiguous, NumberedOK
<1> QED
  BY <1>1, Invariants, PTL

(* The rows esdb_object_store_prune leaves in __esdb_object_changes are    *)
(* the newest part of the history.                                         *)
THEOREM PruneLeavesSuffix == Spec => []JournalIsSuffix
<1>1. AllInv => JournalIsSuffix
  <2> SUFFICES ASSUME AllInv PROVE JournalIsSuffix
    OBVIOUS
  <2>1. PICK k \in 0..disk.seq : disk.changes = {e \in disk.hist : e.rev > k}
    BY DEF AllInv, HistoryInv, HistoryOK, JournalOK
  <2>2. disk.seq \in Nat /\ \A e \in disk.hist : e.rev \in Nat
    BY MaxRevisionAssumption
    DEF AllInv, TypeInv, SqliteOK, Image, Change, Revisions
  <2> QED
    BY <2>1, <2>2 DEF JournalIsSuffix
<1> QED
  BY <1>1, Invariants, PTL

(* A mutation reported OK outside a caller's transaction, or in one that   *)
(* esdb_commit of its own handle has committed, is in the committed        *)
(* history for good; and no esdb_commit answers OK for the transaction of  *)
(* another handle, except that of a handle whose transaction SQLite has    *)
(* ended by itself, or which was ended by such a handle.  In that case the *)
(* code does answer OK for lost changes (finish_transaction looks at the   *)
(* connection, not at the handle).                                         *)
THEOREM AcknowledgedIsDurable == Spec => []AckedIsDurable
<1>1. AllInv => AckedIsDurable
  BY DEF AllInv, OwnerInv, HistoryInv, AckedIsDurable
<1> QED
  BY <1>1, Invariants, PTL

-----------------------------------------------------------------------------
(* The committed image only moves forward. *)

LEMMA MovesForward ==
    ASSUME AllInv, [Next]_vars
    PROVE  Extends(disk, disk') /\ acked \subseteq acked'
<1>1. Extends(disk, disk)
  BY ExtendsReflexive DEF AllInv, TypeInv, SqliteOK
<1>2. ASSUME NEW c \in Conns, CommitImage(c)
      PROVE  Extends(disk, disk')
  BY <1>1, <1>2 DEF CommitImage, AllInv, HistoryInv, ShareOK, LineOK
<1>3. ASSUME NEW c \in Conns, NEW d \in Image, WriteStatement(c, d),
             Extends(Visible(c), d)
      PROVE  Extends(disk, disk')
  <2>1. CASE auto[c]
    <3>1. disk' = d
      BY <1>3, <2>1 DEF WriteStatement
    <3>2. Visible(c) = disk
      BY <2>1 DEF Visible, AllInv, CoherenceInv, ScopeOK
    <3> QED
      BY <1>3, <3>1, <3>2
  <2>2. CASE ~auto[c]
    BY <1>1, <1>3, <2>2 DEF WriteStatement
  <2> QED
    BY <2>1, <2>2
<1>4. ASSUME NEW c \in Conns, EnsureStore(c) \/ PruneRows(c)
      PROVE  Extends(disk, disk')
  <2>1. /\ Visible(c) \in Image /\ HistoryOK(Visible(c))
        /\ call[c].at[1] \in Stores /\ call[c].rev \in 0..MaxRevision
    BY <1>4, Images, Locals
    DEF EnsureStore, PruneRows, Table, At, AllInv, CallOK, Call, Places
  <2>2. CASE EnsureStore(c)
    <3>1. WriteStatement(c, RegisterStore(Visible(c), call[c].at[1]))
      BY <2>2 DEF EnsureStore
    <3> QED
      BY <1>3, <2>1, <3>1, RegisterHistory
  <2>3. CASE PruneRows(c)
    <3>1. WriteStatement(c, PruneChanges(Visible(c), call[c].rev))
      BY <2>3 DEF PruneRows
    <3> QED
      BY <1>3, <2>1, <3>1, PruneHistory
  <2> QED
    BY <1>4, <2>2, <2>3
<1>5. ASSUME NEW c \in Conns, NEW d, WriteStatement(c, d), ~auto[c]
      PROVE  disk' = disk
  BY <1>5 DEF WriteStatement
<1>6. ASSUME NEW c \in Conns, CallStep(c), call[c].pc \in ScopeSteps
      PROVE  disk' = disk \/ CommitImage(c)
  <2>1. ~auto[c]
    BY <1>6 DEF AllInv, CoherenceInv, ScopeOK
  <2>2. CASE SchemaStep(c)
    BY <1>5, <1>6, <2>1, <2>2
    DEF SchemaStep, At, Inspect, SchemaBegin, SchemaCreate, SchemaCommit,
        Verify, ScopeSteps, EndScope, ReadStatement
  <2>3. CASE BodyStep(c)
    BY <1>5, <1>6, <2>1, <2>3
    DEF BodyStep, Table, At, ReadRows, LookupStore, EnsureStore, PruneRows,
        MutationBegin, RegisterForPut, RemoveRow, AppendChange, UpsertRow,
        StoreRevision, MutationCommit, ScopeSteps, EndScope
  <2> QED
    BY <1>6, <2>2, <2>3 DEF CallStep
<1>7. ASSUME NEW c \in Conns, CallStep(c), call[c].pc \notin ScopeSteps
      PROVE  disk' = disk \/ EnsureStore(c) \/ PruneRows(c)
  BY <1>7
  DEF CallStep, SchemaStep, BodyStep, Table, At, Inspect, SchemaBegin,
      SchemaCreate, SchemaCommit, Verify, ReadRows, LookupStore, MutationBegin,
      RegisterForPut, RemoveRow, AppendChange, UpsertRow, StoreRevision,
      MutationCommit, ScopeSteps, ReadStatement, BeginStoreMutation,
      BeginImmediate
<1>8. CASE Next
  <2>1. PICK c \in Conns :
          \/ CallerStep(c) \/ CrashAndReopen(c)
          \/ StartCall(c) \/ CallStep(c)
          \/ StatementFails(c) \/ SqliteRollsBack(c)
    BY <1>8 DEF Next
  <2>2. CASE CallStep(c)
    <3>1. Extends(disk, disk')
      BY <1>1, <1>2, <1>4, <1>6, <1>7, <2>2
    <3>2. acked \subseteq acked'
      BY <2>2, StepFrame DEF MutationCommit
    <3> QED
      BY <3>1, <3>2
  <2>3. ASSUME NEW h \in Handles, CallerCommit(c, h)
        PROVE  Extends(disk, disk') /\ acked \subseteq acked'
    BY <1>2, <2>3 DEF CallerCommit
  <2>4. CASE ~CallStep(c) /\ ~\E h \in Handles : CallerCommit(c, h)
    <3>1. disk' = disk /\ acked' = acked
      BY <2>1, <2>4
      DEF CallerStep, CallerBegin, BeginImmediate, CallerRollback, CrashAndReopen,
          DiscardImage, StartCall, Start, StatementFails, UndoScope,
          SqliteRollsBack, sqlite, ghosts
    <3> QED
      BY <1>1, <3>1, SMTT(60)
  <2> QED
    BY <2>2, <2>3, <2>4
<1>9. CASE UNCHANGED vars
  BY <1>1, <1>9 DEF vars
<1> QED
  BY <1>8, <1>9

(* No step takes a committed change, store or acknowledgement back, or     *)
(* restores a change row that was pruned: COMMIT publishes an image that   *)
(* continues the committed one, and everything else leaves it alone.       *)
THEOREM CommittedMovesForward ==
    Spec => [][Extends(disk, disk') /\ acked \subseteq acked']_vars
<1>1. AllInv /\ [Next]_vars => [Extends(disk, disk') /\ acked \subseteq acked']_vars
  BY MovesForward
<1> QED
  BY <1>1, Invariants, PTL DEF Spec

-----------------------------------------------------------------------------
(* The refinement of RevisionedStore. *)

RowOf(d, r) == CHOOSE e \in d.hist : e.rev = r
Log(d) == [r \in 1..d.meta |-> [at |-> RowOf(d, r).at, op |-> RowOf(d, r).op]]
Settled(d) == d \in Image /\ HistoryOK(d) /\ Coherent(d) /\ Replayed(d)

LEMMA SettledNumbers ==
    ASSUME NEW d, Settled(d)
    PROVE  /\ d.seq \in Nat /\ d.meta = d.seq /\ d.seq <= MaxRevision
           /\ \A e \in d.hist : /\ e.rev \in 1..d.seq /\ e.at \in Places
                                /\ e.op \in {"put", "delete"}
BY MaxRevisionAssumption
DEF Settled, Coherent, Image, Change, Revisions, HistoryOK, NumberedOK

LEMMA RowOfRevision ==
    ASSUME NEW d, Settled(d), NEW r \in 1..d.seq
    PROVE  /\ RowOf(d, r) \in d.hist /\ RowOf(d, r).rev = r
           /\ \A e \in d.hist : e.rev = r => e = RowOf(d, r)
<1>1. PICK e \in d.hist : e.rev = r
  BY DEF Settled, HistoryOK, NumberedOK
<1>2. RowOf(d, r) \in d.hist /\ RowOf(d, r).rev = r
  BY <1>1 DEF RowOf
<1> QED
  BY <1>2 DEF Settled, HistoryOK, NumberedOK

LEMMA LogOfImage ==
    ASSUME NEW d, Settled(d)
    PROVE  /\ Log(d) \in Seq(Abstract!Entry) /\ Len(Log(d)) = d.seq
           /\ \A r \in 1..d.seq : /\ Log(d)[r].at = RowOf(d, r).at
                                  /\ Log(d)[r].op = RowOf(d, r).op
<1>1. d.seq \in Nat /\ d.meta = d.seq
  BY SettledNumbers
<1>2. ASSUME NEW r \in 1..d.seq
      PROVE  [at |-> RowOf(d, r).at, op |-> RowOf(d, r).op] \in Abstract!Entry
  BY RowOfRevision, SettledNumbers DEF Abstract!Entry, Abstract!Places, Places
<1>3. Log(d) \in [1..d.seq -> Abstract!Entry]
  BY <1>1, <1>2 DEF Log
<1> QED
  BY <1>1, <1>3 DEF Log

(* Replaying the log of d up to n gives what RecordIs says. *)
LEMMA ReplayOfLog ==
    ASSUME NEW d, Settled(d), NEW n \in 0..d.seq, NEW p, NEW v,
           RecordIs(d, n, p, v)
    PROVE  Abstract!RecordAfter(Log(d), n, p) = v
<1> DEFINE touching == {r \in 1..n : Log(d)[r].at = p}
           last == CHOOSE r \in touching : \A q \in touching : q <= r
<1>1. d.seq \in Nat /\ \A e \in d.hist : e.rev \in 1..d.seq
  BY SettledNumbers
<1>2. ASSUME NEW r \in 1..n
      PROVE  r \in touching <=> RowOf(d, r).at = p
  BY <1>1, LogOfImage
<1>3. ASSUME NEW e \in d.hist, e.rev <= n
      PROVE  e.rev \in 1..n /\ (e.rev \in touching <=> e.at = p)
             /\ RowOf(d, e.rev) = e
  <2>1. e.rev \in 1..n /\ e.rev \in 1..d.seq
    BY <1>1, <1>3
  <2>2. RowOf(d, e.rev) = e
    BY <2>1, RowOfRevision
  <2> QED
    BY <1>2, <2>1, <2>2
<1>4. CASE v = 0 /\ \A e \in d.hist : e.rev <= n => e.at # p
  <2>1. ASSUME NEW r \in touching PROVE FALSE
    <3>1. r \in 1..n /\ r \in 1..d.seq
      BY <1>1
    <3>2. RowOf(d, r) \in d.hist /\ RowOf(d, r).rev = r
      BY <3>1, RowOfRevision
    <3> QED
      BY <1>2, <1>4, <3>1, <3>2
  <2>2. touching = {}
    BY <2>1
  <2> QED
    BY <1>4, <2>2 DEF Abstract!RecordAfter
<1>5. ASSUME NEW e \in d.hist, LastAt(d, n, p, e),
             v = IF e.op = "delete" THEN 0 ELSE e.rev
      PROVE  Abstract!RecordAfter(Log(d), n, p) = v
  <2>1. e.at = p /\ e.rev <= n
    BY <1>5 DEF LastAt
  <2>2. e.rev \in touching /\ RowOf(d, e.rev) = e
    BY <1>3, <2>1
  <2>3. ASSUME NEW q \in touching PROVE q <= e.rev
    <3>1. q \in 1..n /\ q \in 1..d.seq
      BY <1>1
    <3>2. RowOf(d, q) \in d.hist /\ RowOf(d, q).rev = q /\ RowOf(d, q).at = p
      BY <1>2, <3>1, RowOfRevision
    <3> QED
      BY <1>5, <3>1, <3>2 DEF LastAt
  <2>4. last \in touching /\ \A q \in touching : q <= last
    BY <2>2, <2>3
  <2>5. touching \subseteq Nat
    BY <1>1
  <2> HIDE DEF last
  <2>6. last = e.rev
    <3>1. last <= e.rev
      BY <2>3, <2>4
    <3>2. e.rev <= last
      BY <2>2, <2>4
    <3>3. last \in Nat /\ e.rev \in Nat
      BY <2>2, <2>4, <2>5
    <3> QED
      BY <3>1, <3>2, <3>3
  <2>7. Log(d)[last].op = e.op
    BY <1>1, <2>1, <2>2, <2>6, LogOfImage
  <2> QED
    BY <1>5, <2>2, <2>6, <2>7 DEF Abstract!RecordAfter, last
<1> QED
  BY <1>4, <1>5 DEF RecordIs

(* The log of an image that continues d continues the log of d. *)
LEMMA LogExtends ==
    ASSUME NEW d, NEW e, Settled(d), Settled(e), Extends(d, e)
    PROVE  \E n \in 0..(MaxRevision - d.seq) :
              \E batch \in [1..n -> Abstract!Entry] :
                 /\ Log(e) = Log(d) \o batch
                 /\ \A i \in 1..n : batch[i] = Log(e)[d.seq + i]
                 /\ n = e.seq - d.seq
<1> DEFINE n == e.seq - d.seq
           batch == [i \in 1..n |-> Log(e)[d.seq + i]]
<1>1. d.seq \in Nat /\ e.seq \in Nat /\ d.seq <= e.seq /\ e.seq <= MaxRevision
  BY SettledNumbers DEF Extends
<1>2. n \in 0..(MaxRevision - d.seq)
  BY <1>1, MaxRevisionAssumption
<1>3. Log(e) \in Seq(Abstract!Entry) /\ Len(Log(e)) = e.seq
      /\ Log(d) \in Seq(Abstract!Entry) /\ Len(Log(d)) = d.seq
  BY LogOfImage
<1>4. batch \in [1..n -> Abstract!Entry]
  <2>1. ASSUME NEW i \in 1..n PROVE Log(e)[d.seq + i] \in Abstract!Entry
    <3>1. d.seq + i \in 1..Len(Log(e))
      BY <1>1, <1>3
    <3> QED
      BY <1>3, <3>1
  <2> QED
    BY <2>1
<1>5. batch \in Seq(Abstract!Entry) /\ Len(batch) = n
  BY <1>1, <1>4, SMTT(60)
<1>6. ASSUME NEW r \in 1..d.seq PROVE Log(e)[r] = Log(d)[r]
  <2>1. r \in 1..e.seq
    BY <1>1
  <2>2. RowOf(d, r) \in e.hist /\ RowOf(d, r).rev = r
    BY RowOfRevision DEF Extends
  <2>3. RowOf(e, r) = RowOf(d, r)
    BY <2>1, <2>2, RowOfRevision
  <2> QED
    BY <1>1, <2>1, <2>3, SettledNumbers DEF Log
<1>7. ASSUME NEW i \in 1..n PROVE batch[i] = Log(e)[d.seq + i]
  OBVIOUS
<1>8. n = e.seq - d.seq
  OBVIOUS
<1> HIDE DEF batch, n
<1>9. Log(e) = Log(d) \o batch
  <2>1. /\ Log(d) \o batch \in Seq(Abstract!Entry)
        /\ Len(Log(d) \o batch) = e.seq
        /\ \A r \in 1..e.seq : (Log(d) \o batch)[r] =
               IF r <= d.seq THEN Log(d)[r] ELSE batch[r - d.seq]
    <3>1. /\ Log(d) \o batch \in Seq(Abstract!Entry)
          /\ Len(Log(d) \o batch) = Len(Log(d)) + Len(batch)
          /\ \A r \in 1..(Len(Log(d)) + Len(batch)) : (Log(d) \o batch)[r] =
                IF r <= Len(Log(d)) THEN Log(d)[r] ELSE batch[r - Len(Log(d))]
      BY <1>3, <1>5, ConcatProperties, Zenon
    <3>2. Len(Log(d)) + Len(batch) = e.seq
      BY <1>1, <1>3, <1>5, <1>8
    <3> QED
      BY <1>3, <3>1, <3>2
  <2>2. ASSUME NEW r \in 1..e.seq PROVE Log(e)[r] = (Log(d) \o batch)[r]
    <3>1. CASE r <= d.seq
      BY <1>1, <1>6, <2>1, <3>1
    <3>2. CASE r > d.seq
      <4>1. r - d.seq \in 1..n
        BY <1>1, <1>8, <3>2
      <4>2. PICK i \in 1..n : i = r - d.seq
        BY <4>1
      <4>3. d.seq + i = r
        BY <1>1, <4>2
      <4>4. batch[i] = Log(e)[r]
        BY <1>7, <4>3
      <4> QED
        BY <1>1, <2>1, <3>2, <4>2, <4>4
    <3>3. r <= d.seq \/ r > d.seq
      BY <1>1
    <3> QED
      BY <3>1, <3>2, <3>3, Zenon
  <2> QED
    BY <1>3, <2>1, <2>2, SeqEqual
<1> QED
  BY <1>2, <1>4, <1>7, <1>8, <1>9

(* The floor is the last revision that has been pruned. *)
LEMMA FloorOfImage ==
    ASSUME NEW d, Settled(d), NEW k \in 0..d.seq,
           d.changes = {e \in d.hist : e.rev > k}
    PROVE  d.meta - Cardinality(d.changes) = k
<1> DEFINE f == [r \in (k + 1)..d.seq |-> RowOf(d, r)]
           S == (k + 1)..d.seq
<1>1. /\ d.seq \in Nat /\ d.meta = d.seq
      /\ \A e \in d.hist : e.rev \in 1..d.seq
  BY SettledNumbers
<1>2. ASSUME NEW r \in S
      PROVE  r \in 1..d.seq /\ RowOf(d, r) \in d.changes /\ RowOf(d, r).rev = r
  BY <1>1, RowOfRevision
<1>3. f \in [S -> d.changes]
  BY <1>2
<1>4. \A q, r \in S : f[q] = f[r] => q = r
  BY <1>2
<1>5. ASSUME NEW e \in d.changes PROVE \E r \in S : f[r] = e
  <2>1. e \in d.hist /\ e.rev \in S /\ e.rev \in 1..d.seq
    BY <1>1
  <2>2. RowOf(d, e.rev) = e
    BY <2>1, RowOfRevision
  <2> QED
    BY <2>1, <2>2
<1>6. ExistsBijection(S, d.changes)
  BY <1>3, <1>4, <1>5
  DEF ExistsBijection, Bijection, Injection, Surjection, IsInjective
<1>7. IsFiniteSet(S) /\ Cardinality(S) = d.seq - k
  <2> DEFINE a == k + 1
  <2>1. a \in Int /\ d.seq \in Int
    BY <1>1
  <2> HIDE DEF a
  <2>2. /\ IsFiniteSet(a..d.seq)
        /\ Cardinality(a..d.seq) = IF a > d.seq THEN 0 ELSE d.seq - a + 1
    BY <2>1, FS_Interval
  <2> QED
    BY <1>1, <2>2 DEF a
<1>8. Cardinality(d.changes) = d.seq - k
  BY <1>6, <1>7, FS_Bijection
<1> QED
  BY <1>1, <1>8

LEMMA CommittedSettled ==
    ASSUME AllInv
    PROVE  Settled(disk)
BY DEF AllInv, TypeInv, SqliteOK, CoherenceInv, HistoryInv, Settled

(* Further prunes move the floor up. *)
LEMMA FloorMoves ==
    ASSUME NEW d, NEW e, Settled(d), Settled(e), Extends(d, e)
    PROVE  e.meta - Cardinality(e.changes) \in
              (d.meta - Cardinality(d.changes))..e.seq
<1>1. PICK j \in 0..d.seq : d.changes = {f \in d.hist : f.rev > j}
  BY DEF Settled, HistoryOK, JournalOK
<1>2. PICK k \in 0..e.seq : e.changes = {f \in e.hist : f.rev > k}
  BY DEF Settled, HistoryOK, JournalOK
<1>3. /\ d.meta - Cardinality(d.changes) = j
      /\ e.meta - Cardinality(e.changes) = k
  BY <1>1, <1>2, FloorOfImage
<1>4. d.seq \in Nat /\ e.seq \in Nat /\ d.seq <= e.seq
  BY SettledNumbers DEF Extends
<1>5. ASSUME k < j PROVE FALSE
  <2>1. j \in 1..d.seq /\ j \in 1..e.seq
    BY <1>1, <1>2, <1>4, <1>5
  <2>2. PICK f \in e.hist : f.rev = j
    BY <2>1 DEF Settled, HistoryOK, NumberedOK
  <2>3. f \in e.changes
    BY <1>2, <1>5, <2>2
  <2>4. f \in d.changes
    BY <2>1, <2>2, <2>3, <1>4 DEF Extends
  <2> QED
    BY <1>1, <2>1, <2>2, <2>4
<1> QED
  BY <1>1, <1>2, <1>3, <1>4, <1>5

LEMMA AbstractInit == Init => Abstract!Init
<1> SUFFICES ASSUME Init PROVE Abstract!Init
  OBVIOUS
<1>1. /\ disk.meta = 0 /\ disk.changes = {} /\ disk.stores = {} /\ acked = {}
      /\ disk.records = [p \in Places |-> 0]
  BY DEF Init, EmptyImage
<1>2. disk.meta - Cardinality(disk.changes) = 0
  BY <1>1, FS_EmptySet
<1>3. [r \in 1..disk.meta |-> [at |-> ChangeOf(r).at, op |-> ChangeOf(r).op]] = <<>>
  BY <1>1
<1> QED
  BY <1>1, <1>2, <1>3 DEF Abstract!Init, Abstract!Places, Places

LEMMA AbstractStep ==
    AllInv /\ AllInv' /\ [Next]_vars => [Abstract!Commit]_(Abstract!vars)
<1> SUFFICES ASSUME AllInv, AllInv', [Next]_vars, ~UNCHANGED Abstract!vars
             PROVE  Abstract!Commit
  OBVIOUS
<1>1. Settled(disk) /\ Settled(disk') /\ Extends(disk, disk')
      /\ acked \subseteq acked' /\ acked' \subseteq disk'.hist
  <2>1. Settled(disk)'
    BY CommittedSettled DEF AllInv, TypeInv, SqliteOK, CoherenceInv, HistoryInv,
       Settled
  <2> QED
    BY <2>1, CommittedSettled, MovesForward DEF AllInv, HistoryInv, Settled
<1> DEFINE log == [r \in 1..disk.meta |-> [at |-> ChangeOf(r).at, op |-> ChangeOf(r).op]]
<1>2. log = Log(disk) /\ log' = Log(disk')
  BY DEF Log, RowOf, ChangeOf
<1>3. /\ Len(Log(disk)) = disk.seq /\ Len(Log(disk')) = disk'.seq
      /\ disk.seq \in Nat /\ disk'.seq \in Nat
  BY <1>1, LogOfImage, SettledNumbers
<1>4. PICK n \in 0..(MaxRevision - disk.seq) :
        \E batch \in [1..n -> Abstract!Entry] :
           /\ Log(disk') = Log(disk) \o batch
           /\ \A i \in 1..n : batch[i] = Log(disk')[disk.seq + i]
           /\ n = disk'.seq - disk.seq
  BY <1>1, LogExtends
<1>5. PICK batch \in [1..n -> Abstract!Entry] :
           /\ Log(disk') = Log(disk) \o batch
           /\ \A i \in 1..n : batch[i] = Log(disk')[disk.seq + i]
           /\ n = disk'.seq - disk.seq
  BY <1>4
<1>6. Len(batch) = n
  BY <1>3, <1>5
<1>7. disk'.records = [p \in Abstract!Places |->
                          Abstract!RecordAfter(Log(disk'), disk'.seq, p)]
  <2>1. ASSUME NEW p \in Places
        PROVE  disk'.records[p] = Abstract!RecordAfter(Log(disk'), disk'.seq, p)
    <3>1. RecordIs(disk', disk'.seq, p, disk'.records[p])
      BY <1>1 DEF Settled, Replayed, ReplayedAt
    <3> QED
      BY <1>1, <1>3, <3>1, ReplayOfLog
  <2>2. disk'.records \in [Places -> 0..MaxRevision]
    BY <1>1 DEF Settled, Image
  <2> QED
    BY <2>1, <2>2 DEF Abstract!Places, Places
<1>8. ASSUME NEW i \in 1..n
      PROVE  /\ batch[i].at[1] \in disk'.stores
             /\ batch[i].op = "delete" =>
                   Abstract!RecordAfter(Log(disk'), disk.seq + i - 1, batch[i].at) # 0
  <2> DEFINE q == disk.seq + i
             row == RowOf(disk', q)
  <2>1. q \in 1..disk'.seq /\ q - 1 \in 0..disk'.seq
    BY <1>3, <1>5, SMTT(60)
  <2>2. row \in disk'.hist /\ row.rev = q
    BY <1>1, <2>1, RowOfRevision
  <2>3. batch[i].at = row.at /\ batch[i].op = row.op
    BY <1>1, <1>5, <2>1, LogOfImage
  <2> HIDE DEF row
  <2>4. row.at[1] \in disk'.stores
    BY <1>1, <2>2 DEF Settled, HistoryOK, RowsOK
  <2>5. ASSUME row.op = "delete"
        PROVE  Abstract!RecordAfter(Log(disk'), q - 1, row.at) # 0
    <3>1. PICK f \in disk'.hist : LastAt(disk', q - 1, row.at, f) /\ f.op = "put"
      BY <1>1, <2>2, <2>5 DEF Settled, HistoryOK, RowsOK
    <3>2. RecordIs(disk', q - 1, row.at, f.rev)
      BY <3>1 DEF RecordIs
    <3>3. Abstract!RecordAfter(Log(disk'), q - 1, row.at) = f.rev
      BY <1>1, <2>1, <3>2, ReplayOfLog
    <3>4. f.rev # 0
      BY <1>1, <3>1, SettledNumbers
    <3> QED
      BY <3>3, <3>4
  <2>6. batch[i].at[1] \in disk'.stores
    BY <2>3, <2>4
  <2>7. batch[i].op = "delete" =>
           Abstract!RecordAfter(Log(disk'), q - 1, batch[i].at) # 0
    BY <2>3, <2>5, Zenon
  <2>8. disk.seq + i - 1 = q - 1
    BY <1>3
  <2> QED
    BY <2>6, <2>7, <2>8, Zenon
<1> HIDE DEF log
<1>9. Abstract!Extend(batch)
  BY <1>2, <1>3, <1>5, <1>6, <1>7, <1>8 DEF Abstract!Extend, log
<1>10. disk'.meta - Cardinality(disk'.changes) \in
          (disk.meta - Cardinality(disk.changes))..disk'.seq
  BY <1>1, FloorMoves
<1>11. disk.stores \subseteq disk'.stores /\ disk'.stores \subseteq Stores
  BY <1>1 DEF Extends, Settled, Image
<1>12. /\ {e.rev : e \in acked} \subseteq {e.rev : e \in acked'}
       /\ {e.rev : e \in acked'} \subseteq 1..disk'.seq
  BY <1>1, SettledNumbers
<1> QED
  BY <1>2, <1>3, <1>4, <1>9, <1>10, <1>11, <1>12 DEF Abstract!Commit, log

(* The ObjectStore implements RevisionedStore: seen through the committed  *)
(* image, the statements, transactions and failures of every connection    *)
(* are whole commits, the log and the floor only grow, and the records are *)
(* what replaying the log gives.                                           *)
THEOREM Implements == Spec => ImplementsRevisionedStore
<1>1. AllInv /\ AllInv' /\ [Next]_vars => [Abstract!Commit]_(Abstract!vars)
  BY AbstractStep
<1> QED
  BY <1>1, AbstractInit, Invariants, PTL
  DEF Spec, ImplementsRevisionedStore, Abstract!Spec

=============================================================================
