-------------------------- MODULE AdapterSlotsProofs --------------------------
(***************************************************************************)
(* Proofs about the ExternalObject adapter: the table of slots             *)
(* (AdapterSlots) for every number of threads, slots and generations, and  *)
(* the typed calls made through a slot (TypedQuery) for every table, every *)
(* statement and every limit of a reply.                                   *)
(*                                                                         *)
(* WorksOnItsDatabase and TableConsistent are not inductive.  That a token *)
(* is never given twice rests on the generations (TokenInv: a token of the *)
(* current generation was issued for the database the slot has); that a    *)
(* slot does not change under a call rests on the order of the two locks   *)
(* (LockInv, CallInv: from lock_slot's lookup to the end of the call one   *)
(* of them is held, and close and ESTerminate need both).                  *)
(*                                                                         *)
(* For a typed call QueryInv relates the three things that are filled row  *)
(* by row: the rows delivered are the first of the statement's (Page), the *)
(* rows still to come are the others (Rest), and the number counted is     *)
(* where the one ends and the other begins.  Names and number of columns   *)
(* are read by two statements and agree unless the columns change between  *)
(* them; every cell comes from the table or from a parameter.              *)
(***************************************************************************)
EXTENDS AdapterSlots, Integers, Sequences, FiniteSetTheorems, SequenceTheorems,
        TLAPS

Publishes(t, d) == call[t].pc = "publish" /\ call[t].database = d

PlaceInv ==
    /\ \A d \in live : d <= opened
    /\ \A i \in Indices : slots[i].database # 0 => slots[i].database \in live
    /\ \A t \in Threads : call[t].pc = "publish" =>
          /\ call[t].database \in live
          /\ \A i \in Indices : slots[i].database # call[t].database
    /\ \A i, j \in Indices :
          slots[i].database = slots[j].database /\ slots[i].database # 0 => i = j
    /\ \A t, u \in Threads, d \in live : Publishes(t, d) /\ Publishes(u, d) => t = u
    /\ \A d \in live : \/ \E i \in Indices : slots[i].database = d
                       \/ \E t \in Threads : Publishes(t, d)

TokenInv ==
    /\ \A e \in issued :
          /\ e.token.generation <= slots[e.token.slot].generation
          /\ /\ e.token.generation = slots[e.token.slot].generation
             /\ ~slots[e.token.slot].retired
             => slots[e.token.slot].database = e.database
    /\ \A e, f \in issued : e.token = f.token => e.database = f.database
    /\ \A i \in Indices : slots[i].database # 0 =>
          /\ ~slots[i].retired
          /\ \E e \in issued :
                e.token = [slot |-> i, generation |-> slots[i].generation]

LockInv ==
    /\ \A t \in Threads, i \in Indices :
          slots[i].holder = t <=> call[t].pc = "work" /\ call[t].at = i
    /\ \A t \in Threads :
          table = t <=> \/ call[t].pc = "slot"
                        \/ call[t].pc = "work" /\ call[t].op = "close"

CallInv ==
    \A t \in Threads :
        /\ call[t].pc \in {"table", "slot", "work"} =>
              \/ call[t].op = "terminate" /\ call[t].pc # "work" /\ call[t].at >= 1
              \/ /\ call[t].op \in SlotCalls \cup {"close"}
                 /\ call[t].at = call[t].token.slot
        /\ call[t].pc \in {"slot", "work"} /\ call[t].op # "terminate" =>
              LookupSlot(call[t].token)
        /\ call[t].pc = "work" => call[t].database = slots[call[t].at].database

IInv ==
    /\ TypeOK /\ PlaceInv /\ TokenInv /\ LockInv /\ CallInv
    /\ TransactionOfItsDatabase

-----------------------------------------------------------------------------
(* The operators on slots. *)

(* The work of a call keeps what the table knows of the slot. *)
SameEntry(r, s) ==
    /\ r.database = s.database /\ r.generation = s.generation
    /\ r.retired = s.retired /\ r.holder = s.holder

OwnsItsTransaction(s) ==
    s.handle # "none" => s.of = s.database /\ s.database # 0

LEMMA ZeroOK == 0 \in 0..MaxOpens
BY SlotsAssumption

LEMMA WorkOK ==
    ASSUME NEW s \in Slot, s.database # 0, OwnsItsTransaction(s),
           NEW op \in SlotCalls, NEW r \in WorkOf(op, s)
    PROVE  r \in Slot /\ SameEntry(r, s) /\ OwnsItsTransaction(r)
<1>1. CASE op = "begin"
  <2>1. r \in BeginWork(s)
    BY <1>1 DEF WorkOf
  <2>2. \/ r = s
        \/ r = [s EXCEPT !.handle = "active", !.of = s.database, !.open = TRUE]
    BY <2>1, Zenon DEF BeginWork
  <2>3. CASE r = s
    BY <2>3 DEF SameEntry
  <2>4. CASE r = [s EXCEPT !.handle = "active", !.of = s.database, !.open = TRUE]
    <3>1. r \in Slot
      BY <2>4, ZenonT(60) DEF Slot
    <3>2. r.of = s.database /\ SameEntry(r, s)
      BY <2>4, ZenonT(60) DEF Slot, SameEntry
    <3> QED
      BY <3>1, <3>2 DEF SameEntry, OwnsItsTransaction
  <2> QED
    BY <2>2, <2>3, <2>4
<1>2. CASE op \in {"commit", "rollback"}
  <2>1. r \in FinishWork(s)
    BY <1>2 DEF WorkOf
  <2>2. \/ r = s
        \/ r = [s EXCEPT !.handle = "none", !.of = 0, !.open = FALSE]
        \/ r = [s EXCEPT !.handle = "ended", !.open = FALSE] /\ s.handle = "active"
    BY <2>1 DEF FinishWork
  <2> QED
    BY <2>2, ZeroOK, ZenonT(60) DEF Slot, SameEntry, OwnsItsTransaction
<1>3. CASE op = "query"
  <2>1. r \in QueryWork(s)
    BY <1>3 DEF WorkOf
  <2>2. \E b \in BOOLEAN : \/ r = [s EXCEPT !.open = b]
                           \/ r = [[s EXCEPT !.open = b] EXCEPT !.handle = "none", !.of = 0]
    BY <2>1 DEF QueryWork
  <2> QED
    BY <2>2, ZeroOK, ZenonT(60) DEF Slot, SameEntry, OwnsItsTransaction
<1>4. CASE op = "store"
  <2>1. r \in StoreWork(s)
    BY <1>4 DEF WorkOf
  <2> QED
    BY <2>1 DEF StoreWork, Slot, SameEntry, OwnsItsTransaction
<1> QED
  BY <1>1, <1>2, <1>3, <1>4 DEF SlotCalls

LEMMA CloseSlotOK ==
    ASSUME NEW s \in Slot
    PROVE  /\ CloseSlot(s) \in Slot
           /\ CloseSlot(s).database = 0 /\ CloseSlot(s).handle = "none"
           /\ CloseSlot(s).holder = s.holder
           /\ s.generation <= CloseSlot(s).generation
           /\ CloseSlot(s).retired \/ CloseSlot(s).generation > s.generation
           /\ s.retired => CloseSlot(s).retired
<1> DEFINE c == [s EXCEPT !.handle = "none", !.of = 0, !.open = FALSE, !.database = 0]
<1>1. /\ c \in Slot /\ c.database = 0 /\ c.handle = "none" /\ c.holder = s.holder
      /\ c.generation = s.generation /\ c.retired = s.retired
  BY ZeroOK DEF Slot
<1>2. CloseSlot(s) = AdvanceGeneration(c)
  BY DEF CloseSlot
<1> HIDE DEF c
<1>3. CASE c.generation >= GenerationMax
  <2>1. CloseSlot(s) = [c EXCEPT !.retired = TRUE]
    BY <1>2, <1>3 DEF AdvanceGeneration
  <2>2. c.generation <= c.generation
    BY <1>1 DEF Slot, Generations
  <2> QED
    BY <1>1, <2>1, <2>2 DEF Slot
<1>4. CASE ~(c.generation >= GenerationMax)
  <2>1. CloseSlot(s) = [c EXCEPT !.generation = @ + 1]
    BY <1>2, <1>4 DEF AdvanceGeneration
  <2>2. /\ c.generation + 1 \in Generations /\ c.generation + 1 > c.generation
        /\ c.generation <= c.generation + 1
    BY <1>1, <1>4, SlotsAssumption DEF Slot, Generations
  <2> QED
    BY <1>1, <2>1, <2>2 DEF Slot
<1> QED
  BY <1>3, <1>4

LEMMA ReleasedOK ==
    ASSUME NEW s \in Slot
    PROVE  /\ Released(s) \in Slot /\ Released(s).holder = NoThread
           /\ Released(s).database = s.database
           /\ Released(s).generation = s.generation
           /\ Released(s).retired = s.retired
           /\ Released(s).handle = s.handle /\ Released(s).of = s.of
BY DEF Released, Slot, Holders

LEMMA NoCallOK == NoCall \in Call /\ NoCall.pc = "idle"
BY SlotsAssumption DEF NoCall, Call, NoToken, Token, Indices, Generations,
   Operations

-----------------------------------------------------------------------------
(* Steps that leave the databases where they are. *)

SameEntries ==
    \A i \in Indices : /\ slots'[i].database = slots[i].database
                       /\ slots'[i].generation = slots[i].generation
                       /\ slots'[i].retired = slots[i].retired

SamePublishers ==
    \A t \in Threads :
        /\ call'[t].pc = "publish" <=> call[t].pc = "publish"
        /\ call[t].pc = "publish" => call'[t].database = call[t].database

LEMMA QuietPlaces ==
    ASSUME PlaceInv, SameEntries, SamePublishers, UNCHANGED <<live, opened>>
    PROVE  PlaceInv'
<1>1. \A t \in Threads, d \in live : Publishes(t, d)' <=> Publishes(t, d)
  BY DEF Publishes, SamePublishers
<1>2. \A d \in live' : d <= opened'
  BY DEF PlaceInv
<1>3. \A i \in Indices : slots'[i].database # 0 => slots'[i].database \in live'
  BY DEF PlaceInv, SameEntries
<1>4. \A t \in Threads : call'[t].pc = "publish" =>
          /\ call'[t].database \in live'
          /\ \A i \in Indices : slots'[i].database # call'[t].database
  BY DEF PlaceInv, SameEntries, SamePublishers
<1>5. \A i, j \in Indices :
          slots'[i].database = slots'[j].database /\ slots'[i].database # 0 => i = j
  BY DEF PlaceInv, SameEntries
<1>6. \A t, u \in Threads, d \in live' :
          Publishes(t, d)' /\ Publishes(u, d)' => t = u
  BY <1>1 DEF PlaceInv
<1>7. \A d \in live' : \/ \E i \in Indices : slots'[i].database = d
                       \/ \E t \in Threads : Publishes(t, d)'
  BY <1>1 DEF PlaceInv, SameEntries
<1> QED
  BY <1>2, <1>3, <1>4, <1>5, <1>6, <1>7 DEF PlaceInv

LEMMA QuietTokens ==
    ASSUME TypeOK, TokenInv, SameEntries, UNCHANGED issued
    PROVE  TokenInv'
<1>1. \A e \in issued : e.token.slot \in Indices
  BY DEF TypeOK, Token
<1> QED
  BY <1>1 DEF TokenInv, SameEntries

LEMMA QuietTransactions ==
    ASSUME \A i \in Indices : OwnsItsTransaction(slots'[i])
    PROVE  TransactionOfItsDatabase'
BY DEF TransactionOfItsDatabase, OwnsItsTransaction

LEMMA Owned ==
    ASSUME TransactionOfItsDatabase, NEW i \in Indices
    PROVE  OwnsItsTransaction(slots[i])
BY DEF TransactionOfItsDatabase, OwnsItsTransaction

(* The part of CallInv about one thread. *)
CallOK(t) ==
    /\ call[t].pc \in {"table", "slot", "work"} =>
          \/ call[t].op = "terminate" /\ call[t].pc # "work" /\ call[t].at >= 1
          \/ /\ call[t].op \in SlotCalls \cup {"close"}
             /\ call[t].at = call[t].token.slot
    /\ call[t].pc \in {"slot", "work"} /\ call[t].op # "terminate" =>
          LookupSlot(call[t].token)
    /\ call[t].pc = "work" => call[t].database = slots[call[t].at].database

LEMMA CallParts == CallInv <=> \A t \in Threads : CallOK(t)
BY DEF CallInv, CallOK

LEMMA CallPartsPrimed == CallInv' <=> \A t \in Threads : CallOK(t)'
BY DEF CallInv, CallOK

(* A thread that does not move keeps its part as long as the entry of its  *)
(* slot stays.                                                             *)
LEMMA OtherCallOK ==
    ASSUME TypeOK, NEW t \in Threads, CallOK(t), call'[t] = call[t],
           call[t].pc \in {"slot", "work"} /\ call[t].op # "terminate" =>
              LET i == call[t].token.slot
              IN  /\ slots'[i].database = slots[i].database
                  /\ slots'[i].generation = slots[i].generation
                  /\ slots'[i].retired = slots[i].retired
    PROVE  CallOK(t)'
<1>1. CASE call[t].pc \in {"slot", "work"} /\ call[t].op # "terminate"
  <2>1. /\ slots'[call[t].token.slot].database = slots[call[t].token.slot].database
        /\ slots'[call[t].token.slot].generation = slots[call[t].token.slot].generation
        /\ slots'[call[t].token.slot].retired = slots[call[t].token.slot].retired
    BY <1>1
  <2>2. call[t].at = call[t].token.slot
    BY <1>1 DEF CallOK
  <2>3. LookupSlot(call[t].token)'
    BY <1>1, <2>1 DEF CallOK, LookupSlot
  <2> QED
    BY <1>1, <2>1, <2>2, <2>3 DEF CallOK
<1>2. CASE ~(call[t].pc \in {"slot", "work"} /\ call[t].op # "terminate")
  <2>1. call[t].pc # "work"
    BY <1>2, SMTT(60) DEF CallOK, SlotCalls
  <2> QED
    BY <1>2, <2>1 DEF CallOK
<1> QED
  BY <1>1, <1>2

-----------------------------------------------------------------------------
(* Every action keeps IInv. *)

LEMMA StageKeeps ==
    ASSUME IInv, NEW t \in Threads, Stage(t)
    PROVE  IInv'
<1>1. /\ UNCHANGED <<table, slots, call, opened, live, issued>>
      /\ staged' = [staged EXCEPT ![t] = TRUE]
      /\ calls < MaxCalls /\ calls' = calls + 1
  BY DEF Stage, Begins
<1>2. TypeOK'
  <2>1. staged' \in [Threads -> BOOLEAN]
    BY <1>1 DEF IInv, TypeOK
  <2>2. calls' \in 0..MaxCalls
    BY <1>1, SlotsAssumption DEF IInv, TypeOK
  <2> QED
    BY <1>1, <2>1, <2>2 DEF IInv, TypeOK
<1> QED
  BY <1>1, <1>2 DEF IInv, PlaceInv, Publishes, TokenInv, LockInv, CallInv,
     LookupSlot, TransactionOfItsDatabase

(* A call that begins: only the thread's record moves, and the thread has  *)
(* no lock before and after.                                               *)
LEMMA CallBegins ==
    ASSUME IInv, NEW t \in Threads, NEW c \in Call, Begins(t), Becomes(t, c),
           c.pc = "table",
           \/ c.op = "terminate" /\ c.at >= 1
           \/ c.op \in SlotCalls \cup {"close"} /\ c.at = c.token.slot,
           UNCHANGED <<table, slots, staged, opened, live, issued>>
    PROVE  IInv'
<1>1. /\ call' = [call EXCEPT ![t] = c] /\ call[t].pc = "idle"
      /\ calls < MaxCalls /\ calls' = calls + 1
  BY DEF Becomes, Begins
<1>2. /\ call \in [Threads -> Call] /\ call'[t] = c
      /\ \A u \in Threads \ {t} : call'[u] = call[u]
  BY <1>1 DEF IInv, TypeOK
<1>3. TypeOK'
  <2>1. call' \in [Threads -> Call]
    BY <1>1, <1>2
  <2>2. calls' \in 0..MaxCalls
    BY <1>1, SlotsAssumption DEF IInv, TypeOK
  <2> QED
    BY <2>1, <2>2 DEF IInv, TypeOK
<1>4. SameEntries /\ SamePublishers
  BY <1>1, <1>2 DEF SameEntries, SamePublishers
<1>5. PlaceInv' /\ TokenInv'
  BY <1>4, QuietPlaces, QuietTokens DEF IInv
<1>6. LockInv'
  BY <1>1, <1>2 DEF IInv, LockInv
<1>7. CallInv'
  <2>1. ASSUME NEW u \in Threads PROVE CallOK(u)'
    <3>1. CASE u = t
      BY <1>2, <3>1 DEF CallOK
    <3>2. CASE u # t
      BY <1>2, <3>2, OtherCallOK, CallParts DEF IInv
    <3> QED
      BY <3>1, <3>2
  <2> QED
    BY <2>1, CallPartsPrimed
<1>8. TransactionOfItsDatabase'
  BY DEF IInv, TransactionOfItsDatabase
<1> QED
  BY <1>3, <1>5, <1>6, <1>7, <1>8 DEF IInv

LEMMA CallWithKeeps ==
    ASSUME IInv, NEW t \in Threads, NEW op \in SlotCalls \cup {"close"},
           NEW e \in issued, CallWith(t, op, e.token)
    PROVE  IInv'
<1> DEFINE c == [NoCall EXCEPT !.pc = "table", !.op = op, !.token = e.token,
                               !.at = e.token.slot]
<1>1. e.token \in Token
  BY DEF IInv, TypeOK
<1>2. e.token.slot \in 0..(SlotCount + 1)
  BY <1>1, SlotsAssumption DEF Token, Indices
<1>3. op \in Operations
  BY DEF Operations
<1>4. /\ c \in Call /\ c.pc = "table" /\ c.op = op /\ c.at = c.token.slot
  BY <1>1, <1>2, <1>3, NoCallOK DEF Call
<1>5. /\ Begins(t) /\ Becomes(t, c)
      /\ UNCHANGED <<table, slots, staged, opened, live, issued>>
  BY DEF CallWith
<1> HIDE DEF c
<1> QED
  BY <1>4, <1>5, CallBegins

LEMMA CallTerminateKeeps ==
    ASSUME IInv, NEW t \in Threads, CallTerminate(t)
    PROVE  IInv'
<1> DEFINE c == [NoCall EXCEPT !.pc = "table", !.op = "terminate", !.at = 1]
<1>1. 1 \in 0..(SlotCount + 1) /\ 1 >= 1
  BY SlotsAssumption
<1>2. "terminate" \in Operations
  BY DEF Operations
<1>3. /\ c \in Call /\ c.pc = "table" /\ c.op = "terminate" /\ c.at >= 1
  BY <1>1, <1>2, NoCallOK DEF Call
<1>4. /\ Begins(t) /\ Becomes(t, c)
      /\ UNCHANGED <<table, slots, staged, opened, live, issued>>
  BY DEF CallTerminate
<1> HIDE DEF c
<1> QED
  BY <1>3, <1>4, CallBegins

LEMMA OpenKeeps ==
    ASSUME IInv, NEW t \in Threads, OpenDatabase(t)
    PROVE  IInv'
<1> DEFINE d == opened + 1
           c == [NoCall EXCEPT !.pc = "publish", !.op = "open", !.database = d]
<1>1. /\ call' = [call EXCEPT ![t] = c] /\ call[t].pc = "idle"
      /\ calls < MaxCalls /\ calls' = calls + 1
      /\ opened < MaxOpens /\ opened' = d /\ live' = live \cup {d}
      /\ UNCHANGED <<table, slots, staged, issued>>
  BY DEF OpenDatabase, Becomes, Begins
<1>2. /\ d \in 0..MaxOpens /\ d \in Databases /\ d # 0 /\ opened \in Nat /\ opened < d
  BY <1>1, SlotsAssumption DEF IInv, TypeOK, Databases
<1>3. "open" \in Operations
  BY DEF Operations
<1> HIDE DEF d
<1>4. c \in Call /\ c.pc = "publish" /\ c.database = d
  BY <1>2, <1>3, NoCallOK DEF Call
<1> HIDE DEF c
<1>5. /\ call \in [Threads -> Call] /\ call'[t] = c
      /\ \A u \in Threads \ {t} : call'[u] = call[u]
  BY <1>1 DEF IInv, TypeOK
<1>6. TypeOK'
  <2>1. call' \in [Threads -> Call]
    BY <1>1, <1>4, <1>5
  <2>2. calls' \in 0..MaxCalls
    BY <1>1, SlotsAssumption DEF IInv, TypeOK
  <2> QED
    BY <1>1, <1>2, <2>1, <2>2 DEF IInv, TypeOK
<1>7. d \notin live /\ \A i \in Indices : slots[i].database # d
  BY <1>2 DEF IInv, PlaceInv, TypeOK, Databases
<1>8. PlaceInv'
  <2>1. \A u \in Threads \ {t}, x \in live' : Publishes(u, x)' <=> Publishes(u, x)
    BY <1>5 DEF Publishes
  <2>2. \A x \in live' : Publishes(t, x)' <=> x = d
    BY <1>4, <1>5 DEF Publishes
  <2>3. \A u \in Threads, x \in live' : Publishes(u, x) => u # t /\ x \in live
    BY <1>1 DEF Publishes, IInv, PlaceInv
  <2>4. \A x \in live' : x <= opened'
    BY <1>1, <1>2 DEF IInv, PlaceInv, TypeOK, Databases
  <2>5. \A i \in Indices : slots'[i].database # 0 => slots'[i].database \in live'
    BY <1>1 DEF IInv, PlaceInv
  <2>6. \A u \in Threads : call'[u].pc = "publish" =>
            /\ call'[u].database \in live'
            /\ \A i \in Indices : slots'[i].database # call'[u].database
    BY <1>1, <1>4, <1>5, <1>7 DEF IInv, PlaceInv
  <2>7. \A i, j \in Indices :
          slots'[i].database = slots'[j].database /\ slots'[i].database # 0 => i = j
    BY <1>1 DEF IInv, PlaceInv
  <2>8. \A u, v \in Threads, x \in live' :
          Publishes(u, x)' /\ Publishes(v, x)' => u = v
    BY <1>7, <2>1, <2>2, <2>3 DEF IInv, PlaceInv
  <2>9. \A x \in live' : \/ \E i \in Indices : slots'[i].database = x
                         \/ \E u \in Threads : Publishes(u, x)'
    <3> TAKE x \in live'
    <3>1. CASE x = d
      BY <2>2, <3>1
    <3>2. CASE x \in live
      <4>1. CASE \E i \in Indices : slots[i].database = x
        BY <1>1, <4>1
      <4>2. CASE \E u \in Threads : Publishes(u, x)
        BY <2>1, <2>3, <4>2
      <4> QED
        BY <3>2, <4>1, <4>2 DEF IInv, PlaceInv
    <3> QED
      BY <1>1, <3>1, <3>2
  <2> QED
    BY <2>4, <2>5, <2>6, <2>7, <2>8, <2>9 DEF PlaceInv
<1>9. TokenInv' /\ TransactionOfItsDatabase'
  BY <1>1 DEF IInv, TokenInv, TransactionOfItsDatabase
<1>10. LockInv'
  BY <1>1, <1>4, <1>5 DEF IInv, LockInv
<1>11. CallInv'
  <2>1. ASSUME NEW u \in Threads PROVE CallOK(u)'
    <3>1. CASE u = t
      BY <1>4, <1>5, <3>1 DEF CallOK
    <3>2. CASE u # t
      BY <1>1, <1>5, <3>2, OtherCallOK, CallParts DEF IInv
    <3> QED
      BY <3>1, <3>2
  <2> QED
    BY <2>1, CallPartsPrimed
<1> QED
  BY <1>6, <1>8, <1>9, <1>10, <1>11 DEF IInv

(* A step of t that moves t's record and, at most, what is behind the      *)
(* entries of the table.                                                   *)
LEMMA QuietKeeps ==
    ASSUME IInv, NEW t \in Threads, NEW c \in Call,
           call' = [call EXCEPT ![t] = c],
           call[t].pc # "publish", c.pc # "publish",
           slots' \in [Indices -> Slot], SameEntries,
           \A i \in Indices : OwnsItsTransaction(slots'[i]),
           table' \in Holders, staged' \in [Threads -> BOOLEAN],
           UNCHANGED <<opened, live, issued, calls>>,
           LockInv', CallOK(t)'
    PROVE  IInv'
<1>1. /\ call \in [Threads -> Call] /\ call'[t] = c
      /\ \A u \in Threads \ {t} : call'[u] = call[u]
  BY DEF IInv, TypeOK
<1>2. call' \in [Threads -> Call]
  BY <1>1
<1>3. TypeOK'
  BY <1>2 DEF IInv, TypeOK
<1>4. SamePublishers
  BY <1>1 DEF SamePublishers
<1>5. PlaceInv' /\ TokenInv' /\ TransactionOfItsDatabase'
  BY <1>4, QuietPlaces, QuietTokens, QuietTransactions DEF IInv
<1>6. CallInv'
  <2>1. ASSUME NEW u \in Threads, u # t PROVE CallOK(u)'
    <3>1. call[u].token.slot \in Indices
      BY <1>1 DEF Call, Token
    <3>2. TypeOK /\ CallOK(u) /\ call'[u] = call[u]
      BY <1>1, <2>1, CallParts DEF IInv
    <3>3. LET i == call[u].token.slot
          IN  /\ slots'[i].database = slots[i].database
              /\ slots'[i].generation = slots[i].generation
              /\ slots'[i].retired = slots[i].retired
      BY <3>1 DEF SameEntries
    <3> QED
      BY <3>2, <3>3, OtherCallOK
  <2> QED
    BY <2>1, CallPartsPrimed, SMTT(60)
<1> QED
  BY <1>3, <1>5, <1>6 DEF IInv

(* What IInv says of one thread and the slots. *)
LEMMA Facts ==
    ASSUME IInv, NEW t \in Threads
    PROVE  /\ call \in [Threads -> Call] /\ call[t] \in Call
           /\ slots \in [Indices -> Slot] /\ table \in Holders
           /\ call[t].token.slot \in Indices /\ CallOK(t) /\ LockInv
           /\ \A i \in Indices : OwnsItsTransaction(slots[i])
           /\ staged \in [Threads -> BOOLEAN]
<1>1. call \in [Threads -> Call] /\ CallOK(t) /\ LockInv
  BY CallParts DEF IInv, TypeOK
<1>2. call[t] \in Call /\ call[t].token.slot \in Indices
  BY <1>1 DEF Call, Token
<1> QED
  BY <1>1, <1>2, Owned DEF IInv, TypeOK

LEMMA TakeTableKeeps ==
    ASSUME IInv, NEW t \in Threads, TakeTable(t)
    PROVE  IInv'
<1>1. /\ call[t].pc = "table" /\ table = NoThread
      /\ UNCHANGED <<slots, staged, opened, live, issued, calls>>
      /\ \/ table' = table /\ call' = [call EXCEPT ![t] = NoCall]
         \/ /\ table' = t
            /\ call' = [call EXCEPT ![t] = [call[t] EXCEPT !.pc = "slot"]]
            /\ call[t].op = "terminate" \/ LookupSlot(call[t].token)
  BY DEF TakeTable, Becomes
<1>2. /\ call \in [Threads -> Call] /\ call[t] \in Call
      /\ slots \in [Indices -> Slot] /\ table \in Holders
      /\ CallOK(t) /\ LockInv
      /\ \A i \in Indices : OwnsItsTransaction(slots[i])
      /\ staged \in [Threads -> BOOLEAN]
  BY Facts
<1>3. SameEntries
  BY <1>1 DEF SameEntries
<1>4. CASE table' = table /\ call' = [call EXCEPT ![t] = NoCall]
  <2>1. LockInv'
    BY <1>1, <1>2, <1>4, NoCallOK DEF LockInv
  <2>2. CallOK(t)'
    BY <1>2, <1>4, NoCallOK DEF CallOK
  <2> QED
    BY <1>1, <1>2, <1>3, <1>4, <2>1, <2>2, NoCallOK, QuietKeeps
<1>5. CASE /\ table' = t
           /\ call' = [call EXCEPT ![t] = [call[t] EXCEPT !.pc = "slot"]]
           /\ call[t].op = "terminate" \/ LookupSlot(call[t].token)
  <2> DEFINE c == [call[t] EXCEPT !.pc = "slot"]
  <2>1. /\ c \in Call /\ c.pc = "slot" /\ c.op = call[t].op /\ c.at = call[t].at
        /\ c.token = call[t].token
    BY <1>2 DEF Call
  <2>2. call' = [call EXCEPT ![t] = c]
    BY <1>5
  <2> HIDE DEF c
  <2>3. LockInv'
    <3>1. \A u \in Threads : call[u].pc # "slot"
                              /\ ~(call[u].pc = "work" /\ call[u].op = "close")
      BY <1>1, <1>2, SlotsAssumption DEF LockInv
    <3> QED
      BY <1>1, <1>2, <1>5, <2>1, <2>2, <3>1 DEF LockInv
  <2>4. CallOK(t)'
    <3>1. LookupSlot(call[t].token)' <=> LookupSlot(call[t].token)
      <4>1. \A k : LookupSlot(k)' <=> LookupSlot(k)
        BY <1>1 DEF LookupSlot
      <4>2. call'[t].token = call[t].token
        BY <1>2, <2>1, <2>2
      <4> QED
        BY <4>1, <4>2
    <3>2. call'[t] = c
      BY <1>2, <2>2
    <3> QED
      BY <1>1, <1>2, <1>5, <2>1, <3>1, <3>2 DEF CallOK
  <2>5. table' \in Holders
    BY <1>5 DEF Holders
  <2> QED
    BY <1>1, <1>2, <1>3, <2>1, <2>2, <2>3, <2>4, <2>5, QuietKeeps
<1> QED
  BY <1>1, <1>4, <1>5

LEMMA TakeSlotKeeps ==
    ASSUME IInv, NEW t \in Threads, TakeSlot(t)
    PROVE  IInv'
<1> DEFINE i == call[t].at
           c == [call[t] EXCEPT !.pc = "work", !.database = slots[i].database]
           s == [slots[i] EXCEPT !.holder = t]
<1>1. /\ call[t].pc = "slot" /\ call[t].op # "terminate"
      /\ slots[i].holder = NoThread
      /\ slots' = [slots EXCEPT ![i] = s]
      /\ table' = IF call[t].op = "close" THEN table ELSE NoThread
      /\ call' = [call EXCEPT ![t] = c]
      /\ UNCHANGED <<staged, opened, live, issued, calls>>
  BY DEF TakeSlot, Becomes
<1>2. /\ call \in [Threads -> Call] /\ call[t] \in Call
      /\ slots \in [Indices -> Slot] /\ table \in Holders
      /\ CallOK(t) /\ LockInv
      /\ \A j \in Indices : OwnsItsTransaction(slots[j])
      /\ staged \in [Threads -> BOOLEAN]
      /\ call[t].token.slot \in Indices
  BY Facts
<1>3. /\ i = call[t].token.slot /\ i \in Indices /\ LookupSlot(call[t].token)
      /\ call[t].op \in SlotCalls \cup {"close"}
  BY <1>1, <1>2 DEF CallOK
<1>4. /\ s \in Slot /\ s.holder = t /\ s.database = slots[i].database
      /\ s.generation = slots[i].generation /\ s.retired = slots[i].retired
      /\ s.handle = slots[i].handle /\ s.of = slots[i].of
  BY <1>2, <1>3 DEF Slot, Holders
<1>5. /\ c \in Call /\ c.pc = "work" /\ c.op = call[t].op /\ c.at = i
      /\ c.token = call[t].token /\ c.database = slots[i].database
  BY <1>2, <1>3 DEF Call, Slot
<1> HIDE DEF c, s, i
<1>6. slots' \in [Indices -> Slot] /\ SameEntries
  BY <1>1, <1>2, <1>3, <1>4 DEF SameEntries
<1>7. \A j \in Indices : OwnsItsTransaction(slots'[j])
  BY <1>1, <1>2, <1>3, <1>4 DEF OwnsItsTransaction
<1>8. LockInv'
  <2>1. table = t /\ t # NoThread
    BY <1>1, <1>2, SlotsAssumption DEF LockInv
  <2>2. \A u \in Threads \ {t} : /\ call'[u] = call[u] /\ table # u
                                 /\ call[u].pc # "slot"
    BY <1>1, <1>2, <2>1 DEF LockInv
  <2>3. \A u \in Threads : ~(call[u].pc = "work" /\ call[u].at = i)
    BY <1>1, <1>2, <1>3, SlotsAssumption DEF LockInv
  <2>4. \A u \in Threads, j \in Indices :
           slots'[j].holder = u <=> call'[u].pc = "work" /\ call'[u].at = j
    BY <1>1, <1>2, <1>3, <1>4, <1>5, <2>2, <2>3 DEF LockInv
  <2>5. \A u \in Threads :
           table' = u <=> \/ call'[u].pc = "slot"
                          \/ call'[u].pc = "work" /\ call'[u].op = "close"
    <3> TAKE u \in Threads
    <3>1. CASE u = t
      BY <1>1, <1>2, <1>5, <2>1, <3>1
    <3>2. CASE u # t
      BY <1>1, <1>2, <2>1, <2>2, <3>2, SlotsAssumption DEF LockInv
    <3> QED
      BY <3>1, <3>2
  <2> QED
    BY <2>4, <2>5 DEF LockInv
<1>9. CallOK(t)'
  <2>1. call'[t] = c /\ slots'[i] = s
    BY <1>1, <1>2, <1>3
  <2>2. LookupSlot(call[t].token)'
    BY <1>3, <1>4, <1>5, <2>1 DEF LookupSlot
  <2> QED
    BY <1>3, <1>4, <1>5, <2>1, <2>2 DEF CallOK
<1>10. table' \in Holders
  BY <1>1, <1>2 DEF Holders
<1> QED
  BY <1>1, <1>2, <1>5, <1>6, <1>7, <1>8, <1>9, <1>10, QuietKeeps

LEMMA WorkKeeps ==
    ASSUME IInv, NEW t \in Threads, Work(t)
    PROVE  IInv'
<1> DEFINE i == call[t].at
<1>1. PICK s \in WorkOf(call[t].op, slots[i]) :
        slots' = [slots EXCEPT ![i] = Released(s)]
  BY DEF Work
<1>2. /\ call[t].pc = "work" /\ call[t].op \in SlotCalls
      /\ call' = [call EXCEPT ![t] = NoCall]
      /\ UNCHANGED <<table, staged, opened, live, issued, calls>>
  BY DEF Work, Becomes
<1>3. /\ call \in [Threads -> Call] /\ call[t] \in Call
      /\ slots \in [Indices -> Slot] /\ table \in Holders
      /\ CallOK(t) /\ LockInv
      /\ \A j \in Indices : OwnsItsTransaction(slots[j])
      /\ staged \in [Threads -> BOOLEAN]
      /\ call[t].token.slot \in Indices
  BY Facts
<1>4. /\ i \in Indices /\ LookupSlot(call[t].token) /\ slots[i].database # 0
      /\ call[t].op # "close"
  BY <1>2, <1>3 DEF CallOK, SlotCalls, LookupSlot
<1> HIDE DEF i
<1>5. s \in Slot /\ SameEntry(s, slots[i]) /\ OwnsItsTransaction(s)
  BY <1>2, <1>3, <1>4, WorkOK
<1> DEFINE r == Released(s)
<1>6. /\ r \in Slot /\ r.holder = NoThread /\ r.database = slots[i].database
      /\ r.generation = slots[i].generation /\ r.retired = slots[i].retired
      /\ OwnsItsTransaction(r)
  BY <1>5, ReleasedOK DEF SameEntry, OwnsItsTransaction
<1> HIDE DEF r
<1>7. slots' = [slots EXCEPT ![i] = r]
  BY <1>1 DEF r
<1>8. slots' \in [Indices -> Slot] /\ SameEntries
  BY <1>3, <1>4, <1>6, <1>7 DEF SameEntries
<1>9. \A j \in Indices : OwnsItsTransaction(slots'[j])
  BY <1>3, <1>4, <1>6, <1>7
<1>10. LockInv'
  <2>1. slots[i].holder = t
    BY <1>2, <1>3, <1>4 DEF LockInv, i
  <2>2. \A u \in Threads, j \in Indices :
           slots'[j].holder = u <=> call'[u].pc = "work" /\ call'[u].at = j
    BY <1>2, <1>3, <1>4, <1>6, <1>7, <2>1, NoCallOK, SlotsAssumption DEF LockInv, i
  <2>3. \A u \in Threads :
           table' = u <=> \/ call'[u].pc = "slot"
                          \/ call'[u].pc = "work" /\ call'[u].op = "close"
    BY <1>2, <1>3, <1>4, NoCallOK DEF LockInv
  <2> QED
    BY <2>2, <2>3 DEF LockInv
<1>11. CallOK(t)'
  BY <1>2, <1>3, NoCallOK DEF CallOK
<1> QED
  BY <1>2, <1>3, <1>8, <1>9, <1>10, <1>11, NoCallOK, QuietKeeps

LEMMA TerminateReturnKeeps ==
    ASSUME IInv, NEW t \in Threads, TerminateReturn(t)
    PROVE  IInv'
<1>1. /\ call[t].pc = "slot" /\ table' = NoThread
      /\ staged' = [staged EXCEPT ![t] = FALSE]
      /\ call' = [call EXCEPT ![t] = NoCall]
      /\ UNCHANGED <<slots, opened, live, issued, calls>>
  BY DEF TerminateReturn, Becomes
<1>2. /\ call \in [Threads -> Call]
      /\ slots \in [Indices -> Slot]
      /\ CallOK(t) /\ LockInv
      /\ \A j \in Indices : OwnsItsTransaction(slots[j])
      /\ staged \in [Threads -> BOOLEAN]
  BY Facts
<1>3. SameEntries /\ table' \in Holders /\ staged' \in [Threads -> BOOLEAN]
  BY <1>1, <1>2 DEF SameEntries, Holders
<1>4. LockInv'
  <2>1. table = t
    BY <1>1, <1>2 DEF LockInv
  <2> QED
    BY <1>1, <1>2, <2>1, NoCallOK, SlotsAssumption DEF LockInv
<1>5. CallOK(t)'
  BY <1>1, <1>2, NoCallOK DEF CallOK
<1> QED
  BY <1>1, <1>2, <1>3, <1>4, <1>5, NoCallOK, QuietKeeps

(* A step of t that closes the database of slot i while no other call can  *)
(* be at that slot.                                                        *)
LEMMA ClosingKeeps ==
    ASSUME IInv, NEW t \in Threads, NEW c \in Call, NEW i \in Indices, NEW r \in Slot,
           call' = [call EXCEPT ![t] = c],
           call[t].pc # "publish", c.pc # "publish",
           slots[i].database # 0, slots' = [slots EXCEPT ![i] = r],
           r.database = 0, r.handle = "none",
           slots[i].generation <= r.generation,
           r.retired \/ r.generation > slots[i].generation,
           live' = live \ {slots[i].database},
           table' \in Holders, UNCHANGED <<staged, opened, issued, calls>>,
           \A u \in Threads \ {t} :
              call[u].pc \in {"slot", "work"} /\ call[u].op # "terminate" =>
                 call[u].token.slot # i,
           LockInv', CallOK(t)'
    PROVE  IInv'
<1>1. /\ call \in [Threads -> Call] /\ call'[t] = c
      /\ \A u \in Threads \ {t} : call'[u] = call[u]
      /\ slots \in [Indices -> Slot] /\ slots'[i] = r
      /\ \A j \in Indices \ {i} : slots'[j] = slots[j]
  BY DEF IInv, TypeOK
<1>2. TypeOK'
  <2>1. call' \in [Threads -> Call] /\ slots' \in [Indices -> Slot]
    BY <1>1
  <2>2. live' \subseteq Databases
    BY DEF IInv, TypeOK
  <2> QED
    BY <2>1, <2>2 DEF IInv, TypeOK
<1>3. SamePublishers
  BY <1>1 DEF SamePublishers
<1>4. PlaceInv'
  <2>1. \A u \in Threads, d \in live : Publishes(u, d)' <=> Publishes(u, d)
    BY <1>3 DEF Publishes, SamePublishers
  <2>2. \A d \in live' : d <= opened'
    BY DEF IInv, PlaceInv
  <2>3. \A j \in Indices : slots'[j].database # 0 => slots'[j].database \in live'
    BY <1>1 DEF IInv, PlaceInv
  <2>4. \A u \in Threads : call'[u].pc = "publish" =>
            /\ call'[u].database \in live'
            /\ \A j \in Indices : slots'[j].database # call'[u].database
    <3> SUFFICES ASSUME NEW u \in Threads, call'[u].pc = "publish"
                 PROVE  /\ call'[u].database \in live'
                        /\ \A j \in Indices : slots'[j].database # call'[u].database
      OBVIOUS
    <3>1. call[u].pc = "publish" /\ call'[u].database = call[u].database
      BY <1>3 DEF SamePublishers
    <3>2. /\ call[u].database \in live
          /\ \A j \in Indices : slots[j].database # call[u].database
      BY <3>1 DEF IInv, PlaceInv
    <3>3. call[u].database # 0
      BY <3>2 DEF IInv, TypeOK, Databases
    <3> QED
      BY <1>1, <3>1, <3>2, <3>3
  <2>5. \A j, k \in Indices :
          slots'[j].database = slots'[k].database /\ slots'[j].database # 0 => j = k
    BY <1>1 DEF IInv, PlaceInv
  <2>6. \A u, v \in Threads, d \in live' :
          Publishes(u, d)' /\ Publishes(v, d)' => u = v
    BY <2>1 DEF IInv, PlaceInv
  <2>7. \A d \in live' : \/ \E j \in Indices : slots'[j].database = d
                         \/ \E u \in Threads : Publishes(u, d)'
    BY <1>1, <2>1 DEF IInv, PlaceInv
  <2> QED
    BY <2>2, <2>3, <2>4, <2>5, <2>6, <2>7 DEF PlaceInv
<1>5. TokenInv'
  <2>1. ASSUME NEW e \in issued
        PROVE  /\ e.token.generation <= slots'[e.token.slot].generation
               /\ /\ e.token.generation = slots'[e.token.slot].generation
                  /\ ~slots'[e.token.slot].retired
                  => slots'[e.token.slot].database = e.database
    <3>1. /\ e.token.slot \in Indices /\ e.token.generation \in Nat
          /\ slots[i].generation \in Nat /\ r.generation \in Nat
      BY <1>1 DEF IInv, TypeOK, Token, Slot, Generations
    <3>2. CASE e.token.slot = i
      <4>1. e.token.generation <= slots[i].generation
        BY <3>2 DEF IInv, TokenInv
      <4> QED
        BY <1>1, <3>1, <3>2, <4>1
    <3>3. CASE e.token.slot # i
      BY <1>1, <3>1, <3>3 DEF IInv, TokenInv
    <3> QED
      BY <3>2, <3>3
  <2>2. \A e, f \in issued' : e.token = f.token => e.database = f.database
    BY DEF IInv, TokenInv
  <2>3. \A j \in Indices : slots'[j].database # 0 =>
          /\ ~slots'[j].retired
          /\ \E e \in issued' :
                e.token = [slot |-> j, generation |-> slots'[j].generation]
    BY <1>1 DEF IInv, TokenInv
  <2> QED
    BY <2>1, <2>2, <2>3 DEF TokenInv
<1>6. TransactionOfItsDatabase'
  BY <1>1 DEF IInv, TransactionOfItsDatabase
<1>7. CallInv'
  <2>1. ASSUME NEW u \in Threads, u # t PROVE CallOK(u)'
    <3>1. TypeOK /\ CallOK(u) /\ call'[u] = call[u] /\ call[u].token.slot \in Indices
      BY <1>1, <2>1, Facts DEF IInv
    <3>2. call[u].pc \in {"slot", "work"} /\ call[u].op # "terminate" =>
              LET j == call[u].token.slot
              IN  /\ slots'[j].database = slots[j].database
                  /\ slots'[j].generation = slots[j].generation
                  /\ slots'[j].retired = slots[j].retired
      BY <1>1, <2>1, <3>1, SMTT(60)
    <3> QED
      BY <3>1, <3>2, OtherCallOK
  <2> QED
    BY <2>1, CallPartsPrimed
<1> QED
  BY <1>2, <1>4, <1>5, <1>6, <1>7 DEF IInv

LEMMA CloseWorkKeeps ==
    ASSUME IInv, NEW t \in Threads, CloseWork(t)
    PROVE  IInv'
<1> DEFINE i == call[t].at
           r == Released(CloseSlot(slots[i]))
<1>1. /\ call[t].pc = "work" /\ call[t].op = "close"
      /\ slots' = [slots EXCEPT ![i] = r]
      /\ live' = live \ {slots[i].database}
      /\ table' = NoThread /\ call' = [call EXCEPT ![t] = NoCall]
      /\ UNCHANGED <<staged, opened, issued, calls>>
  BY DEF CloseWork, Becomes
<1>2. /\ call \in [Threads -> Call] /\ slots \in [Indices -> Slot]
      /\ CallOK(t) /\ LockInv /\ call[t].token.slot \in Indices
  BY Facts
<1>3. i \in Indices /\ i = call[t].token.slot /\ slots[i].database # 0
      /\ slots[i].holder = t /\ table = t
  BY <1>1, <1>2 DEF CallOK, LookupSlot, LockInv
<1>4. /\ r \in Slot /\ r.database = 0 /\ r.handle = "none" /\ r.holder = NoThread
      /\ slots[i].generation <= r.generation
      /\ r.retired \/ r.generation > slots[i].generation
  BY <1>2, <1>3, CloseSlotOK, ReleasedOK
<1> HIDE DEF r
<1>5. \A u \in Threads \ {t} :
         call[u].pc \in {"slot", "work"} /\ call[u].op # "terminate" =>
            call[u].token.slot # i
  <2> SUFFICES ASSUME NEW u \in Threads \ {t}, call[u].pc \in {"slot", "work"},
                      call[u].op # "terminate", call[u].token.slot = i
               PROVE  FALSE
    OBVIOUS
  <2>1. CallOK(u)
    BY Facts
  <2>2. call[u].at = i
    BY <2>1 DEF CallOK
  <2> QED
    BY <1>2, <1>3, <2>2 DEF LockInv
<1>6. table' \in Holders
  BY <1>1 DEF Holders
<1>7. LockInv'
  <2>1. \A u \in Threads \ {t} : call'[u] = call[u] /\ table # u
    BY <1>1, <1>2, <1>3
  <2>2. call'[t].pc = "idle"
    BY <1>1, <1>2, NoCallOK
  <2>3. \A u \in Threads, j \in Indices :
           slots'[j].holder = u <=> call'[u].pc = "work" /\ call'[u].at = j
    BY <1>1, <1>2, <1>3, <1>4, <2>1, <2>2, SlotsAssumption DEF LockInv
  <2>4. \A u \in Threads :
           table' = u <=> \/ call'[u].pc = "slot"
                          \/ call'[u].pc = "work" /\ call'[u].op = "close"
    BY <1>1, <1>2, <1>3, <2>1, <2>2, SlotsAssumption DEF LockInv
  <2> QED
    BY <2>3, <2>4 DEF LockInv
<1>8. CallOK(t)'
  BY <1>1, <1>2, NoCallOK DEF CallOK
<1> HIDE DEF i
<1> QED
  BY <1>1, <1>3, <1>4, <1>5, <1>6, <1>7, <1>8, NoCallOK, ClosingKeeps

LEMMA TerminateSlotKeeps ==
    ASSUME IInv, NEW t \in Threads, TerminateSlot(t)
    PROVE  IInv'
<1> DEFINE i == call[t].at
           c == [call[t] EXCEPT !.at = i + 1]
<1>1. /\ call[t].pc = "slot" /\ call[t].op = "terminate" /\ i <= SlotCount
      /\ slots[i].holder = NoThread
      /\ slots' = IF slots[i].database = 0 THEN slots
                  ELSE [slots EXCEPT ![i] = CloseSlot(slots[i])]
      /\ live' = live \ {slots[i].database}
      /\ call' = [call EXCEPT ![t] = c]
      /\ UNCHANGED <<table, staged, opened, issued, calls>>
  BY DEF TerminateSlot, Becomes
<1>2. /\ call \in [Threads -> Call] /\ call[t] \in Call
      /\ slots \in [Indices -> Slot] /\ table \in Holders
      /\ CallOK(t) /\ LockInv /\ staged \in [Threads -> BOOLEAN]
      /\ \A j \in Indices : OwnsItsTransaction(slots[j])
  BY Facts
<1>3. /\ i \in Indices /\ i + 1 \in 0..(SlotCount + 1) /\ i + 1 >= 1 /\ table = t
  BY <1>1, <1>2, SlotsAssumption DEF CallOK, LockInv, Indices, Call, SlotCalls
<1>4. /\ c \in Call /\ c.pc = "slot" /\ c.op = "terminate" /\ c.at >= 1
  BY <1>1, <1>2, <1>3 DEF Call
<1> HIDE DEF c, i
<1>5. CallOK(t)'
  BY <1>1, <1>2, <1>4 DEF CallOK
<1>6. /\ call'[t] = c /\ \A u \in Threads \ {t} : call'[u] = call[u]
  BY <1>1, <1>2
<1>7. CASE slots[i].database = 0
  <2>1. slots' = slots /\ live' = live
    BY <1>1, <1>7 DEF IInv, TypeOK, Databases
  <2>2. SameEntries
    BY <2>1 DEF SameEntries
  <2>3. LockInv'
    BY <1>1, <1>2, <1>4, <1>6, <2>1 DEF LockInv
  <2> QED
    BY <1>1, <1>2, <1>4, <1>5, <2>1, <2>2, <2>3, QuietKeeps
<1>8. CASE slots[i].database # 0
  <2> DEFINE r == CloseSlot(slots[i])
  <2>1. /\ r \in Slot /\ r.database = 0 /\ r.handle = "none" /\ r.holder = NoThread
        /\ slots[i].generation <= r.generation
        /\ r.retired \/ r.generation > slots[i].generation
    BY <1>1, <1>2, <1>3, CloseSlotOK
  <2>2. slots' = [slots EXCEPT ![i] = r]
    BY <1>1, <1>8
  <2> HIDE DEF r
  <2>3. LockInv'
    BY <1>1, <1>2, <1>3, <1>4, <1>6, <2>1, <2>2 DEF LockInv
  <2>4. \A u \in Threads \ {t} :
           call[u].pc \in {"slot", "work"} /\ call[u].op # "terminate" =>
              call[u].token.slot # i
    <3> SUFFICES ASSUME NEW u \in Threads \ {t}, call[u].pc \in {"slot", "work"},
                        call[u].op # "terminate", call[u].token.slot = i
                 PROVE  FALSE
      OBVIOUS
    <3>1. CallOK(u)
      BY Facts
    <3>2. call[u].at = i
      BY <3>1 DEF CallOK
    <3> QED
      BY <1>1, <1>2, <1>3, <3>2, SlotsAssumption DEF LockInv
  <2>5. call[t].pc # "publish" /\ c.pc # "publish" /\ table' \in Holders
    BY <1>1, <1>2, <1>4
  <2> QED
    BY <1>1, <1>3, <1>4, <1>5, <1>8, <2>1, <2>2, <2>3, <2>4, <2>5, ClosingKeeps
<1> QED
  BY <1>7, <1>8

(* What both ends of openStaged have in common. *)
LEMMA PublishKeeps ==
    ASSUME IInv, NEW t \in Threads, PublishSlot(t)
    PROVE  IInv'
<1> DEFINE d == call[t].database
           free == {i \in Indices : slots[i].database = 0 /\ ~slots[i].retired}
<1>1. /\ call[t].pc = "publish" /\ call' = [call EXCEPT ![t] = NoCall]
      /\ UNCHANGED <<table, staged, opened, calls>>
      /\ \/ live' = live \ {d} /\ UNCHANGED <<slots, issued>>
         \/ \E i \in free :
               /\ slots' = [slots EXCEPT ![i].database = d]
               /\ issued' = issued \cup
                     {[token |-> [slot |-> i, generation |-> slots[i].generation],
                       database |-> d]}
               /\ live' = live
  BY DEF PublishSlot, Becomes, Exhausted
<1>2. /\ call \in [Threads -> Call] /\ call[t] \in Call
      /\ slots \in [Indices -> Slot]
      /\ CallOK(t) /\ LockInv
      /\ \A j \in Indices : OwnsItsTransaction(slots[j])
  BY Facts
<1>3. /\ d \in live /\ d \in Databases /\ d # 0 /\ d \in 0..MaxOpens
      /\ \A i \in Indices : slots[i].database # d
      /\ \A u \in Threads : Publishes(u, d) => u = t
  BY <1>1, SlotsAssumption DEF IInv, PlaceInv, TypeOK, Databases, Publishes
<1>4. /\ call'[t] = NoCall /\ \A u \in Threads \ {t} : call'[u] = call[u]
      /\ call' \in [Threads -> Call]
  BY <1>1, <1>2, NoCallOK
<1>5. \A u \in Threads, x \in live : Publishes(u, x)' <=> Publishes(u, x) /\ u # t
  BY <1>4, NoCallOK DEF Publishes
<1>6. \A x \in live : Publishes(t, x) => x = d
  BY DEF Publishes
<1>7. CallOK(t)'
  BY <1>4, NoCallOK DEF CallOK
<1> HIDE DEF d
<1>8. CASE live' = live \ {d} /\ UNCHANGED <<slots, issued>>
  <2>1. TypeOK'
    BY <1>1, <1>4, <1>8 DEF IInv, TypeOK
  <2>2. PlaceInv'
    <3>1. \A x \in live' : x <= opened'
      BY <1>1, <1>8 DEF IInv, PlaceInv
    <3>2. \A i \in Indices : slots'[i].database # 0 => slots'[i].database \in live'
      BY <1>3, <1>8 DEF IInv, PlaceInv
    <3>3. \A u \in Threads : call'[u].pc = "publish" =>
              /\ call'[u].database \in live'
              /\ \A i \in Indices : slots'[i].database # call'[u].database
      BY <1>3, <1>4, <1>8, NoCallOK DEF IInv, PlaceInv, Publishes
    <3>4. \A i, j \in Indices :
            slots'[i].database = slots'[j].database /\ slots'[i].database # 0 => i = j
      BY <1>8 DEF IInv, PlaceInv
    <3>5. \A u, v \in Threads, x \in live' :
            Publishes(u, x)' /\ Publishes(v, x)' => u = v
      BY <1>5, <1>8 DEF IInv, PlaceInv
    <3>6. \A x \in live' : \/ \E i \in Indices : slots'[i].database = x
                           \/ \E u \in Threads : Publishes(u, x)'
      BY <1>5, <1>6, <1>8 DEF IInv, PlaceInv
    <3> QED
      BY <3>1, <3>2, <3>3, <3>4, <3>5, <3>6 DEF PlaceInv
  <2>3. TokenInv' /\ TransactionOfItsDatabase'
    BY <1>8 DEF IInv, TokenInv, TransactionOfItsDatabase
  <2>4. LockInv'
    BY <1>1, <1>2, <1>4, <1>8, NoCallOK DEF LockInv
  <2>5. CallInv'
    <3>1. ASSUME NEW u \in Threads, u # t PROVE CallOK(u)'
      <4>1. TypeOK /\ CallOK(u) /\ call'[u] = call[u]
        BY <1>4, <3>1, Facts DEF IInv
      <4> QED
        BY <1>8, <4>1, OtherCallOK
    <3> QED
      BY <1>7, <3>1, CallPartsPrimed
  <2> QED
    BY <2>1, <2>2, <2>3, <2>4, <2>5 DEF IInv
<1>9. ASSUME NEW i \in free,
             slots' = [slots EXCEPT ![i].database = d],
             issued' = issued \cup
                 {[token |-> [slot |-> i, generation |-> slots[i].generation],
                   database |-> d]},
             live' = live
      PROVE  IInv'
  <2> DEFINE s == [slots[i] EXCEPT !.database = d]
             k == [slot |-> i, generation |-> slots[i].generation]
             n == [token |-> k, database |-> d]
  <2>1. i \in Indices /\ slots[i].database = 0 /\ ~slots[i].retired
    BY <1>9
  <2>2. /\ s \in Slot /\ s.database = d /\ s.generation = slots[i].generation
        /\ s.retired = slots[i].retired /\ s.holder = slots[i].holder
        /\ s.handle = slots[i].handle
    BY <1>2, <1>3, <2>1 DEF Slot
  <2>3. /\ slots'[i] = s /\ \A j \in Indices \ {i} : slots'[j] = slots[j]
        /\ slots' \in [Indices -> Slot]
    BY <1>2, <1>9, <2>1, <2>2
  <2>4. /\ k \in Token /\ k.slot = i /\ k.generation = slots[i].generation
        /\ n \in [token: Token, database: Databases]
        /\ n.token = k /\ n.database = d /\ issued' = issued \cup {n}
    BY <1>2, <1>3, <1>9, <2>1 DEF Token, Slot
  <2> HIDE DEF s, n
  <2>5. \A e \in issued : e.token # k
    <3> SUFFICES ASSUME NEW e \in issued, e.token = k PROVE FALSE
      OBVIOUS
    <3>1. slots[i].database = e.database
      BY <2>1, <2>4 DEF IInv, TokenInv
    <3>2. e.database # 0
      BY DEF IInv, TypeOK, Databases
    <3> QED
      BY <2>1, <3>1, <3>2
  <2>6. TypeOK'
    <3>1. issued' \subseteq [token: Token, database: Databases]
      BY <2>4 DEF IInv, TypeOK
    <3> QED
      BY <1>1, <1>4, <1>9, <2>3, <3>1 DEF IInv, TypeOK
  <2>7. PlaceInv'
    <3>1. \A x \in live' : x <= opened'
      BY <1>1, <1>9 DEF IInv, PlaceInv
    <3>2. \A j \in Indices : slots'[j].database # 0 => slots'[j].database \in live'
      BY <1>3, <1>9, <2>2, <2>3 DEF IInv, PlaceInv
    <3>3. \A u \in Threads : call'[u].pc = "publish" =>
              /\ call'[u].database \in live'
              /\ \A j \in Indices : slots'[j].database # call'[u].database
      <4> SUFFICES ASSUME NEW u \in Threads, call'[u].pc = "publish"
                   PROVE  /\ call'[u].database \in live'
                          /\ \A j \in Indices : slots'[j].database # call'[u].database
        OBVIOUS
      <4>1. u # t /\ call'[u] = call[u]
        BY <1>4, NoCallOK
      <4>2. /\ call[u].database \in live
            /\ \A j \in Indices : slots[j].database # call[u].database
        BY <4>1 DEF IInv, PlaceInv
      <4>3. call[u].database # d
        BY <1>3, <4>1 DEF Publishes
      <4> QED
        BY <1>9, <2>2, <2>3, <4>1, <4>2, <4>3
    <3>4. \A j, m \in Indices :
            slots'[j].database = slots'[m].database /\ slots'[j].database # 0 => j = m
      BY <1>3, <2>2, <2>3 DEF IInv, PlaceInv
    <3>5. \A u, v \in Threads, x \in live' :
            Publishes(u, x)' /\ Publishes(v, x)' => u = v
      BY <1>5, <1>9 DEF IInv, PlaceInv
    <3>6. \A x \in live' : \/ \E j \in Indices : slots'[j].database = x
                           \/ \E u \in Threads : Publishes(u, x)'
      <4> TAKE x \in live'
      <4>1. CASE x = d
        BY <2>1, <2>2, <2>3, <4>1
      <4>2. CASE x # d /\ \E j \in Indices : slots[j].database = x
        <5>1. PICK j \in Indices : slots[j].database = x
          BY <4>2
        <5>2. x # 0
          BY <1>9 DEF IInv, TypeOK, Databases
        <5> QED
          BY <2>1, <2>3, <5>1, <5>2
      <4>3. CASE x # d /\ \E u \in Threads : Publishes(u, x)
        BY <1>5, <1>6, <1>9, <4>3
      <4> QED
        BY <1>9, <4>1, <4>2, <4>3 DEF IInv, PlaceInv
    <3> QED
      BY <3>1, <3>2, <3>3, <3>4, <3>5, <3>6 DEF PlaceInv
  <2>8. TokenInv'
    <3>1. ASSUME NEW e \in issued'
          PROVE  /\ e.token.generation <= slots'[e.token.slot].generation
                 /\ /\ e.token.generation = slots'[e.token.slot].generation
                    /\ ~slots'[e.token.slot].retired
                    => slots'[e.token.slot].database = e.database
      <4>1. CASE e = n
        <5>1. slots[i].generation \in Nat
          BY <1>2, <2>1 DEF Slot, Generations
        <5> QED
          BY <2>2, <2>3, <2>4, <4>1, <5>1
      <4>2. CASE e \in issued
        <5>1. /\ e.token \in Token /\ e.token.slot \in Indices
              /\ e.token.generation <= slots[e.token.slot].generation
              /\ /\ e.token.generation = slots[e.token.slot].generation
                 /\ ~slots[e.token.slot].retired
                 => slots[e.token.slot].database = e.database
          BY <4>2 DEF IInv, TypeOK, Token, TokenInv
        <5>2. CASE e.token.slot = i
          <6>1. e.token.generation # slots[i].generation
            BY <2>5, <4>2, <5>1, <5>2 DEF Token
          <6> QED
            BY <2>2, <2>3, <5>1, <5>2, <6>1
        <5>3. CASE e.token.slot # i
          BY <2>3, <5>1, <5>3
        <5> QED
          BY <5>2, <5>3
      <4> QED
        BY <2>4, <4>1, <4>2
    <3>2. \A e, f \in issued' : e.token = f.token => e.database = f.database
      BY <2>4, <2>5 DEF IInv, TokenInv
    <3>3. \A j \in Indices : slots'[j].database # 0 =>
            /\ ~slots'[j].retired
            /\ \E e \in issued' :
                  e.token = [slot |-> j, generation |-> slots'[j].generation]
      <4> SUFFICES ASSUME NEW j \in Indices, slots'[j].database # 0
                   PROVE  /\ ~slots'[j].retired
                          /\ \E e \in issued' :
                               e.token = [slot |-> j, generation |-> slots'[j].generation]
        OBVIOUS
      <4>1. CASE j = i
        BY <2>1, <2>2, <2>3, <2>4, <4>1
      <4>2. CASE j # i
        BY <2>3, <2>4, <4>2 DEF IInv, TokenInv
      <4> QED
        BY <4>1, <4>2
    <3> QED
      BY <3>1, <3>2, <3>3 DEF TokenInv
  <2>9. LockInv'
    BY <1>1, <1>2, <1>4, <2>1, <2>2, <2>3, NoCallOK DEF LockInv
  <2>10. CallInv'
    <3>1. ASSUME NEW u \in Threads, u # t PROVE CallOK(u)'
      <4>1. TypeOK /\ CallOK(u) /\ call'[u] = call[u] /\ call[u].token.slot \in Indices
        BY <1>4, <3>1, Facts DEF IInv
      <4>2. call[u].pc \in {"slot", "work"} /\ call[u].op # "terminate" =>
               call[u].token.slot # i
        BY <2>1, <4>1 DEF CallOK, LookupSlot
      <4> QED
        BY <2>3, <4>1, <4>2, OtherCallOK
    <3> QED
      BY <1>7, <3>1, CallPartsPrimed
  <2>11. TransactionOfItsDatabase'
    BY <2>1, <2>2, <2>3 DEF IInv, TransactionOfItsDatabase
  <2> QED
    BY <2>6, <2>7, <2>8, <2>9, <2>10, <2>11 DEF IInv
<1> QED
  BY <1>1, <1>8, <1>9

-----------------------------------------------------------------------------
(* The invariant. *)

LEMMA InitIInv == Init => IInv
<1> SUFFICES ASSUME Init PROVE IInv
  OBVIOUS
<1>1. /\ FreshSlot \in Slot /\ FreshSlot.database = 0 /\ FreshSlot.handle = "none"
      /\ FreshSlot.holder = NoThread
  BY SlotsAssumption DEF FreshSlot, Slot, Holders, Generations
<1>2. /\ \A i \in Indices : slots[i] = FreshSlot
      /\ \A t \in Threads : call[t] = NoCall
      /\ live = {} /\ issued = {} /\ table = NoThread
  BY DEF Init
<1>3. TypeOK
  <2>1. slots \in [Indices -> Slot] /\ call \in [Threads -> Call]
    BY <1>1, NoCallOK DEF Init
  <2>2. staged \in [Threads -> BOOLEAN] /\ table \in Holders
    BY DEF Init, Holders
  <2>3. opened \in 0..MaxOpens /\ calls \in 0..MaxCalls
    BY SlotsAssumption DEF Init
  <2> QED
    BY <1>2, <2>1, <2>2, <2>3 DEF TypeOK
<1>4. PlaceInv
  BY <1>1, <1>2, NoCallOK DEF PlaceInv
<1>5. TokenInv /\ TransactionOfItsDatabase
  BY <1>1, <1>2 DEF TokenInv, TransactionOfItsDatabase
<1>6. LockInv /\ CallInv
  BY <1>1, <1>2, NoCallOK, SlotsAssumption DEF LockInv, CallInv
<1> QED
  BY <1>3, <1>4, <1>5, <1>6 DEF IInv

LEMMA NextIInv == IInv /\ [Next]_vars => IInv'
<1> SUFFICES ASSUME IInv, [Next]_vars PROVE IInv'
  OBVIOUS
<1>1. CASE UNCHANGED vars
  BY <1>1 DEF vars, IInv, TypeOK, PlaceInv, Publishes, TokenInv, LockInv, CallInv,
     LookupSlot, TransactionOfItsDatabase
<1>2. ASSUME NEW t \in Threads,
             Stage(t) \/ OpenDatabase(t) \/ CallTerminate(t)
      PROVE  IInv'
  BY <1>2, StageKeeps, OpenKeeps, CallTerminateKeeps
<1>3. ASSUME NEW t \in Threads, NEW op \in SlotCalls \cup {"close"},
             NEW e \in issued, CallWith(t, op, e.token)
      PROVE  IInv'
  BY <1>3, CallWithKeeps
<1>4. ASSUME NEW t \in Threads, Proceed(t)
      PROVE  IInv'
  BY <1>4, PublishKeeps, TakeTableKeeps, TakeSlotKeeps, WorkKeeps, CloseWorkKeeps,
     TerminateSlotKeeps, TerminateReturnKeeps DEF Proceed
<1> QED
  BY <1>1, <1>2, <1>3, <1>4 DEF Next

LEMMA IInvAlways == Spec => []IInv
BY InitIInv, NextIInv, PTL DEF Spec

(* TypeOK: in particular the generation of a slot never passes             *)
(* k_generation_max, and no index leaves g_slots.                          *)
THEOREM SlotTypes == Spec => []TypeOK
BY IInvAlways, PTL DEF IInv

(* WorksOnItsDatabase: a call works alone on the database its token was    *)
(* issued for, and that token was issued for no other, whatever close,     *)
(* openStaged and ESTerminate do on other threads meanwhile.               *)
THEOREM CallsWorkOnTheirDatabase == Spec => []WorksOnItsDatabase
<1>1. IInv => WorksOnItsDatabase
  <2> SUFFICES ASSUME IInv, NEW t \in Threads, Working(t)
               PROVE  /\ {e.database : e \in {f \in issued : f.token = call[t].token}}
                            = {call[t].database}
                      /\ slots[call[t].at].database = call[t].database
                      /\ \A u \in Threads \ {t} : Working(u) => call[u].at # call[t].at
    BY DEF WorksOnItsDatabase
  <2>1. CallOK(t) /\ LockInv /\ call[t] \in Call /\ call[t].token.slot \in Indices
    BY Facts
  <2>2. /\ call[t].at = call[t].token.slot /\ LookupSlot(call[t].token)
        /\ call[t].database = slots[call[t].at].database
    BY <2>1 DEF Working, CallOK, SlotCalls
  <2>3. call[t].token = [slot |-> call[t].at,
                         generation |-> slots[call[t].at].generation]
    BY <2>1, <2>2 DEF LookupSlot, Call, Token
  <2>4. \E e \in issued : e.token = call[t].token
    BY <2>1, <2>2, <2>3 DEF IInv, TokenInv, LookupSlot
  <2>5. \A e \in issued : e.token = call[t].token => e.database = call[t].database
    BY <2>2 DEF IInv, TokenInv, LookupSlot
  <2>6. \A u \in Threads \ {t} : Working(u) => call[u].at # call[t].at
    BY <2>1, <2>2 DEF Working, LockInv
  <2> QED
    BY <2>2, <2>4, <2>5, <2>6
<1> QED
  BY <1>1, IInvAlways, PTL

(* TableConsistent: every open database is in exactly one slot or on its   *)
(* way there, nothing else is, and a slot's transaction is one of its      *)
(* database, also when the table is full and when a commit fails.          *)
THEOREM TableStaysConsistent == Spec => []TableConsistent
<1>1. IInv => NoDatabaseLost
  <2> SUFFICES ASSUME IInv, NEW d \in Databases
               PROVE  Cardinality({i \in Indices : slots[i].database = d}
                                    \cup {t \in Threads : call[t].pc = "publish"
                                            /\ call[t].database = d})
                        = IF d \in live THEN 1 ELSE 0
    BY DEF NoDatabaseLost
  <2> DEFINE places == {i \in Indices : slots[i].database = d}
                         \cup {t \in Threads : call[t].pc = "publish"
                                 /\ call[t].database = d}
  <2>1. d # 0
    BY DEF Databases
  <2>2. CASE d \in live
    <3>1. CASE \E i \in Indices : slots[i].database = d
      <4>1. PICK i \in Indices : slots[i].database = d
        BY <3>1
      <4>2. \A j \in Indices : slots[j].database = d => j = i
        BY <2>1, <4>1 DEF IInv, PlaceInv
      <4>3. \A t \in Threads : ~(call[t].pc = "publish" /\ call[t].database = d)
        BY <4>1 DEF IInv, PlaceInv
      <4>4. places = {i}
        BY <4>1, <4>2, <4>3
      <4> QED
        BY <2>2, <4>4, FS_Singleton
    <3>2. CASE ~\E i \in Indices : slots[i].database = d
      <4>1. PICK t \in Threads : Publishes(t, d)
        BY <2>2, <3>2 DEF IInv, PlaceInv
      <4>2. \A u \in Threads : Publishes(u, d) => u = t
        BY <2>2, <4>1 DEF IInv, PlaceInv
      <4>3. places = {t}
        BY <3>2, <4>1, <4>2 DEF Publishes
      <4> QED
        BY <2>2, <4>3, FS_Singleton
    <3> QED
      BY <3>1, <3>2
  <2>3. CASE d \notin live
    <3>1. places = {}
      BY <2>1, <2>3 DEF IInv, PlaceInv
    <3> QED
      BY <2>3, <3>1, FS_EmptySet
  <2> QED
    BY <2>2, <2>3
<1>2. IInv => TableConsistent
  BY <1>1 DEF TableConsistent, IInv
<1> QED
  BY <1>2, IInvAlways, PTL

(* A token stays stale: once the database a token was issued for is closed *)
(* (close, ESTerminate), lock_slot refuses the token for good.             *)
THEOREM StaleTokenStaysStale ==
    Spec => [][\A e \in issued :
                  ~LookupSlot(e.token) => ~LookupSlot(e.token)']_vars
<1> DEFINE Older(i) == /\ slots[i].retired => slots'[i].retired
                       /\ slots[i].generation <= slots'[i].generation
<1>1. ASSUME IInv, Next, NEW i \in Indices PROVE Older(i)
  <2>0. slots \in [Indices -> Slot] /\ slots[i] \in Slot
        /\ slots[i].generation <= slots[i].generation
    BY <1>1 DEF IInv, TypeOK, Slot, Generations
  <2>1. CASE slots' = slots
    BY <2>0, <2>1
  <2>2. ASSUME NEW t \in Threads, PublishSlot(t) PROVE Older(i)
    <3>1. CASE slots' = slots
      BY <2>0, <3>1
    <3>2. ASSUME NEW j \in Indices, slots' = [slots EXCEPT ![j].database = call[t].database]
          PROVE  Older(i)
      BY <2>0, <3>2 DEF Slot
    <3> QED
      BY <2>2, <3>1, <3>2 DEF PublishSlot, Exhausted
  <2>3. ASSUME NEW t \in Threads, TakeSlot(t) PROVE Older(i)
    <3>1. slots' = [slots EXCEPT ![call[t].at].holder = t]
      BY <2>3 DEF TakeSlot
    <3> QED
      BY <2>0, <3>1 DEF Slot
  <2>4. ASSUME NEW t \in Threads, NEW j \in Indices, NEW r \in Slot,
               slots' = [slots EXCEPT ![j] = r],
               slots[j].retired => r.retired, slots[j].generation <= r.generation
        PROVE  Older(i)
    BY <2>0, <2>4
  <2>5. ASSUME NEW t \in Threads, Work(t) PROVE Older(i)
    <3>1. PICK s \in WorkOf(call[t].op, slots[call[t].at]) :
            slots' = [slots EXCEPT ![call[t].at] = Released(s)]
      BY <2>5 DEF Work
    <3>2. /\ call[t].pc = "work" /\ call[t].op \in SlotCalls /\ CallOK(t)
          /\ call[t].token.slot \in Indices
          /\ \A j \in Indices : OwnsItsTransaction(slots[j])
      BY <1>1, <2>5, Facts DEF Work
    <3>3. call[t].at \in Indices /\ slots[call[t].at].database # 0
      BY <3>2 DEF CallOK, SlotCalls, LookupSlot
    <3>4. s \in Slot /\ SameEntry(s, slots[call[t].at])
      BY <2>0, <3>1, <3>2, <3>3, WorkOK
    <3>5. slots[call[t].at].generation <= slots[call[t].at].generation
      BY <2>0, <3>3 DEF Slot, Generations
    <3>6. /\ Released(s) \in Slot
          /\ slots[call[t].at].retired => Released(s).retired
          /\ slots[call[t].at].generation <= Released(s).generation
      BY <3>4, <3>5, ReleasedOK DEF SameEntry
    <3> QED
      BY <2>4, <3>1, <3>3, <3>6
  <2>6. ASSUME NEW t \in Threads, CloseWork(t) PROVE Older(i)
    <3>1. slots' = [slots EXCEPT ![call[t].at] = Released(CloseSlot(slots[call[t].at]))]
      BY <2>6 DEF CloseWork
    <3>2. /\ call[t].pc = "work" /\ CallOK(t) /\ call[t].token.slot \in Indices
      BY <1>1, <2>6, Facts DEF CloseWork
    <3>3. call[t].at \in Indices
      BY <3>2 DEF CallOK
    <3> QED
      BY <2>0, <2>4, <3>1, <3>3, CloseSlotOK, ReleasedOK
  <2>7. ASSUME NEW t \in Threads, TerminateSlot(t) PROVE Older(i)
    <3>1. \/ slots' = slots
          \/ slots' = [slots EXCEPT ![call[t].at] = CloseSlot(slots[call[t].at])]
      BY <2>7 DEF TerminateSlot
    <3>2. /\ call[t].pc = "slot" /\ call[t].op = "terminate"
          /\ call[t].at <= SlotCount /\ CallOK(t) /\ call[t] \in Call
      BY <1>1, <2>7, Facts DEF TerminateSlot
    <3>3. call[t].at \in Indices
      BY <3>2, SlotsAssumption DEF CallOK, SlotCalls, Indices, Call
    <3> QED
      BY <2>0, <2>1, <2>4, <3>1, <3>3, CloseSlotOK
  <2> QED
    BY <1>1, <2>1, <2>2, <2>3, <2>5, <2>6, <2>7
    DEF Next, Proceed, Stage, OpenDatabase, CallTerminate, CallWith, TakeTable,
        TerminateReturn
<1>2. ASSUME IInv, Next, NEW e \in issued, ~LookupSlot(e.token)
      PROVE  ~LookupSlot(e.token)'
  <2>1. /\ e.token.slot \in Indices /\ e.token.generation \in Nat
        /\ slots[e.token.slot].generation \in Nat
    BY <1>2 DEF IInv, TypeOK, Token, Slot, Generations
  <2>2. /\ e.token.generation <= slots[e.token.slot].generation
        /\ /\ e.token.generation = slots[e.token.slot].generation
           /\ ~slots[e.token.slot].retired
           => slots[e.token.slot].database = e.database
        /\ e.database # 0
    BY <1>2 DEF IInv, TokenInv, TypeOK, Databases
  <2>3. \/ slots[e.token.slot].retired
        \/ e.token.generation < slots[e.token.slot].generation
    BY <1>2, <2>1, <2>2 DEF LookupSlot
  <2>4. Older(e.token.slot) /\ slots'[e.token.slot].generation \in Nat
    <3>1. IInv'
      BY <1>2, NextIInv
    <3> QED
      BY <1>1, <1>2, <2>1, <3>1 DEF IInv, TypeOK, Slot, Generations
  <2> QED
    BY <2>1, <2>3, <2>4 DEF LookupSlot
<1>3. IInv /\ [Next]_vars =>
         [\A e \in issued : ~LookupSlot(e.token) => ~LookupSlot(e.token)']_vars
  BY <1>2
<1> QED
  BY <1>3, IInvAlways, PTL DEF Spec

-------------------------------------------------------------------------------
(***************************************************************************)
(* Typed calls (TypedQuery).                                               *)
(***************************************************************************)

CONSTANTS Bytes32, Bytes64, MAX_SAFE_INTEGER, Scenarios, Schemas, NameBytes,
          MaxWire, StaleChanges
VARIABLES query, schema, rows, pc, values, bound, names, count, output, context,
          result, produced, applied, altered

Query == INSTANCE TypedQuery WITH call <- query

QueryAssumptions == Query!LimitAssumption /\ Query!ScenarioAssumption

(* What the native side makes of a column, and what the script reads. *)
Native(x) == Query!esdb_query_column_value(x)
Read(x) == Query!decodeStoreValue(Query!value_wire(Native(x)))
Bind(p) == Query!esdb_query_bind_value(Query!Parsed(Query!Encoded(p)))

(* The wires of row i of the statement, and the first n rows of a reply. *)
RowWires(i) ==
    [j \in 1..count |-> Query!value_wire(Native(Query!Column(produced.rows[i], j)))]
Page(n) == [i \in 1..n |-> RowWires(i)]

(* The rows SQLite has yet to produce after t of them. *)
Rest(t) == [k \in 1..(Len(produced.rows) - t) |-> produced.rows[t + k]]

IsContext(c) ==
    c \in [rows: {c.rows}, size: {c.size}, total: Nat, deliver: BOOLEAN,
           truncated: BOOLEAN, failed: BOOLEAN]

(* The call and its table are those of a scenario. *)
FromScenario ==
    \E s \in Scenarios :
        query = s.call /\ rows = s.rows /\ schema \in Schemas \cup {s.schema}

(* Until the first step nothing is written and nothing is answered: of the *)
(* context there is only the size of the names, or that they do not fit.   *)
BeforeRows ==
    pc \in {"call", "metadata", "prepare", "step"} =>
        /\ IsContext(context) /\ context.rows = <<>> /\ context.total = 0
        /\ context.deliver /\ ~context.truncated
        /\ pc \in {"call", "metadata"} => ~context.failed
        /\ output = <<>>
        /\ produced = [columns |-> <<>>, rows |-> <<>>]
        /\ applied = FALSE /\ result = Query!Nothing

(* The parameters, as they were given, parsed and bound. *)
ParametersOK ==
    /\ pc \notin {"call", "done"} =>
          /\ values = [i \in DOMAIN query.params |->
                           Query!Parsed(Query!Encoded(query.params[i]))]
          /\ \A i \in DOMAIN values : values[i] # Query!Fail
    /\ \A i \in DOMAIN bound :
          /\ i \in DOMAIN query.params
          /\ Query!Parsed(Query!Encoded(query.params[i])) # Query!Fail
          /\ bound[i] = Bind(query.params[i]) /\ bound[i] # Query!Fail
    /\ pc \in {"call", "metadata", "prepare"} => bound = <<>>

(* Names and count are read by two statements: they agree unless the       *)
(* columns change between the two, or the names do not fit.                *)
ColumnsOK ==
    /\ count \in Nat
    /\ pc \in {"prepare", "step", "rows"} /\ ~altered
          => \/ names = Query!Columns(query.sql, schema)
             \/ ~Query!NamesFit(Query!Columns(query.sql, schema)) /\ context.failed
    /\ pc \in {"prepare", "step"} /\ context.failed /\ ~altered
          => ~Query!NamesFit(Query!Columns(query.sql, schema))
    /\ pc \in {"step", "rows"} /\ ~altered
          => count = Len(Query!Columns(query.sql, schema))

(* Every value the statement produced is from the table or a parameter. *)
CellsOK ==
    \A i \in DOMAIN produced.rows : \A j \in DOMAIN produced.rows[i] :
        \/ \E k \in DOMAIN rows : \E c \in DOMAIN rows[k] :
              produced.rows[i][j] = rows[k][c]
        \/ \E k \in DOMAIN bound : produced.rows[i][j] = bound[k]

(* While rows come: the reply has the first of them, `total` were counted. *)
PageOK(n) ==
    /\ context.rows = Page(n) /\ n <= query.max_rows /\ n <= context.total
    /\ context.deliver => n = context.total /\ ~context.truncated
    /\ ~context.deliver => n < context.total /\ (context.truncated \/ context.failed)
    /\ context.truncated => n < context.total
    /\ context.failed => altered \/ ~Query!NamesFit(produced.columns)
    /\ \A i \in 1..n : \A j \in 1..count :
          Native(Query!Column(produced.rows[i], j)) # Query!Fail

(* While SQLite has rows to produce. *)
DuringRows ==
    pc = "rows" =>
        /\ result = Query!Nothing
        /\ produced = [columns |-> Query!Columns(query.sql, schema),
                       rows |-> Query!Produces(query.sql, schema)]
        /\ applied = ~Query!Readonly(query.sql)
        /\ IsContext(context) /\ context.size <= MaxWire
        /\ context.total <= Len(produced.rows)
        /\ output = Rest(context.total)
        /\ \E n \in Nat : PageOK(n)

(* What a script reads of a row it gets. *)
RowsRead ==
    result.status = "ok" =>
        \A i \in DOMAIN result.rows : \A j \in DOMAIN result.rows[i] :
            LET x == Query!Column(produced.rows[i], j)
            IN  /\ i \in DOMAIN produced.rows
                /\ Native(x) # Query!Fail
                /\ Read(x) # Query!Fail /\ result.rows[i][j] = Read(x)

(* The names a script gets are those of the statement's columns. *)
NamesRead ==
    result.status = "ok" /\ ~altered =>
        /\ DOMAIN result.names = DOMAIN produced.columns
        /\ \A i \in DOMAIN result.names :
              /\ result.names[i] = Query!ColumnName(produced.columns[i])
              /\ result.names[i] # Query!Fail

(* Each column the statement has is one with a name. *)
NamedColumns == \A i \in DOMAIN produced.columns : produced.columns[i] \in DOMAIN NameBytes

(* Why a call whose change stays may fail: the columns changed meanwhile,  *)
(* their names do not fit or cannot be read, a value cannot be read, or    *)
(* the statement keeps what it did before it failed.                       *)
Unreadable(x) == Native(x) = Query!Fail \/ Read(x) = Query!Fail
Explained ==
    \/ altered
    \/ ~Query!NamesFit(produced.columns)
    \/ \E i \in DOMAIN produced.columns :
          Query!ColumnName(produced.columns[i]) = Query!Fail
    \/ \E i \in DOMAIN produced.rows : \E j \in DOMAIN produced.rows[i] :
          Unreadable(produced.rows[i][j])
    \/ Query!KeepsRows(query.sql)
FailureExplained == result.status \in {"error", "thrown"} /\ applied => Explained

(* When the call is done. *)
Answered ==
    pc = "done" =>
        /\ result.status \in {"ok", "error", "thrown"}
        /\ Query!TruncationReported /\ NamesRead /\ Query!ChangesAreOwn
        /\ RowsRead /\ FailureExplained

(* The inductive invariant. *)
QueryInv ==
    /\ Query!TypeOK /\ FromScenario /\ BeforeRows /\ ParametersOK /\ ColumnsOK
    /\ CellsOK /\ NamedColumns /\ DuringRows /\ Answered

-----------------------------------------------------------------------------
(* The table and the call, as the assumption has them. *)
LEMMA ScenarioFacts ==
    ASSUME QueryAssumptions, FromScenario
    PROVE  /\ query.max_rows \in Nat /\ MaxWire \in Nat
           /\ query.params \in Seq([type: STRING, v: Seq(Int)])
           /\ schema \in Seq(STRING)
           /\ rows \in Seq({rows[i] : i \in DOMAIN rows})
           /\ \A i \in DOMAIN rows, j \in DOMAIN schema : schema[j] \in DOMAIN rows[i]
           /\ "?" \in DOMAIN NameBytes
           /\ \A j \in DOMAIN schema : schema[j] \in DOMAIN NameBytes
<1>1. PICK s \in Scenarios :
          query = s.call /\ rows = s.rows /\ schema \in Schemas \cup {s.schema}
  BY DEF FromScenario
<1>2. MaxWire \in Nat
  BY DEF QueryAssumptions, Query!LimitAssumption
<1>3. /\ Schemas \subseteq Seq(STRING) /\ s.call.max_rows \in Nat
      /\ s.call.params \in Seq([type: STRING, v: Seq(Int)])
      /\ s.schema \in Seq(STRING)
      /\ s.rows \in Seq({s.rows[i] : i \in DOMAIN s.rows})
      /\ \A i \in DOMAIN s.rows, columns \in Schemas \cup {s.schema} :
            {columns[j] : j \in DOMAIN columns} \subseteq DOMAIN s.rows[i]
  BY DEF QueryAssumptions, Query!ScenarioAssumption
<1>4. \A i \in DOMAIN rows, j \in DOMAIN schema : schema[j] \in DOMAIN rows[i]
  BY <1>1, <1>3
<1>5. /\ "?" \in DOMAIN NameBytes
      /\ \A columns \in Schemas \cup {z.schema : z \in Scenarios} :
            {columns[j] : j \in DOMAIN columns} \subseteq DOMAIN NameBytes
  BY DEF QueryAssumptions, Query!ScenarioAssumption
<1>6. \A j \in DOMAIN schema : schema[j] \in DOMAIN NameBytes
  <2>1. schema \in Schemas \cup {z.schema : z \in Scenarios}
    BY <1>1
  <2> QED
    BY <1>5, <2>1
<1> QED
  BY <1>1, <1>2, <1>3, <1>4, <1>5, <1>6

(* The columns and the rows of a statement are sequences. *)
LEMMA StatementFacts ==
    ASSUME QueryAssumptions, FromScenario
    PROVE  /\ Len(Query!Columns(query.sql, schema)) \in Nat
           /\ \E n \in Nat : \E f : Query!Produces(query.sql, schema) = [i \in 1..n |-> f[i]]
<1>1. /\ schema \in Seq(STRING) /\ rows \in Seq({rows[i] : i \in DOMAIN rows})
  BY ScenarioFacts
<1>2. Len(Query!Columns(query.sql, schema)) \in Nat
  <2>1. Query!Columns(query.sql, schema) \in {schema, <<"?">>, <<>>}
    BY DEF Query!Columns
  <2>2. Len(<<"?">>) = 1 /\ Len(<<>>) = 0
    OBVIOUS
  <2> QED
    BY <1>1, <2>1, <2>2
<1>3. CASE query.sql \in {"select", "returning"}
  <2> DEFINE f == [i \in DOMAIN rows |-> [j \in DOMAIN schema |-> rows[i][schema[j]]]]
  <2>1. Query!Produces(query.sql, schema) = f
    BY <1>3 DEF Query!Produces
  <2>2. DOMAIN rows = 1..Len(rows) /\ Len(rows) \in Nat
    BY <1>1
  <2>3. f = [i \in 1..Len(rows) |-> f[i]]
    BY <2>2
  <2> HIDE DEF f
  <2> QED
    BY <1>2, <2>1, <2>2, <2>3
<1>4. CASE query.sql = "echo"
  <2>1. Query!Produces(query.sql, schema) = <<bound>>
    BY <1>4 DEF Query!Produces
  <2>2. <<bound>> = [i \in 1..1 |-> <<bound>>[i]]
    OBVIOUS
  <2> QED
    BY <1>2, <2>1, <2>2
<1>5. CASE query.sql \notin {"select", "returning", "echo"}
  <2>1. Query!Produces(query.sql, schema) = <<>>
    BY <1>5 DEF Query!Produces
  <2>2. <<>> = [i \in 1..0 |-> <<>>[i]]
    OBVIOUS
  <2> QED
    BY <1>2, <2>1, <2>2
<1> QED
  BY <1>3, <1>4, <1>5

(* QueryInv holds when a call starts. *)
LEMMA QueryStarts ==
    ASSUME QueryAssumptions, Query!Init
    PROVE  QueryInv
<1>1. PICK s \in Scenarios :
          /\ query = s.call /\ schema = s.schema /\ rows = s.rows
          /\ pc = "call" /\ values = <<>> /\ bound = <<>>
          /\ names = <<>> /\ count = 0 /\ output = <<>>
          /\ context = Query!NoContext /\ result = Query!Nothing
          /\ produced = [columns |-> <<>>, rows |-> <<>>]
          /\ applied = FALSE /\ altered = FALSE
  BY DEF Query!Init
<1>2. FromScenario
  BY <1>1 DEF FromScenario
<1>3. query.max_rows \in Nat /\ MaxWire \in Nat
  BY <1>2, ScenarioFacts
<1>4. /\ result.status = "none" /\ context.total = 0 /\ context.size = 0
      /\ context.rows = <<>> /\ produced.rows = <<>>
  BY <1>1 DEF Query!NoContext, Query!Nothing
<1>5. Query!TypeOK
  <2>1. Len(context.rows) <= query.max_rows /\ context.size <= MaxWire
    BY <1>3, <1>4
  <2>2. (result.status = "none") = (pc # "done")
    BY <1>1, <1>4
  <2>3. pc = "call" /\ count \in Nat /\ context.total \in Nat
    BY <1>1, <1>4
  <2>4. applied \in BOOLEAN /\ altered \in BOOLEAN
    BY <1>1
  <2> QED
    BY <1>4, <2>1, <2>2, <2>3, <2>4 DEF Query!TypeOK
<1>6. BeforeRows /\ DuringRows /\ Answered
  <2>1. IsContext(context) /\ context.deliver /\ ~context.truncated /\ ~context.failed
    BY <1>1 DEF IsContext, Query!NoContext
  <2> QED
    BY <1>1, <1>4, <2>1 DEF BeforeRows, DuringRows, Answered
<1>7. ParametersOK /\ ColumnsOK
  BY <1>1 DEF ParametersOK, ColumnsOK
<1>8. CellsOK /\ NamedColumns
  <2>1. produced.columns = <<>>
    BY <1>1
  <2> QED
    BY <1>4, <2>1 DEF CellsOK, NamedColumns
<1> QED
  BY <1>2, <1>5, <1>6, <1>7, <1>8 DEF QueryInv

(* An answer that is only a status. *)
LEMMA StatusOnly ==
    ASSUME NEW status
    PROVE  [Query!Nothing EXCEPT !.status = status].status = status
<1> DEFINE n == Query!Nothing
<1>1. n \in [status: {"none"}, names: {<<>>}, rows: {<<>>}, total: {0}, changes: {0},
             truncated: {FALSE}]
  BY DEF Query!Nothing
<1> HIDE DEF n
<1>2. [n EXCEPT !.status = status].status = status
  BY <1>1
<1> QED
  BY <1>2 DEF n

(* A step that ends the call with a status, and changes nothing else but   *)
(* `applied`.                                                              *)
LEMMA QueryEnds ==
    ASSUME QueryAssumptions, QueryInv, pc # "done", pc' = "done",
           NEW status \in {"error", "thrown"},
           result' = [Query!Nothing EXCEPT !.status = status],
           UNCHANGED <<query, schema, rows, values, bound, names, count, output,
                       context, produced, altered>>,
           applied' \in BOOLEAN,
           applied' => Explained
    PROVE  QueryInv'
<1>1. result'.status = status
  BY StatusOnly
<1>2. result'.status # "ok" /\ result'.status # "none"
  BY <1>1
<1>3. Query!TypeOK'
  BY <1>1, <1>2 DEF QueryInv, Query!TypeOK
<1>4. FromScenario' /\ BeforeRows' /\ DuringRows'
  BY DEF QueryInv, FromScenario, BeforeRows, DuringRows
<1>5. ParametersOK' /\ ColumnsOK'
  BY DEF QueryInv, ParametersOK, ColumnsOK
<1>6. CellsOK' /\ NamedColumns'
  BY DEF QueryInv, CellsOK, NamedColumns
<1>7. FailureExplained'
  BY DEF FailureExplained, Explained, Unreadable
<1>8. Answered'
  BY <1>1, <1>2, <1>7
  DEF Answered, Query!TruncationReported, NamesRead, Query!ChangesAreOwn, RowsRead
<1> QED
  BY <1>3, <1>4, <1>5, <1>6, <1>8 DEF QueryInv

(* Before there are rows a call is refused with no change. *)
LEMMA QueryRefused ==
    ASSUME QueryAssumptions, QueryInv, NEW status \in {"error", "thrown"},
           pc \in {"call", "prepare"}, Query!Refuse(status)
    PROVE  QueryInv'
<1>1. applied' = FALSE
  BY DEF QueryInv, BeforeRows, Query!Refuse
<1> QED
  BY <1>1, QueryEnds DEF Query!Refuse, Query!Returns

(* querySql: the parameters are parsed, or the call is refused. *)
LEMMA QueryQuerySql ==
    ASSUME QueryAssumptions, QueryInv, Query!QuerySql
    PROVE  QueryInv'
<1> DEFINE parsed == [i \in DOMAIN query.params |->
                          Query!Parsed(Query!Encoded(query.params[i]))]
<1>1. pc = "call"
  BY DEF Query!QuerySql
<1>2. CASE Query!Refuse("thrown")
  BY <1>1, <1>2, QueryRefused
<1>3. CASE ~Query!Refuse("thrown")
  <2>1. /\ \A i \in DOMAIN parsed : parsed[i] # Query!Fail
        /\ values' = parsed /\ pc' = "metadata"
        /\ UNCHANGED <<query, schema, rows, bound, names, count, output, context,
                       result, produced, applied, altered>>
    BY <1>3 DEF Query!QuerySql
  <2>2. ParametersOK'
    BY <1>1, <2>1 DEF QueryInv, ParametersOK
  <2>3. Query!TypeOK' /\ FromScenario' /\ BeforeRows' /\ DuringRows' /\ Answered'
    BY <1>1, <2>1
    DEF QueryInv, Query!TypeOK, FromScenario, BeforeRows, DuringRows, Answered
  <2>4. ColumnsOK' /\ CellsOK' /\ NamedColumns'
    BY <1>1, <2>1 DEF QueryInv, ColumnsOK, CellsOK, NamedColumns
  <2> QED
    BY <2>2, <2>3, <2>4 DEF QueryInv
<1> QED
  BY <1>2, <1>3

(* The names of the columns, by a statement of their own. *)
LEMMA QueryMetadata ==
    ASSUME QueryAssumptions, QueryInv, Query!Metadata
    PROVE  QueryInv'
<1> DEFINE columns == Query!Columns(query.sql, schema)
<1>1. /\ pc = "metadata" /\ pc' = "prepare"
      /\ \/ /\ Query!NamesFit(columns)
            /\ names' = columns
            /\ context' = [context EXCEPT !.size = Query!NamesSize(columns)]
         \/ /\ ~Query!NamesFit(columns)
            /\ names' = <<>>
            /\ context' = [context EXCEPT !.failed = TRUE]
      /\ UNCHANGED <<query, schema, rows, values, bound, count, output, result,
                     produced, applied, altered>>
  BY DEF Query!Metadata
<1>2. /\ IsContext(context) /\ context.rows = <<>> /\ context.total = 0
      /\ context.deliver /\ ~context.truncated /\ ~context.failed
  BY <1>1 DEF QueryInv, BeforeRows
<1>3. /\ IsContext(context)' /\ context'.rows = <<>> /\ context'.total = 0
      /\ context'.deliver /\ ~context'.truncated
      /\ context'.size <= MaxWire
      /\ \/ names' = columns /\ ~context'.failed
         \/ ~Query!NamesFit(columns) /\ context'.failed
  <2>1. context.size <= MaxWire
    BY DEF QueryInv, Query!TypeOK
  <2> HIDE DEF columns
  <2> QED
    BY <1>1, <1>2, <2>1 DEF IsContext, Query!NamesFit
<1>4. ColumnsOK'
  <2>1. Query!Columns(query.sql, schema)' = columns
    BY <1>1 DEF Query!Columns
  <2>2. Query!NamesFit(Query!Columns(query.sql, schema))' = Query!NamesFit(columns)
    BY <2>1 DEF Query!NamesFit, Query!NamesSize
  <2> QED
    BY <1>1, <1>3, <2>1, <2>2 DEF QueryInv, ColumnsOK
<1>5. ParametersOK' /\ CellsOK' /\ NamedColumns'
  BY <1>1 DEF QueryInv, ParametersOK, CellsOK, NamedColumns
<1>6. Query!TypeOK'
  <2>1. Len(context'.rows) <= query.max_rows
    BY <1>2, <1>3 DEF QueryInv, Query!TypeOK
  <2> QED
    BY <1>1, <1>3, <2>1 DEF QueryInv, Query!TypeOK
<1>7. FromScenario' /\ BeforeRows' /\ DuringRows' /\ Answered'
  BY <1>1, <1>3
  DEF QueryInv, FromScenario, BeforeRows, DuringRows, Answered
<1> QED
  BY <1>4, <1>5, <1>6, <1>7 DEF QueryInv

(* esdb_query prepares its statement, counts its columns and binds. *)
LEMMA QueryPrepare ==
    ASSUME QueryAssumptions, QueryInv, Query!Prepare
    PROVE  QueryInv'
<1> DEFINE binds == [i \in DOMAIN values |-> Query!esdb_query_bind_value(values[i])]
<1>1. pc = "prepare"
  BY DEF Query!Prepare
<1>2. CASE Query!Refuse("error")
  BY <1>1, <1>2, QueryRefused
<1>3. CASE ~Query!Refuse("error")
  <2>1. /\ \A i \in DOMAIN binds : binds[i] # Query!Fail
        /\ bound' = binds /\ pc' = "step"
        /\ count' = Len(Query!Columns(query.sql, schema))
        /\ UNCHANGED <<query, schema, rows, values, names, output, context, result,
                       produced, applied, altered>>
    BY <1>3 DEF Query!Prepare
  <2>2. ParametersOK'
    <3>1. /\ values = [i \in DOMAIN query.params |->
                           Query!Parsed(Query!Encoded(query.params[i]))]
          /\ \A i \in DOMAIN values : values[i] # Query!Fail
      BY <1>1 DEF QueryInv, ParametersOK
    <3>2. ASSUME NEW i \in DOMAIN bound'
          PROVE  /\ i \in DOMAIN query.params
                 /\ Query!Parsed(Query!Encoded(query.params[i])) # Query!Fail
                 /\ bound'[i] = Bind(query.params[i]) /\ bound'[i] # Query!Fail
      BY <2>1, <3>1 DEF Bind
    <3> QED
      BY <2>1, <3>1, <3>2 DEF ParametersOK, Bind
  <2>3. ColumnsOK'
    <3>1. count' \in Nat
      BY <2>1, StatementFacts DEF QueryInv
    <3>2. Query!Columns(query.sql, schema)' = Query!Columns(query.sql, schema)
      BY <2>1 DEF Query!Columns
    <3>3. Query!NamesFit(Query!Columns(query.sql, schema))'
            = Query!NamesFit(Query!Columns(query.sql, schema))
      BY <3>2 DEF Query!NamesFit, Query!NamesSize
    <3> QED
      BY <1>1, <2>1, <3>1, <3>2, <3>3 DEF QueryInv, ColumnsOK
  <2>4. CellsOK' /\ NamedColumns'
    <3>1. produced'.rows = <<>> /\ produced'.columns = <<>>
      BY <1>1, <2>1 DEF QueryInv, BeforeRows
    <3> QED
      BY <3>1 DEF CellsOK, NamedColumns
  <2>5. Query!TypeOK' /\ FromScenario' /\ BeforeRows' /\ DuringRows' /\ Answered'
    BY <1>1, <2>1, <2>3
    DEF QueryInv, Query!TypeOK, FromScenario, BeforeRows, DuringRows, Answered,
        ColumnsOK, IsContext
  <2> QED
    BY <2>2, <2>3, <2>4, <2>5 DEF QueryInv
<1> QED
  BY <1>2, <1>3

(* Another connection changes the columns. *)
LEMMA QueryAlter ==
    ASSUME QueryAssumptions, QueryInv, Query!Alter
    PROVE  QueryInv'
<1>1. /\ pc \in {"metadata", "prepare", "step"} /\ schema' \in Schemas
      /\ altered' = TRUE
      /\ UNCHANGED <<query, rows, pc, values, bound, names, count, output, context,
                     result, produced, applied>>
  BY DEF Query!Alter
<1>2. FromScenario'
  BY <1>1 DEF QueryInv, FromScenario
<1>3. ParametersOK' /\ CellsOK' /\ NamedColumns' /\ ColumnsOK'
  BY <1>1 DEF QueryInv, ParametersOK, CellsOK, NamedColumns, ColumnsOK
<1>4. Query!TypeOK' /\ BeforeRows' /\ DuringRows' /\ Answered'
  BY <1>1 DEF QueryInv, Query!TypeOK, BeforeRows, DuringRows, Answered, IsContext
<1> QED
  BY <1>2, <1>3, <1>4 DEF QueryInv

(* The first step: no row is counted yet, all are to come. *)
LEMMA QueryFirstStep ==
    ASSUME QueryAssumptions, QueryInv, Query!FirstStep
    PROVE  QueryInv'
<1>1. /\ pc = "step" /\ pc' = "rows"
      /\ output' = Query!Produces(query.sql, schema)
      /\ produced' = [columns |-> Query!Columns(query.sql, schema),
                      rows |-> Query!Produces(query.sql, schema)]
      /\ applied' = ~Query!Readonly(query.sql)
      /\ UNCHANGED <<query, schema, rows, values, bound, names, count, context,
                     result, altered>>
  BY DEF Query!FirstStep
<1>2. /\ FromScenario /\ result = Query!Nothing
      /\ IsContext(context) /\ context.rows = <<>> /\ context.total = 0
      /\ context.deliver /\ ~context.truncated /\ context.size <= MaxWire
      /\ context.failed => \/ altered
                           \/ ~Query!NamesFit(Query!Columns(query.sql, schema))
  BY <1>1 DEF QueryInv, Query!TypeOK, BeforeRows, ColumnsOK
<1>3. PICK n \in Nat : \E f : Query!Produces(query.sql, schema) = [i \in 1..n |-> f[i]]
  BY <1>2, StatementFacts
<1>4. /\ produced'.rows = Query!Produces(query.sql, schema)
      /\ produced'.columns = Query!Columns(query.sql, schema)
      /\ Len(produced'.rows) = n
      /\ produced'.rows = [k \in 1..n |-> produced'.rows[k]]
  BY <1>1, <1>3
<1>5. context'.failed => altered' \/ ~Query!NamesFit(produced.columns)'
  <2>1. Query!NamesFit(produced.columns)'
          = Query!NamesFit(Query!Columns(query.sql, schema))
    BY <1>4 DEF Query!NamesFit, Query!NamesSize
  <2> QED
    BY <1>1, <1>2, <2>1
<1>6. query.max_rows \in Nat /\ MaxWire \in Nat
  BY <1>2, ScenarioFacts
<1>7. DuringRows'
  <2>1. output' = Rest(0)'
    BY <1>1, <1>4 DEF Rest
  <2>2. PageOK(0)'
    <3>1. Page(0)' = <<>>
      BY DEF Page
    <3> QED
      BY <1>1, <1>2, <1>5, <1>6, <3>1 DEF PageOK
  <2>3. \E k \in Nat : PageOK(k)'
    BY <2>2
  <2>4. IsContext(context)' /\ context'.total = 0 /\ context'.size <= MaxWire
    BY <1>1, <1>2 DEF IsContext
  <2>5. output' = Rest(context.total)'
    BY <2>1, <2>4 DEF Rest
  <2>6. /\ produced' = [columns |-> Query!Columns(query.sql, schema),
                        rows |-> Query!Produces(query.sql, schema)]'
        /\ applied' = ~Query!Readonly(query.sql)'
    BY <1>1 DEF Query!Columns, Query!Produces, Query!Readonly
  <2>7. context'.size <= MaxWire /\ context'.total <= Len(produced'.rows)
    BY <1>4, <1>6, <2>4
  <2> QED
    BY <1>1, <1>2, <2>3, <2>4, <2>5, <2>6, <2>7 DEF DuringRows
<1>8. CellsOK'
  <2>1. SUFFICES ASSUME NEW i \in DOMAIN produced'.rows,
                        NEW j \in DOMAIN produced'.rows[i]
                 PROVE  \/ \E k \in DOMAIN rows : \E c \in DOMAIN rows[k] :
                              produced'.rows[i][j] = rows[k][c]
                        \/ \E k \in DOMAIN bound : produced'.rows[i][j] = bound[k]
    BY <1>1 DEF CellsOK
  <2>2. CASE query.sql \in {"select", "returning"}
    <3>1. produced'.rows = [k \in DOMAIN rows |->
                                [l \in DOMAIN schema |-> rows[k][schema[l]]]]
      BY <1>4, <2>2 DEF Query!Produces
    <3>2. i \in DOMAIN rows /\ j \in DOMAIN schema
      BY <2>1, <3>1
    <3>3. produced'.rows[i][j] = rows[i][schema[j]] /\ schema[j] \in DOMAIN rows[i]
      BY <1>2, <3>1, <3>2, ScenarioFacts
    <3> QED
      BY <3>2, <3>3
  <2>3. CASE query.sql = "echo"
    <3>1. produced'.rows = <<bound>>
      BY <1>4, <2>3 DEF Query!Produces
    <3>2. i = 1
      BY <2>1, <3>1
    <3> QED
      BY <2>1, <3>1, <3>2
  <2>4. CASE query.sql \notin {"select", "returning", "echo"}
    <3>1. produced'.rows = <<>>
      BY <1>4, <2>4 DEF Query!Produces
    <3> QED
      BY <2>1, <3>1
  <2> QED
    BY <2>2, <2>3, <2>4
<1>9. ParametersOK' /\ ColumnsOK' /\ NamedColumns'
  <2>1. ParametersOK'
    BY <1>1 DEF QueryInv, ParametersOK
  <2>2. Query!Columns(query.sql, schema)' = Query!Columns(query.sql, schema)
    BY <1>1 DEF Query!Columns
  <2>3. Query!NamesFit(Query!Columns(query.sql, schema))'
          = Query!NamesFit(Query!Columns(query.sql, schema))
    BY <2>2 DEF Query!NamesFit, Query!NamesSize
  <2>4. ColumnsOK'
    BY <1>1, <2>2, <2>3 DEF QueryInv, ColumnsOK
  <2>5. NamedColumns'
    <3>1. Query!Columns(query.sql, schema) \in {schema, <<"?">>, <<>>}
      BY DEF Query!Columns
    <3>2. \A j \in DOMAIN <<"?">> : <<"?">>[j] = "?"
      OBVIOUS
    <3>3. /\ "?" \in DOMAIN NameBytes
          /\ \A j \in DOMAIN schema : schema[j] \in DOMAIN NameBytes
      BY <1>2, ScenarioFacts
    <3> QED
      BY <1>4, <3>1, <3>2, <3>3 DEF NamedColumns
  <2> QED
    BY <2>1, <2>4, <2>5
<1>10. Query!TypeOK' /\ FromScenario' /\ BeforeRows' /\ Answered'
  <2>1. (~Query!Readonly(query.sql)) \in BOOLEAN
    OBVIOUS
  <2> QED
    BY <1>1, <2>1
    DEF QueryInv, Query!TypeOK, FromScenario, BeforeRows, Answered
<1> QED
  BY <1>7, <1>8, <1>9, <1>10 DEF QueryInv

(* A statement that fails changed nothing, or keeps its rows. *)
LEMMA QueryStepFails ==
    ASSUME QueryAssumptions, QueryInv, Query!StepFails
    PROVE  QueryInv'
<1>1. applied' \in BOOLEAN /\ (applied' => Explained)
  BY DEF Query!StepFails, Explained, Query!KeepsRows
<1> QED
  BY <1>1, QueryEnds DEF Query!StepFails, Query!Returns

-----------------------------------------------------------------------------
(* The rows.                                                               *)

(* The next row goes to the end of a page. *)
LEMMA PageGrows ==
    ASSUME NEW n \in Nat
    PROVE  Len(Page(n)) = n /\ Append(Page(n), RowWires(n + 1)) = Page(n + 1)
<1> DEFINE S == {RowWires(i) : i \in 1..(n + 1)}
<1>1. Page(n) \in Seq(S) /\ Len(Page(n)) = n
  BY DEF Page
<1>2. Page(n + 1) \in Seq(S) /\ Len(Page(n + 1)) = n + 1
  BY DEF Page
<1>3. RowWires(n + 1) \in S
  OBVIOUS
<1>4. \A i \in 1..n : Page(n)[i] = Page(n + 1)[i]
  BY DEF Page
<1>5. Page(n + 1)[n + 1] = RowWires(n + 1)
  BY DEF Page
<1> HIDE DEF S
<1> QED
  BY <1>1, <1>2, <1>3, <1>4, <1>5

(* SQLite produces the next row. *)
LEMMA RestShrinks ==
    ASSUME Len(produced.rows) \in Nat, NEW t \in Nat, t <= Len(produced.rows)
    PROVE  /\ Rest(t) # <<>> <=> t < Len(produced.rows)
           /\ Rest(t) # <<>> =>
                 /\ Head(Rest(t)) = produced.rows[t + 1]
                 /\ Tail(Rest(t)) = Rest(t + 1)
<1> DEFINE m == Len(produced.rows)
           S == {produced.rows[i] : i \in 1..m}
<1>1. Rest(t) \in Seq(S) /\ Len(Rest(t)) = m - t
  BY DEF Rest
<1>2. \A k \in 1..(m - t) : Rest(t)[k] = produced.rows[t + k]
  BY DEF Rest
<1>3. CASE t < m
  <2>1. Rest(t + 1) \in Seq(S) /\ Len(Rest(t + 1)) = m - t - 1
    BY <1>3 DEF Rest
  <2>2. \A k \in 1..(m - t - 1) : Rest(t + 1)[k] = produced.rows[t + 1 + k]
    BY DEF Rest
  <2> HIDE DEF S
  <2>3. Rest(t) # <<>>
    BY <1>1, <1>3
  <2>4. Head(Rest(t)) = produced.rows[t + 1]
    BY <1>1, <1>2, <1>3
  <2>5. Tail(Rest(t)) = Rest(t + 1)
    <3>1. /\ Tail(Rest(t)) \in Seq(S) /\ Len(Tail(Rest(t))) = m - t - 1
          /\ \A k \in 1..(m - t - 1) : Tail(Rest(t))[k] = Rest(t)[k + 1]
      BY <1>1, <1>3, <2>3
    <3>2. \A k \in 1..(m - t - 1) : Tail(Rest(t))[k] = Rest(t + 1)[k]
      BY <1>2, <1>3, <2>2, <3>1
    <3> QED
      BY <2>1, <3>1, <3>2, SeqEqual
  <2> QED
    BY <1>3, <2>3, <2>4, <2>5
<1>4. CASE t = m
  BY <1>4 DEF Rest
<1> QED
  BY <1>3, <1>4

(* The wires of the row that is next. *)
LEMMA NextWires ==
    ASSUME NEW t \in Nat, NEW row, row = produced.rows[t + 1], count \in Nat
    PROVE  /\ DOMAIN Query!Decoded(row) = 1..count
           /\ \A j \in 1..count :
                 Query!Decoded(row)[j] = Native(Query!Column(produced.rows[t + 1], j))
           /\ [j \in DOMAIN Query!Decoded(row) |-> Query!value_wire(Query!Decoded(row)[j])]
                 = RowWires(t + 1)
BY DEF Query!Decoded, RowWires, Native

(* append_query_row_wire: the row is appended, or the delivery ends. *)
LEMMA AppendedFacts ==
    ASSUME IsContext(context), NEW wires
    PROVE  LET c == Query!Appended(wires)
               fits == /\ Len(context.rows) < query.max_rows
                       /\ context.size + Query!RowSize(wires) <= MaxWire
           IN  /\ IsContext(c) /\ c.total = context.total
               /\ context.failed \/ Len(names) # count =>
                     /\ c.rows = context.rows /\ c.size = context.size
                     /\ c.failed /\ ~c.deliver /\ c.truncated = context.truncated
               /\ ~context.failed /\ Len(names) = count /\ ~fits =>
                     /\ c.rows = context.rows /\ c.size = context.size
                     /\ c.truncated /\ ~c.deliver /\ c.failed = context.failed
               /\ ~context.failed /\ Len(names) = count /\ fits =>
                     /\ c.rows = Append(context.rows, wires)
                     /\ c.size = context.size + Query!RowSize(wires)
                     /\ c.deliver = context.deliver
                     /\ c.truncated = context.truncated /\ c.failed = context.failed
BY DEF IsContext, Query!Appended

(* ++rows: one row more, nothing else of the context. *)
LEMMA CountedFacts ==
    ASSUME NEW c, IsContext(c)
    PROVE  LET d == Query!Counted(c)
           IN  /\ IsContext(d) /\ d.total = c.total + 1
               /\ d.rows = c.rows /\ d.size = c.size /\ d.deliver = c.deliver
               /\ d.truncated = c.truncated /\ d.failed = c.failed
BY DEF IsContext, Query!Counted

(* A statement that changes something and has rows is an UPDATE with       *)
(* RETURNING; its rows have all the columns esdb_query counted, unless     *)
(* these changed.                                                          *)
LEMMA ReturnedColumns ==
    ASSUME QueryAssumptions, QueryInv, pc = "rows", applied, ~altered,
           NEW i \in DOMAIN produced.rows
    PROVE  /\ DOMAIN produced.rows[i] = 1..count
           /\ Len(names) = count \/ context.failed
           /\ \A j \in 1..count :
                 Query!Column(produced.rows[i], j) = produced.rows[i][j]
<1>1. /\ produced.rows = Query!Produces(query.sql, schema)
      /\ ~Query!Readonly(query.sql)
      /\ names = Query!Columns(query.sql, schema) \/ context.failed
      /\ count = Len(Query!Columns(query.sql, schema))
  <2>1. /\ produced = [columns |-> Query!Columns(query.sql, schema),
                       rows |-> Query!Produces(query.sql, schema)]
        /\ applied = ~Query!Readonly(query.sql)
    BY DEF QueryInv, DuringRows
  <2>2. ~Query!Readonly(query.sql)
    BY <2>1
  <2>3. produced.rows = Query!Produces(query.sql, schema)
    BY <2>1
  <2> QED
    BY <2>2, <2>3 DEF QueryInv, ColumnsOK
<1>2. query.sql = "returning"
  <2>1. SUFFICES ASSUME query.sql # "returning"
                 PROVE  FALSE
    OBVIOUS
  <2>2. query.sql \notin {"select", "echo", "returning"}
    BY <1>1, <2>1 DEF Query!Readonly
  <2>3. produced.rows = <<>>
    BY <1>1, <2>2 DEF Query!Produces
  <2> QED
    BY <2>3
<1>3. /\ produced.rows = [k \in DOMAIN rows |-> [j \in DOMAIN schema |-> rows[k][schema[j]]]]
      /\ Query!Columns(query.sql, schema) = schema
  BY <1>1, <1>2 DEF Query!Produces, Query!Columns
<1>4. DOMAIN schema = 1..Len(schema)
  BY ScenarioFacts DEF QueryInv
<1>5. DOMAIN produced.rows[i] = 1..count /\ (Len(names) = count \/ context.failed)
  BY <1>1, <1>3, <1>4
<1> QED
  BY <1>5 DEF Query!Column

(* Where the rows stand. *)
LEMMA RowsFacts ==
    ASSUME QueryAssumptions, QueryInv, pc = "rows"
    PROVE  /\ Len(produced.rows) \in Nat
           /\ DOMAIN produced.rows = 1..Len(produced.rows)
           /\ context.total \in Nat /\ context.total <= Len(produced.rows)
           /\ output = Rest(context.total) /\ IsContext(context)
           /\ count \in Nat /\ query.max_rows \in Nat /\ MaxWire \in Nat
<1>1. FromScenario /\ produced.rows = Query!Produces(query.sql, schema)
  BY DEF QueryInv, DuringRows
<1>2. PICK n \in Nat : \E f : produced.rows = [i \in 1..n |-> f[i]]
  BY <1>1, StatementFacts
<1>3. Len(produced.rows) \in Nat /\ DOMAIN produced.rows = 1..Len(produced.rows)
  BY <1>2
<1>4. query.max_rows \in Nat /\ MaxWire \in Nat
  BY <1>1, ScenarioFacts
<1> QED
  BY <1>3, <1>4 DEF QueryInv, DuringRows, Query!TypeOK

(* A row is counted, and delivered or not. *)
LEMMA QueryRow ==
    ASSUME QueryAssumptions, QueryInv, Query!Row
    PROVE  QueryInv'
<1>1. pc = "rows" /\ output # <<>>
  BY DEF Query!Row
<1>2. /\ Len(produced.rows) \in Nat /\ DOMAIN produced.rows = 1..Len(produced.rows)
      /\ context.total \in Nat /\ context.total <= Len(produced.rows)
      /\ output = Rest(context.total) /\ IsContext(context)
      /\ count \in Nat /\ query.max_rows \in Nat /\ MaxWire \in Nat
  BY <1>1, RowsFacts
<1> DEFINE t == context.total
           row == Head(output)
           decoded == Query!Decoded(row)
<1>3. /\ t < Len(produced.rows) /\ row = produced.rows[t + 1]
      /\ Tail(output) = Rest(t + 1) /\ t + 1 \in DOMAIN produced.rows
  BY <1>1, <1>2, RestShrinks
<1>4. /\ DOMAIN decoded = 1..count
      /\ \A j \in 1..count :
            decoded[j] = Native(Query!Column(produced.rows[t + 1], j))
      /\ [j \in DOMAIN decoded |-> Query!value_wire(decoded[j])] = RowWires(t + 1)
  BY <1>2, <1>3, NextWires
<1>5. CASE Query!Refuse("error") /\ \E j \in DOMAIN decoded : decoded[j] = Query!Fail
  <2>1. ASSUME applied, ~altered
        PROVE  Explained
    <3>1. PICK j \in 1..count : Native(Query!Column(produced.rows[t + 1], j)) = Query!Fail
      BY <1>4, <1>5
    <3>2. /\ DOMAIN produced.rows[t + 1] = 1..count
          /\ Query!Column(produced.rows[t + 1], j) = produced.rows[t + 1][j]
      BY <1>1, <1>3, <2>1, ReturnedColumns
    <3> QED
      BY <1>3, <3>1, <3>2 DEF Unreadable, Explained
  <2>2. applied' = applied /\ applied \in BOOLEAN
    BY <1>5 DEF Query!Refuse, QueryInv, Query!TypeOK
  <2>3. applied' => Explained
    BY <2>1, <2>2 DEF Explained
  <2> QED
    BY <1>1, <1>5, <2>2, <2>3, QueryEnds DEF Query!Refuse, Query!Returns
<1>6. CASE ~(Query!Refuse("error") /\ \E j \in DOMAIN decoded : decoded[j] = Query!Fail)
  <2> DEFINE c == IF context.deliver THEN Query!Appended(RowWires(t + 1)) ELSE context
  <2>1. /\ context.deliver => \A j \in DOMAIN decoded : decoded[j] # Query!Fail
        /\ output' = Tail(output)
        /\ context' = Query!Counted(IF context.deliver
              THEN Query!Appended([j \in DOMAIN decoded |-> Query!value_wire(decoded[j])])
              ELSE context)
        /\ UNCHANGED <<query, schema, rows, pc, values, bound, names, count, result,
                       produced, applied, altered>>
    BY <1>6 DEF Query!Row
  <2>2. context' = Query!Counted(c)
    BY <1>4, <2>1
  <2>3. context.deliver => \A j \in 1..count :
            Native(Query!Column(produced.rows[t + 1], j)) # Query!Fail
    BY <1>4, <2>1
  <2> HIDE DEF decoded, row
  <2>4. PICK n \in Nat : PageOK(n)
    BY <1>1 DEF QueryInv, DuringRows
  <2>5. /\ Len(Page(n)) = n /\ Append(Page(n), RowWires(n + 1)) = Page(n + 1)
        /\ context.rows = Page(n) /\ n <= query.max_rows
    BY <2>4, PageGrows DEF PageOK
  <2>6. \A k \in Nat : Page(k)' = Page(k)
    BY <2>1 DEF Page, RowWires, Native
  <2>7. /\ IsContext(c) /\ c.total = t
        /\ c.size <= MaxWire
        /\ \E k \in Nat :
              /\ c.rows = Page(k) /\ k <= query.max_rows /\ k <= t + 1
              /\ c.deliver => k = t + 1 /\ ~c.truncated
              /\ ~c.deliver => k < t + 1 /\ (c.truncated \/ c.failed)
              /\ c.truncated => k < t + 1
              /\ c.failed => altered \/ ~Query!NamesFit(produced.columns)
              /\ \A i \in 1..k : \A j \in 1..count :
                    Native(Query!Column(produced.rows[i], j)) # Query!Fail
    <3>1. context.size <= MaxWire
      BY <1>1 DEF QueryInv, DuringRows
    <3>2. CASE ~context.deliver
      <4>1. c = context
        BY <3>2
      <4> HIDE DEF c
      <4>2. n <= t + 1 /\ n < t + 1
        BY <1>2, <2>4 DEF PageOK
      <4> QED
        BY <1>2, <2>4, <3>1, <3>2, <4>1, <4>2 DEF PageOK
    <3>3. CASE context.deliver
      <4>1. c = Query!Appended(RowWires(t + 1))
        BY <3>3
      <4> HIDE DEF c
      <4> DEFINE fits == /\ Len(context.rows) < query.max_rows
                         /\ context.size + Query!RowSize(RowWires(t + 1)) <= MaxWire
      <4>2. /\ IsContext(c) /\ c.total = t
            /\ context.failed \/ Len(names) # count =>
                  /\ c.rows = context.rows /\ c.size = context.size
                  /\ c.failed /\ ~c.deliver /\ c.truncated = context.truncated
            /\ ~context.failed /\ Len(names) = count /\ ~fits =>
                  /\ c.rows = context.rows /\ c.size = context.size
                  /\ c.truncated /\ ~c.deliver /\ c.failed = context.failed
            /\ ~context.failed /\ Len(names) = count /\ fits =>
                  /\ c.rows = Append(context.rows, RowWires(t + 1))
                  /\ c.size = context.size + Query!RowSize(RowWires(t + 1))
                  /\ c.deliver = context.deliver
                  /\ c.truncated = context.truncated /\ c.failed = context.failed
        BY <1>2, <4>1, AppendedFacts
      <4>3. n = t /\ ~context.truncated
        BY <2>4, <3>3 DEF PageOK
      <4>4. \A i \in 1..n : \A j \in 1..count :
                Native(Query!Column(produced.rows[i], j)) # Query!Fail
        BY <2>4 DEF PageOK
      <4>5. n < t + 1 /\ n <= t + 1
        BY <4>3
      <4>6. CASE context.failed \/ Len(names) # count
        <5>1. altered \/ ~Query!NamesFit(produced.columns)
          <6>1. context.failed => altered \/ ~Query!NamesFit(produced.columns)
            BY <2>4 DEF PageOK
          <6>2. ~context.failed => altered
            BY <1>1, <4>6 DEF QueryInv, ColumnsOK
          <6> QED
            BY <6>1, <6>2
        <5> QED
          BY <2>5, <3>1, <4>2, <4>3, <4>4, <4>5, <4>6, <5>1
      <4>7. CASE ~context.failed /\ Len(names) = count /\ ~fits
        BY <2>5, <3>1, <4>2, <4>3, <4>4, <4>5, <4>7
      <4>8. CASE ~context.failed /\ Len(names) = count /\ fits
        <5>1. c.rows = Page(n + 1) /\ c.size <= MaxWire
          BY <2>5, <4>2, <4>3, <4>8
        <5>2. n + 1 <= query.max_rows /\ n + 1 = t + 1 /\ n + 1 \in Nat
          BY <1>2, <2>5, <4>3, <4>8
        <5>3. \A i \in 1..(n + 1) : \A j \in 1..count :
                  Native(Query!Column(produced.rows[i], j)) # Query!Fail
          BY <2>3, <3>3, <4>3, <4>4
        <5>4. c.deliver /\ ~c.truncated /\ ~c.failed
          BY <3>3, <4>2, <4>3, <4>8
        <5> QED
          BY <4>2, <5>1, <5>2, <5>3, <5>4
      <4> QED
        BY <4>6, <4>7, <4>8
    <3> QED
      BY <3>2, <3>3
  <2> HIDE DEF c
  <2>8. /\ IsContext(context') /\ context'.total = t + 1
        /\ context'.rows = c.rows /\ context'.size = c.size
        /\ context'.deliver = c.deliver /\ context'.truncated = c.truncated
        /\ context'.failed = c.failed
    BY <2>2, <2>7, CountedFacts
  <2>9. PICK k \in Nat :
              /\ c.rows = Page(k) /\ k <= query.max_rows /\ k <= t + 1
              /\ c.deliver => k = t + 1 /\ ~c.truncated
              /\ ~c.deliver => k < t + 1 /\ (c.truncated \/ c.failed)
              /\ c.truncated => k < t + 1
              /\ c.failed => altered \/ ~Query!NamesFit(produced.columns)
              /\ \A i \in 1..k : \A j \in 1..count :
                    Native(Query!Column(produced.rows[i], j)) # Query!Fail
    BY <2>7
  <2>10. PageOK(k)'
    <3>1. Query!NamesFit(produced.columns)' = Query!NamesFit(produced.columns)
      BY <2>1 DEF Query!NamesFit, Query!NamesSize
    <3> QED
      BY <2>1, <2>6, <2>8, <2>9, <3>1 DEF PageOK, Native, Query!Column
  <2>11. DuringRows'
    <3>1. output' = Rest(context.total)'
      BY <1>3, <2>1, <2>8 DEF Rest
    <3>2. IsContext(context)' /\ context'.size <= MaxWire
      BY <2>7, <2>8 DEF IsContext
    <3>3. context'.total <= Len(produced'.rows)
      BY <1>2, <1>3, <2>1, <2>8
    <3>4. /\ result' = Query!Nothing
          /\ produced' = [columns |-> Query!Columns(query.sql, schema),
                          rows |-> Query!Produces(query.sql, schema)]'
          /\ applied' = ~Query!Readonly(query.sql)'
      BY <1>1, <2>1
      DEF QueryInv, DuringRows, Query!Columns, Query!Produces, Query!Readonly
    <3> QED
      BY <2>10, <3>1, <3>2, <3>3, <3>4 DEF DuringRows
  <2>12. Query!TypeOK'
    <3>1. Len(context'.rows) = k
      BY <2>8, <2>9, PageGrows
    <3>2. context'.total \in Nat
      BY <1>2, <2>8
    <3> QED
      BY <2>1, <2>7, <2>8, <2>9, <3>1, <3>2 DEF QueryInv, Query!TypeOK
  <2>13. FromScenario' /\ BeforeRows' /\ Answered'
    BY <1>1, <2>1 DEF QueryInv, FromScenario, BeforeRows, Answered
  <2>14. ParametersOK' /\ ColumnsOK'
    <3>1. ParametersOK'
      BY <1>1, <2>1 DEF QueryInv, ParametersOK
    <3>2. Query!Columns(query.sql, schema)' = Query!Columns(query.sql, schema)
      BY <2>1 DEF Query!Columns
    <3>3. Query!NamesFit(Query!Columns(query.sql, schema))'
            = Query!NamesFit(Query!Columns(query.sql, schema))
      BY <3>2 DEF Query!NamesFit, Query!NamesSize
    <3>4. context.failed => context'.failed
      <4>1. context.failed => c.failed
        BY <1>2, AppendedFacts DEF c
      <4> QED
        BY <2>8, <4>1
    <3>5. ColumnsOK'
      BY <1>1, <2>1, <3>2, <3>3, <3>4 DEF QueryInv, ColumnsOK
    <3> QED
      BY <3>1, <3>5
  <2>15. CellsOK' /\ NamedColumns'
    BY <2>1 DEF QueryInv, CellsOK, NamedColumns
  <2> QED
    BY <2>11, <2>12, <2>13, <2>14, <2>15 DEF QueryInv
<1> QED
  BY <1>5, <1>6

(* SQLITE_DONE: all rows are counted, and the script reads the reply. *)
LEMMA QueryDone ==
    ASSUME QueryAssumptions, QueryInv, Query!Done
    PROVE  QueryInv'
<1>1. /\ pc = "rows" /\ output = <<>> /\ pc' = "done"
      /\ result' = IF context.failed THEN [Query!Nothing EXCEPT !.status = "error"]
                   ELSE Query!parseQueryResultWire(Query!Reply)
      /\ UNCHANGED <<query, schema, rows, values, bound, names, count, output,
                     context, produced, applied, altered>>
  BY DEF Query!Done, Query!Returns
<1>2. /\ Len(produced.rows) \in Nat /\ DOMAIN produced.rows = 1..Len(produced.rows)
      /\ context.total \in Nat /\ IsContext(context)
      /\ count \in Nat /\ query.max_rows \in Nat
  BY <1>1, RowsFacts
<1>3. context.total = Len(produced.rows)
  BY <1>1, <1>2, RowsFacts, RestShrinks
<1>4. PICK n \in Nat : PageOK(n)
  BY <1>1 DEF QueryInv, DuringRows
<1>5. /\ context.rows = Page(n) /\ n <= Len(produced.rows) /\ Len(Page(n)) = n
      /\ DOMAIN Page(n) = 1..n
      /\ \A i \in 1..n : DOMAIN Page(n)[i] = 1..count
      /\ \A i \in 1..n : \A j \in 1..count :
            /\ Native(Query!Column(produced.rows[i], j)) # Query!Fail
            /\ Page(n)[i][j] = Query!value_wire(Native(Query!Column(produced.rows[i], j)))
  <2>1. /\ context.rows = Page(n) /\ n <= Len(produced.rows)
        /\ \A i \in 1..n : \A j \in 1..count :
              Native(Query!Column(produced.rows[i], j)) # Query!Fail
    BY <1>3, <1>4 DEF PageOK
  <2>2. Len(Page(n)) = n
    BY PageGrows
  <2>3. /\ DOMAIN Page(n) = 1..n
        /\ \A i \in 1..n : Page(n)[i] = RowWires(i)
    BY DEF Page
  <2>4. \A i \in 1..n : \A j \in 1..count :
            RowWires(i)[j] = Query!value_wire(Native(Query!Column(produced.rows[i], j)))
    BY DEF RowWires
  <2>5. \A i \in 1..n : DOMAIN RowWires(i) = 1..count
    BY DEF RowWires
  <2> QED
    BY <2>1, <2>2, <2>3, <2>4, <2>5
<1> DEFINE decoded == [i \in 1..n |->
                          [j \in 1..count |-> Read(Query!Column(produced.rows[i], j))]]
           named == [i \in DOMAIN names |-> Query!ColumnName(names[i])]
           bad == \/ \E i \in DOMAIN names : named[i] = Query!Fail
                  \/ \E i \in 1..n : \/ Len(decoded[i]) # Len(names)
                                     \/ \E j \in 1..count : decoded[i][j] = Query!Fail
<1>6. applied \in BOOLEAN
  BY DEF QueryInv, Query!TypeOK
<1>7. CASE context.failed
  <2>1. Explained
    BY <1>4, <1>7 DEF PageOK, Explained
  <2>2. result' = [Query!Nothing EXCEPT !.status = "error"]
    BY <1>1, <1>7
  <2> QED
    BY <1>1, <1>6, <2>1, <2>2, QueryEnds
<1>8. CASE ~context.failed
  <2>1. Query!Reply.rows = Page(n) /\ Query!Reply.names = names
    BY <1>5 DEF Query!Reply
  <2>2. [i \in DOMAIN Query!Reply.rows |->
            [j \in DOMAIN Query!Reply.rows[i] |->
                Query!decodeStoreValue(Query!Reply.rows[i][j])]] = decoded
    BY <1>5, <2>1 DEF Read
  <2>3. Query!parseQueryResultWire(Query!Reply) =
            IF bad THEN [Query!Nothing EXCEPT !.status = "thrown"]
            ELSE [Query!Reply EXCEPT !.names = named, !.rows = decoded]
    <3> DEFINE d == [i \in DOMAIN Query!Reply.rows |->
                        [j \in DOMAIN Query!Reply.rows[i] |->
                            Query!decodeStoreValue(Query!Reply.rows[i][j])]]
               m == [i \in DOMAIN Query!Reply.names |->
                        Query!ColumnName(Query!Reply.names[i])]
               wrong == \/ \E i \in DOMAIN m : m[i] = Query!Fail
                        \/ \E i \in DOMAIN d :
                              \/ Len(d[i]) # Len(Query!Reply.names)
                              \/ \E j \in DOMAIN d[i] : d[i][j] = Query!Fail
    <3>1. Query!parseQueryResultWire(Query!Reply) =
              IF wrong THEN [Query!Nothing EXCEPT !.status = "thrown"]
              ELSE [Query!Reply EXCEPT !.names = m, !.rows = d]
      BY Zenon DEF Query!parseQueryResultWire
    <3>2. d = decoded /\ m = named /\ DOMAIN named = DOMAIN names
      BY <2>1, <2>2
    <3>3. DOMAIN decoded = 1..n /\ \A i \in 1..n : DOMAIN decoded[i] = 1..count
      OBVIOUS
    <3> HIDE DEF d, decoded, m, named
    <3>4. wrong = bad
      BY <2>1, <3>2, <3>3
    <3> HIDE DEF wrong, bad
    <3> QED
      BY <3>1, <3>2, <3>4
  <2>4. CASE bad
    <3>1. ASSUME applied, ~altered, \A i \in DOMAIN names : named[i] # Query!Fail
          PROVE  Explained
      <4>1. PICK i \in 1..n : \/ Len(decoded[i]) # Len(names)
                              \/ \E j \in 1..count : decoded[i][j] = Query!Fail
        BY <2>4, <3>1
      <4>2. i \in DOMAIN produced.rows
        BY <1>2, <1>5
      <4>3. /\ DOMAIN produced.rows[i] = 1..count /\ Len(names) = count
            /\ \A j \in 1..count :
                  Query!Column(produced.rows[i], j) = produced.rows[i][j]
        BY <1>1, <1>8, <3>1, <4>2, ReturnedColumns
      <4>4. Len(decoded[i]) = count
        BY <1>2
      <4>5. PICK j \in 1..count : decoded[i][j] = Query!Fail
        BY <4>1, <4>3, <4>4
      <4>6. Read(produced.rows[i][j]) = Query!Fail
        BY <4>3, <4>5
      <4> QED
        BY <4>2, <4>3, <4>6 DEF Unreadable, Explained
    <3>2. ASSUME ~altered, NEW i \in DOMAIN names, named[i] = Query!Fail
          PROVE  Explained
      <4>1. names = produced.columns
        BY <1>1, <1>8, <3>2 DEF QueryInv, ColumnsOK, DuringRows
      <4> QED
        BY <3>2, <4>1 DEF Explained
    <3>3. applied => Explained
      BY <3>1, <3>2 DEF Explained
    <3>4. result' = [Query!Nothing EXCEPT !.status = "thrown"]
      BY <1>1, <1>8, <2>3, <2>4
    <3> HIDE DEF bad, decoded, named
    <3> QED
      BY <1>1, <1>6, <3>3, <3>4, QueryEnds
  <2>5. CASE ~bad
    <3>1. result' = [Query!Reply EXCEPT !.names = named, !.rows = decoded]
      BY <1>1, <1>8, <2>3, <2>5
    <3>2. /\ \A i \in 1..n : \A j \in 1..count : decoded[i][j] # Query!Fail
          /\ \A i \in DOMAIN names : Query!ColumnName(names[i]) # Query!Fail
      BY <2>5
    <3>3. /\ DOMAIN decoded = 1..n /\ Len(decoded) = n
          /\ \A i \in 1..n : DOMAIN decoded[i] = 1..count
          /\ \A i \in 1..n : \A j \in 1..count :
                decoded[i][j] = Read(Query!Column(produced.rows[i], j))
      OBVIOUS
    <3> HIDE DEF decoded, named, bad
    <3>4. /\ result'.status = "ok" /\ result'.names = named /\ result'.rows = decoded
          /\ result'.total = context.total /\ result'.changes = Query!ChangeCount
          /\ result'.truncated = (context.truncated \/ context.total > n)
      <4> DEFINE reply == Query!Reply
      <4>1. /\ reply = [status |-> "ok", names |-> names, rows |-> context.rows,
                        total |-> context.total, changes |-> Query!ChangeCount,
                        truncated |-> context.truncated \/ context.total > n]
        BY <1>5 DEF Query!Reply
      <4>2. reply \in [status: {"ok"}, names: {names}, rows: {context.rows},
                       total: {context.total}, changes: {Query!ChangeCount},
                       truncated: {context.truncated \/ context.total > n}]
        BY <4>1
      <4> HIDE DEF reply
      <4>3. LET r == [reply EXCEPT !.names = named, !.rows = decoded]
            IN  /\ r.status = "ok" /\ r.names = named /\ r.rows = decoded
                /\ r.total = context.total /\ r.changes = Query!ChangeCount
                /\ r.truncated = (context.truncated \/ context.total > n)
        BY <4>2
      <4> QED
        BY <3>1, <4>3 DEF reply
    <3>5. Query!TruncationReported'
      <4>1. context.truncated => n < context.total
        BY <1>4 DEF PageOK
      <4>2. result'.truncated <=> n < Len(produced'.rows)
        BY <1>1, <1>2, <1>3, <3>4, <4>1
      <4>3. result'.total = Len(produced'.rows) /\ Len(result'.rows) = n
        BY <1>1, <1>3, <3>3, <3>4
      <4> QED
        BY <4>2, <4>3 DEF Query!TruncationReported
    <3>6. NamesRead'
      <4>1. produced.columns = Query!Columns(query.sql, schema)
        BY <1>1 DEF QueryInv, DuringRows
      <4>2. altered \/ names = Query!Columns(query.sql, schema)
        BY <1>1, <1>8 DEF QueryInv, ColumnsOK
      <4>3. /\ DOMAIN named = DOMAIN names
            /\ \A i \in DOMAIN names : named[i] = Query!ColumnName(names[i])
        BY DEF named
      <4> QED
        BY <1>1, <3>2, <3>4, <4>1, <4>2, <4>3 DEF NamesRead, Query!ColumnName
    <3>7. Query!ChangesAreOwn'
      <4>1. query.sql = "ddl" \/ Query!ChangeCount = Query!Changes(query.sql)
        BY DEF Query!ChangeCount, Query!Changes, Query!Readonly
      <4>2. Query!Changes(query.sql)' = Query!Changes(query.sql)
        BY <1>1 DEF Query!Changes
      <4> QED
        BY <1>1, <3>4, <4>1, <4>2 DEF Query!ChangesAreOwn
    <3>8. RowsRead'
      <4>1. ASSUME NEW i \in DOMAIN result'.rows, NEW j \in DOMAIN result'.rows[i]
            PROVE  LET x == Query!Column(produced'.rows[i], j)
                   IN  /\ i \in DOMAIN produced'.rows
                       /\ Native(x) # Query!Fail
                       /\ Read(x) # Query!Fail /\ result'.rows[i][j] = Read(x)
        <5>1. i \in 1..n /\ j \in 1..count
          BY <3>3, <3>4, <4>1
        <5> QED
          BY <1>1, <1>2, <1>5, <3>2, <3>3, <3>4, <5>1
      <4> QED
        BY <4>1 DEF RowsRead, Native, Read, Query!Column
    <3>9. Answered'
      BY <3>4, <3>5, <3>6, <3>7, <3>8 DEF Answered, FailureExplained
    <3>10. FromScenario' /\ BeforeRows' /\ DuringRows'
      BY <1>1 DEF QueryInv, FromScenario, BeforeRows, DuringRows
    <3>11. Query!TypeOK'
      BY <1>1, <3>4 DEF QueryInv, Query!TypeOK
    <3>12. ParametersOK' /\ ColumnsOK' /\ CellsOK' /\ NamedColumns'
      BY <1>1 DEF QueryInv, ParametersOK, ColumnsOK, CellsOK, NamedColumns
    <3> QED
      BY <3>9, <3>10, <3>11, <3>12 DEF QueryInv
  <2> QED
    BY <2>4, <2>5
<1> QED
  BY <1>7, <1>8

(* Every step keeps QueryInv. *)
LEMMA QueryStep ==
    ASSUME QueryAssumptions, QueryInv, [Query!Next]_(Query!vars)
    PROVE  QueryInv'
<1>1. CASE Query!Next
  BY <1>1, QueryQuerySql, QueryMetadata, QueryPrepare, QueryFirstStep,
     QueryStepFails, QueryRow, QueryDone, QueryAlter
  DEF Query!Next
<1>2. CASE UNCHANGED Query!vars
  <2>1. UNCHANGED <<query, schema, rows, pc, values, bound, names, count, output,
                    context, result, produced, applied, altered>>
    BY <1>2 DEF Query!vars
  <2>2. /\ Query!TypeOK' /\ FromScenario' /\ BeforeRows' /\ ParametersOK' /\ CellsOK'
        /\ NamedColumns'
    BY <2>1
    DEF QueryInv, Query!TypeOK, FromScenario, BeforeRows, IsContext, ParametersOK,
        CellsOK, NamedColumns
  <2>3. ColumnsOK'
    <3>1. Query!Columns(query.sql, schema)' = Query!Columns(query.sql, schema)
      BY <2>1 DEF Query!Columns
    <3>2. Query!NamesFit(Query!Columns(query.sql, schema))'
            = Query!NamesFit(Query!Columns(query.sql, schema))
      BY <3>1 DEF Query!NamesFit, Query!NamesSize
    <3> QED
      BY <2>1, <3>1, <3>2 DEF QueryInv, ColumnsOK
  <2>4. DuringRows'
    <3>1. SUFFICES ASSUME pc = "rows"
                   PROVE  DuringRows'
      BY <2>1 DEF DuringRows
    <3>2. PICK n \in Nat : PageOK(n)
      BY <3>1 DEF QueryInv, DuringRows
    <3>3. PageOK(n)'
      BY <2>1, <3>2
      DEF PageOK, Page, RowWires, Native, Query!Column, Query!NamesFit, Query!NamesSize
    <3>4. Rest(context.total)' = Rest(context.total)
      BY <2>1 DEF Rest
    <3>5. IsContext(context)' /\ context'.size <= MaxWire
      BY <2>1, <3>1 DEF QueryInv, DuringRows, IsContext
    <3> QED
      BY <2>1, <3>1, <3>3, <3>4, <3>5
      DEF QueryInv, DuringRows, Query!Columns, Query!Produces, Query!Readonly
  <2>5. Answered'
    BY <2>1
    DEF QueryInv, Answered, Query!TruncationReported, NamesRead, Query!ColumnName,
        Query!ChangesAreOwn, Query!Changes, RowsRead, FailureExplained, Explained,
        Query!NamesFit, Query!NamesSize, Unreadable, Read, Native, Query!Column
  <2> QED
    BY <2>2, <2>3, <2>4, <2>5 DEF QueryInv
<1> QED
  BY <1>1, <1>2

(* QueryInv is an invariant. *)
LEMMA QueryInvariant == QueryAssumptions /\ Query!Spec => []QueryInv
<1>1. QueryAssumptions /\ Query!Init => QueryInv
  BY QueryStarts
<1>2. QueryAssumptions /\ QueryInv /\ [Query!Next]_(Query!vars) => QueryInv'
  BY QueryStep
<1>3. QueryAssumptions => QueryAssumptions'
  BY DEF QueryAssumptions, Query!LimitAssumption, Query!ScenarioAssumption
<1> QED
  BY <1>1, <1>2, <1>3, PTL DEF Query!Spec

(* The state of a typed call has its type: the reply never has more rows   *)
(* than max_rows nor more bytes than k_query_result_wire_max_bytes         *)
(* (append_query_row_wire), and a call has an answer when it is done and   *)
(* not before.                                                             *)
THEOREM CallTypes == QueryAssumptions /\ Query!Spec => []Query!TypeOK
<1>1. QueryInv => Query!TypeOK
  BY DEF QueryInv
<1> QED
  BY <1>1, QueryInvariant, PTL

(* What a reply of querySql says of itself, whatever its values are: the   *)
(* number of rows there were, whether some are missing, the names of their *)
(* columns, how many rows were changed.  And a call that fails after its   *)
(* statement changed something fails for one of the reasons of Explained:  *)
(* the columns changed meanwhile, their names exceed the limit of a reply  *)
(* or could not be read, a value could not be read, or the statement keeps *)
(* the rows before the one that failed (OR FAIL).                          *)
ReplyAddsUp ==
    /\ Query!TruncationReported /\ NamesRead /\ Query!ChangesAreOwn
    /\ FailureExplained

(* Every reply adds up, whichever limit cuts its rows and whoever changes  *)
(* the columns meanwhile (esdb_query, querySql, set_query_column_names).   *)
THEOREM RepliesAddUp == QueryAssumptions /\ Query!Spec => []ReplyAddsUp
<1>1. ASSUME QueryInv
      PROVE  ReplyAddsUp
  <2>1. CASE pc = "done"
    BY <1>1, <2>1 DEF QueryInv, Answered, ReplyAddsUp
  <2>2. CASE pc # "done"
    <3>1. result.status = "none"
      BY <1>1, <2>2 DEF QueryInv, Query!TypeOK
    <3> QED
      BY <3>1
      DEF ReplyAddsUp, Query!TruncationReported, NamesRead,
          Query!ChangesAreOwn, FailureExplained
  <2> QED
    BY <2>1, <2>2
<1>2. QueryInv => ReplyAddsUp
  BY <1>1
<1> QED
  BY <1>2, QueryInvariant, PTL

-----------------------------------------------------------------------------
(* From single values to calls.  What a conversion does to one value is    *)
(* computed by recursion and stays with TLC (QueryRoundTrip, a part of     *)
(* CodecsAgree); that a call then delivers exactly its values is proved.   *)

(* Every name, every parameter and every value of the table survives by    *)
(* itself.                                                                 *)
EachExact ==
    /\ \A column \in DOMAIN NameBytes : Query!NamedExactly(column)
    /\ \A i \in DOMAIN query.params : Query!BoundExactly(query.params[i])
    /\ \A i \in DOMAIN rows : \A c \in DOMAIN rows[i] : Query!ReadExactly(rows[i][c])

(* A NULL, which is also what a column that is not there reads as. *)
LEMMA NullRead == Query!ReadExactly(Query!Value("null", <<>>))
<1> DEFINE x == Query!Value("null", <<>>)
<1>1. x.type = "null"
  BY DEF Query!Value
<1>2. Native(x) = Query!Value("NULL", <<>>)
  BY <1>1 DEF Native, Query!esdb_query_column_value
<1>3. Query!Value("NULL", <<>>).type = "NULL"
  BY DEF Query!Value
<1>4. Query!value_wire(Query!Value("NULL", <<>>)) = Query!Value("NULL", <<>>)
  <2>1. PICK y : y = Query!Value("NULL", <<>>)
    OBVIOUS
  <2>2. y.type = "NULL" /\ y.type \notin Query!DataTypes
    BY <1>3, <2>1 DEF Query!DataTypes
  <2>3. Query!value_wire(y) = Query!Value("NULL", <<>>)
    BY <2>2 DEF Query!value_wire
  <2> QED
    BY <2>1, <2>3
<1>5. Query!decodeStoreValue(Query!Value("NULL", <<>>)) = x
  BY <1>3 DEF Query!decodeStoreValue
<1>6. Query!Source(x) = x
  <2> HIDE DEF x
  <2>1. Query!Source(x) = Query!Meaning(x)
    BY <1>1 DEF Query!Source
  <2>2. Query!Meaning(x) = x
    BY <1>1 DEF Query!Meaning
  <2> QED
    BY <2>1, <2>2
<1>7. x # Query!Fail /\ Query!Value("NULL", <<>>) # Query!Fail
  BY <1>1, <1>3 DEF Query!Fail
<1> HIDE DEF x
<1> QED
  BY <1>2, <1>4, <1>5, <1>6, <1>7 DEF Query!ReadExactly, Native, x

(* Every value a statement produced can be read exactly. *)
LEMMA CellsExact ==
    ASSUME QueryInv, EachExact, NEW i \in DOMAIN produced.rows,
           NEW j \in DOMAIN produced.rows[i]
    PROVE  Query!ReadExactly(produced.rows[i][j])
<1>1. CASE \E k \in DOMAIN rows : \E c \in DOMAIN rows[k] :
               produced.rows[i][j] = rows[k][c]
  BY <1>1 DEF EachExact
<1>2. CASE \E k \in DOMAIN bound : produced.rows[i][j] = bound[k]
  <2>1. PICK k \in DOMAIN bound : produced.rows[i][j] = bound[k]
    BY <1>2
  <2>2. /\ k \in DOMAIN query.params
        /\ Query!Parsed(Query!Encoded(query.params[k])) # Query!Fail
        /\ bound[k] = Bind(query.params[k]) /\ bound[k] # Query!Fail
    BY DEF QueryInv, ParametersOK
  <2>3. Query!BoundExactly(query.params[k])
    BY <2>2 DEF EachExact
  <2>4. Query!ReadExactly(bound[k])
    BY <2>2, <2>3 DEF Query!BoundExactly, Bind
  <2> QED
    BY <2>1, <2>4
<1> QED
  BY <1>1, <1>2 DEF QueryInv, CellsOK

(* Single values exact, all values exact. *)
LEMMA ExactCalls ==
    ASSUME QueryInv, EachExact
    PROVE  Query!ValuesExact
<1>1. Query!ParametersExact
  <2>1. SUFFICES ASSUME NEW i \in DOMAIN bound
                 PROVE  bound[i] = Query!Meaning(Query!Given(query.params[i]))
    BY DEF Query!ParametersExact
  <2>2. /\ i \in DOMAIN query.params
        /\ Query!Parsed(Query!Encoded(query.params[i])) # Query!Fail
        /\ bound[i] = Bind(query.params[i]) /\ bound[i] # Query!Fail
    BY DEF QueryInv, ParametersOK
  <2>3. Query!BoundExactly(query.params[i])
    BY <2>2 DEF EachExact
  <2> QED
    BY <2>2, <2>3 DEF Query!BoundExactly, Bind
<1>2. Query!RowsExact
  <2>1. SUFFICES ASSUME result.status = "ok", NEW i \in DOMAIN result.rows,
                        NEW j \in DOMAIN result.rows[i]
                 PROVE  Query!Source(result.rows[i][j]) = Query!Column(produced.rows[i], j)
    BY DEF Query!RowsExact
  <2> DEFINE x == Query!Column(produced.rows[i], j)
  <2>2. pc = "done"
    BY <2>1 DEF QueryInv, Query!TypeOK
  <2>3. i \in DOMAIN produced.rows /\ Native(x) # Query!Fail /\ result.rows[i][j] = Read(x)
    BY <2>1, <2>2 DEF QueryInv, Answered, RowsRead
  <2>4. Query!ReadExactly(x)
    <3>1. CASE j \in DOMAIN produced.rows[i]
      <4>1. x = produced.rows[i][j]
        BY <3>1 DEF Query!Column
      <4> QED
        BY <2>3, <3>1, <4>1, CellsExact
    <3>2. CASE j \notin DOMAIN produced.rows[i]
      BY <3>2, NullRead DEF Query!Column
    <3> QED
      BY <3>1, <3>2
  <2> HIDE DEF x
  <2>5. Query!Source(Read(x)) = x
    BY <2>3, <2>4 DEF Query!ReadExactly, Read, Native
  <2> QED
    BY <2>3, <2>5 DEF x
<1> QED
  BY <1>1, <1>2 DEF Query!ValuesExact

(* Single values exact, no outcome misreported. *)
LEMMA TruthfulCalls ==
    ASSUME QueryInv, EachExact, ReplyAddsUp
    PROVE  Query!OutcomeTruthful
<1>1. Query!FailureChangesNothing
  <2>1. SUFFICES ASSUME result.status \in {"error", "thrown"}, applied, Explained
                 PROVE  Query!FailureChangesNothing
    BY DEF ReplyAddsUp, FailureExplained, Query!FailureChangesNothing
  <2>2. ASSUME NEW i \in DOMAIN produced.columns,
               Query!ColumnName(produced.columns[i]) = Query!Fail
        PROVE  ~Query!WellFormed(NameBytes[produced.columns[i]])
    <3>1. Query!NamedExactly(produced.columns[i])
      BY DEF QueryInv, NamedColumns, EachExact
    <3> QED
      BY <2>2, <3>1 DEF Query!NamedExactly
  <2>3. ASSUME NEW i \in DOMAIN produced.rows, NEW j \in DOMAIN produced.rows[i],
               Unreadable(produced.rows[i][j])
        PROVE  Query!IllFormed(produced.rows[i])
    <3>1. Query!ReadExactly(produced.rows[i][j])
      BY CellsExact
    <3>2. /\ produced.rows[i][j].type = "text"
          /\ ~Query!WellFormed(produced.rows[i][j].v)
      BY <2>3, <3>1 DEF Query!ReadExactly, Unreadable, Read, Native
    <3> QED
      BY <3>2 DEF Query!IllFormed
  <2> QED
    BY <2>1, <2>2, <2>3 DEF Explained, Query!FailureChangesNothing
<1>2. Query!NamesOfTheRows
  <2>1. SUFFICES ASSUME result.status = "ok", ~altered
                 PROVE  Query!NamesOfTheRows
    BY DEF Query!NamesOfTheRows
  <2>2. ASSUME NEW i \in DOMAIN result.names
        PROVE  Query!utf8Bytes(result.names[i].v)
                   = Query!Value("bytes", NameBytes[produced.columns[i]])
    <3>1. /\ i \in DOMAIN produced.columns
          /\ result.names[i] = Query!ColumnName(produced.columns[i])
          /\ result.names[i] # Query!Fail
      BY <2>1 DEF ReplyAddsUp, NamesRead
    <3>2. Query!NamedExactly(produced.columns[i])
      BY <3>1 DEF QueryInv, NamedColumns, EachExact
    <3> QED
      BY <3>1, <3>2 DEF Query!NamedExactly
  <2>3. DOMAIN result.names = DOMAIN produced.columns
    BY <2>1 DEF ReplyAddsUp, NamesRead
  <2> QED
    BY <2>2, <2>3 DEF Query!NamesOfTheRows
<1> QED
  BY <1>1, <1>2 DEF Query!OutcomeTruthful, ReplyAddsUp

(* The parameters and the table stay as they were. *)
LEMMA ExactStays == EachExact /\ [Query!Next]_(Query!vars) => EachExact'
<1>1. [Query!Next]_(Query!vars) => UNCHANGED <<query, rows>>
  BY DEF Query!Next, Query!QuerySql, Query!Metadata, Query!Prepare, Query!FirstStep,
         Query!StepFails, Query!Row, Query!Done, Query!Alter, Query!Refuse, Query!vars
<1> QED
  BY <1>1 DEF EachExact

(* Single values stay exact as long as the call runs. *)
LEMMA ExactInvariant == Query!Spec /\ Query!QueryRoundTrip => []EachExact
<1>1. Query!Init /\ Query!QueryRoundTrip => EachExact
  BY DEF Query!Init, Query!QueryRoundTrip, EachExact
<1> QED
  BY <1>1, ExactStays, PTL DEF Query!Spec

(* If every parameter and every value of the table survives its            *)
(* conversions alone, then every value of every call does: the rows a      *)
(* script gets are the rows the statement produced, in order and cell by   *)
(* cell, whichever limit cuts the page and whoever changes the columns     *)
(* (esdb_query, append_query_row_wire, parseQueryResultWire).              *)
THEOREM CallsAreExact ==
    QueryAssumptions /\ Query!Spec /\ Query!QueryRoundTrip => []Query!ValuesExact
<1>1. QueryInv /\ EachExact => Query!ValuesExact
  BY ExactCalls
<1> QED
  BY <1>1, QueryInvariant, ExactInvariant, PTL

(* Under the same hypothesis the outcome is the truth: names and counts    *)
(* are those of the statement, and a change that was applied looks refused *)
(* only where FailureChangesNothing says so: through column names that     *)
(* exceed the limit of a reply, a name or a text that is not UTF-8, a      *)
(* statement that keeps the rows before the one that failed, or columns    *)
(* that changed during the call (querySql, Database.query).                *)
THEOREM OutcomesAreTruthful ==
    QueryAssumptions /\ Query!Spec /\ Query!QueryRoundTrip => []Query!OutcomeTruthful
<1>1. QueryInv /\ EachExact /\ ReplyAddsUp => Query!OutcomeTruthful
  BY TruthfulCalls
<1> QED
  BY <1>1, QueryInvariant, ExactInvariant, RepliesAddUp, PTL

-----------------------------------------------------------------------------
(* Blobs: the one conversion that is not recursive.                        *)

(* A hexadecimal digit is read back as the half byte it was written for. *)
LEMMA NibbleOfDigit ==
    ASSUME NEW n \in 0..15
    PROVE  Query!HexDigit(n) \in Nat /\ Query!hex_nibble(Query!HexDigit(n)) = n
<1>1. CASE n < 10
  <2>1. Query!HexDigit(n) = 48 + n
    BY <1>1 DEF Query!HexDigit
  <2>2. 48 + n \in 48..57
    BY <1>1
  <2> QED
    BY <2>1, <2>2 DEF Query!hex_nibble, Query!Digit
<1>2. CASE ~(n < 10)
  <2>1. Query!HexDigit(n) = 55 + n
    BY <1>2 DEF Query!HexDigit
  <2>2. 55 + n \in 65..70 /\ 55 + n \notin 48..57
    BY <1>2
  <2> QED
    BY <2>1, <2>2 DEF Query!hex_nibble, Query!Digit
<1> QED
  BY <1>1, <1>2

(* A half byte is below 16. *)
LEMMA NibbleRange ==
    ASSUME NEW c \in Nat
    PROVE  Query!hex_nibble(c) \in -1..15
BY DEF Query!hex_nibble, Query!Digit

(* A byte is made of its two halves. *)
LEMMA Halves ==
    ASSUME NEW byte \in 0..255
    PROVE  /\ byte \div 16 \in 0..15 /\ byte % 16 \in 0..15
           /\ 16 * (byte \div 16) + (byte % 16) = byte
<1>1. byte \div 16 \in 0..15
  OBVIOUS
<1>2. byte % 16 \in 0..15
  OBVIOUS
<1>3. 16 * (byte \div 16) + (byte % 16) = byte
  OBVIOUS
<1> QED
  BY <1>1, <1>2, <1>3

(* The places of the two digits of byte i. *)
LEMMA Positions ==
    ASSUME NEW i \in Nat
    PROVE  /\ ((2 * i - 1) + 1) \div 2 = i /\ (2 * i - 1) % 2 = 1
           /\ (2 * i + 1) \div 2 = i /\ (2 * i) % 2 = 0
           /\ (2 * i) \div 2 = i
OBVIOUS

(* Half of an even length. *)
LEMMA Half ==
    ASSUME NEW k \in Nat, k % 2 = 0
    PROVE  k \div 2 \in Nat /\ k = 2 * (k \div 2)
OBVIOUS

(* Every place is that of the first or of the second digit of a byte. *)
LEMMA EveryPosition ==
    ASSUME NEW m \in Nat, NEW i \in 1..(2 * m)
    PROVE  (i + 1) \div 2 \in 1..m /\ i % 2 \in {0, 1}
OBVIOUS

(* hex_encode writes two digits a byte, in order. *)
LEMMA HexEncoded ==
    ASSUME NEW bytes \in Seq(0..255), NEW text, text = Query!hex_encode(bytes)
    PROVE  /\ text \in Seq(Nat) /\ Len(text) = 2 * Len(bytes)
           /\ \A i \in 1..Len(text) :
                 /\ Query!hex_nibble(text[i]) \in 0..15
                 /\ Query!HexDigit(Query!hex_nibble(text[i])) = text[i]
           /\ \A i \in 1..Len(bytes) :
                 /\ Query!hex_nibble(text[2 * i - 1]) = bytes[i] \div 16
                 /\ Query!hex_nibble(text[2 * i]) = bytes[i] % 16
<1> DEFINE m == Len(bytes)
           half(i) == LET byte == bytes[(i + 1) \div 2]
                      IN  IF i % 2 = 1 THEN byte \div 16 ELSE byte % 16
<1>1. m \in Nat /\ \A i \in 1..m : bytes[i] \in 0..255
  BY ElementOfSeq
<1>2. \A i \in 1..(2 * m) : half(i) \in 0..15
  <2>1. SUFFICES ASSUME NEW i \in 1..(2 * m)
                 PROVE  half(i) \in 0..15
    OBVIOUS
  <2>2. (i + 1) \div 2 \in 1..m
    BY <1>1, EveryPosition
  <2>3. bytes[(i + 1) \div 2] \in 0..255
    BY <1>1, <2>2
  <2> QED
    BY <2>3, Halves
<1>3. text = [i \in 1..(2 * m) |-> Query!HexDigit(half(i))]
  BY DEF Query!hex_encode
<1>4. \A i \in 1..m : half(2 * i - 1) = bytes[i] \div 16 /\ half(2 * i) = bytes[i] % 16
  BY <1>1, Positions
<1> HIDE DEF half
<1>5. text \in Seq(Nat) /\ Len(text) = 2 * m
  <2>1. \A i \in 1..(2 * m) : Query!HexDigit(half(i)) \in Nat
    BY <1>2, NibbleOfDigit
  <2>2. 2 * m \in Nat
    BY <1>1
  <2> QED
    BY <1>3, <2>1, <2>2
<1>6. \A i \in 1..(2 * m) :
          text[i] = Query!HexDigit(half(i)) /\ Query!hex_nibble(text[i]) = half(i)
  BY <1>2, <1>3, NibbleOfDigit
<1>7. \A i \in 1..m : 2 * i - 1 \in 1..(2 * m) /\ 2 * i \in 1..(2 * m)
  BY <1>1
<1> QED
  BY <1>2, <1>4, <1>5, <1>6, <1>7

(* and hexBytes reads them back. *)
LEMMA HexDecoded ==
    ASSUME NEW bytes \in Seq(0..255)
    PROVE  /\ Query!IsHex(Query!hex_encode(bytes))
           /\ Query!normalizeHex(Query!hex_encode(bytes)) = Query!hex_encode(bytes)
           /\ Query!HexBytes(Query!hex_encode(bytes)) = bytes
<1>1. PICK text : text = Query!hex_encode(bytes)
  OBVIOUS
<1>2. /\ text \in Seq(Nat) /\ Len(text) = 2 * Len(bytes)
      /\ \A i \in 1..Len(text) : /\ Query!hex_nibble(text[i]) \in 0..15
                                 /\ Query!HexDigit(Query!hex_nibble(text[i])) = text[i]
      /\ \A i \in 1..Len(bytes) :
            /\ Query!hex_nibble(text[2 * i - 1]) = bytes[i] \div 16
            /\ Query!hex_nibble(text[2 * i]) = bytes[i] % 16
  BY <1>1, HexEncoded, Zenon
<1>3. /\ Len(bytes) \in Nat /\ DOMAIN text = 1..Len(text)
      /\ \A i \in 1..Len(bytes) : bytes[i] \in 0..255
  <2>1. \A i \in 1..Len(bytes) : bytes[i] \in 0..255
    BY ElementOfSeq
  <2>2. Len(bytes) \in Nat
    BY LenProperties
  <2>3. DOMAIN text = 1..Len(text)
    BY <1>2, LenProperties
  <2> QED
    BY <2>1, <2>2, <2>3
<1>4. Query!IsHex(text)
  <2>1. (2 * Len(bytes)) % 2 = 0
    BY <1>3, Positions
  <2>2. \A i \in DOMAIN text : Query!hex_nibble(text[i]) >= 0
    <3>1. \A n \in 0..15 : n >= 0
      OBVIOUS
    <3>2. \A i \in 1..Len(text) : Query!hex_nibble(text[i]) \in 0..15
      BY <1>2, Zenon
    <3>3. DOMAIN text = 1..Len(text)
      BY <1>3
    <3> QED
      BY <3>1, <3>2, <3>3, Zenon
  <2> QED
    BY <1>2, <2>1, <2>2 DEF Query!IsHex
<1>5. Query!normalizeHex(text) = text
  BY <1>2 DEF Query!normalizeHex
<1>6. Query!HexBytes(text) = bytes
  <2>1. Len(text) \div 2 = Len(bytes)
    BY <1>3, <1>2, Positions
  <2>2. Query!HexBytes(text) = [i \in 1..Len(bytes) |->
            16 * Query!hex_nibble(text[2 * i - 1]) + Query!hex_nibble(text[2 * i])]
    BY <2>1 DEF Query!HexBytes
  <2>3. ASSUME NEW i \in 1..Len(bytes)
        PROVE  16 * Query!hex_nibble(text[2 * i - 1]) + Query!hex_nibble(text[2 * i])
                   = bytes[i]
    <3>1. bytes[i] \in 0..255
      BY <1>3
    <3>2. 16 * (bytes[i] \div 16) + (bytes[i] % 16) = bytes[i]
      BY <3>1, Halves
    <3> QED
      BY <1>2, <3>2
  <2>4. Query!HexBytes(text) = [i \in 1..Len(bytes) |-> bytes[i]]
    BY <2>2, <2>3
  <2> QED
    BY <1>3, <2>4
<1> QED
  BY <1>1, <1>4, <1>5, <1>6

(* Two digits a byte: what hexBytes makes of hexadecimal text. *)
LEMMA HexToBytes ==
    ASSUME NEW text \in Seq(Nat), Query!IsHex(text)
    PROVE  /\ Query!HexBytes(text) \in Seq(0..255)
           /\ Query!normalizeHex(text) \in Seq(Nat)
           /\ Query!IsHex(Query!normalizeHex(text))
<1>1. /\ Len(text) \in Nat /\ Len(text) % 2 = 0
      /\ \A i \in 1..Len(text) : Query!hex_nibble(text[i]) \in 0..15
  <2>1. Len(text) % 2 = 0 /\ \A i \in 1..Len(text) : Query!hex_nibble(text[i]) >= 0
    BY DEF Query!IsHex
  <2>2. \A i \in 1..Len(text) : Query!hex_nibble(text[i]) \in -1..15
    BY NibbleRange
  <2> QED
    BY <2>1, <2>2
<1>2. PICK m \in Nat : m = Len(text) \div 2 /\ Len(text) = 2 * m
  BY <1>1, Half
<1>3. Query!HexBytes(text) \in Seq(0..255)
  <2>1. \A i \in 1..m : /\ Query!hex_nibble(text[2 * i - 1]) \in 0..15
                        /\ Query!hex_nibble(text[2 * i]) \in 0..15
    <3>1. \A i \in 1..m : 2 * i - 1 \in 1..Len(text) /\ 2 * i \in 1..Len(text)
      BY <1>2
    <3> QED
      BY <1>1, <3>1
  <2>2. \A i \in 1..m :
            16 * Query!hex_nibble(text[2 * i - 1]) + Query!hex_nibble(text[2 * i]) \in 0..255
    <3>1. \A a, b \in 0..15 : 16 * a + b \in 0..255
      OBVIOUS
    <3> QED
      BY <2>1, <3>1
  <2>3. Query!HexBytes(text) = [i \in 1..m |->
            16 * Query!hex_nibble(text[2 * i - 1]) + Query!hex_nibble(text[2 * i])]
    BY <1>2 DEF Query!HexBytes
  <2> QED
    BY <2>2, <2>3
<1>4. PICK norm : norm = Query!normalizeHex(text)
  OBVIOUS
<1>5. norm = [i \in 1..Len(text) |-> Query!HexDigit(Query!hex_nibble(text[i]))]
  BY <1>4 DEF Query!normalizeHex
<1>6. /\ norm \in Seq(Nat) /\ Len(norm) = Len(text)
      /\ \A i \in 1..Len(text) : Query!hex_nibble(norm[i]) \in 0..15
  <2>1. \A i \in 1..Len(text) :
            /\ Query!HexDigit(Query!hex_nibble(text[i])) \in Nat
            /\ Query!hex_nibble(Query!HexDigit(Query!hex_nibble(text[i]))) \in 0..15
    BY <1>1, NibbleOfDigit
  <2>2. norm \in Seq(Nat) /\ Len(norm) = Len(text)
    BY <1>1, <1>5, <2>1
  <2>3. \A i \in 1..Len(text) : Query!hex_nibble(norm[i]) \in 0..15
    BY <1>5, <2>1
  <2> QED
    BY <2>2, <2>3
<1>7. Query!IsHex(norm)
  <2>1. \A i \in DOMAIN norm : Query!hex_nibble(norm[i]) >= 0
    <3>1. (\A n \in 0..15 : n >= 0) /\ DOMAIN norm = 1..Len(text)
      BY <1>5
    <3> QED
      BY <1>6, <3>1
  <2> QED
    BY <1>1, <1>6, <2>1 DEF Query!IsHex
<1> QED
  BY <1>3, <1>4, <1>6, <1>7

(* A blob reaches the script as its bytes. *)
LEMMA BlobRead ==
    ASSUME NEW bytes \in Seq(0..255)
    PROVE  Query!ReadExactly(Query!Value("blob", bytes))
<1>1. PICK x : x = Query!Value("blob", bytes)
  OBVIOUS
<1>2. x.type = "blob" /\ x.v = bytes
  BY <1>1 DEF Query!Value
<1>3. PICK y : y = Query!Value("BYTES", bytes)
  OBVIOUS
<1>4. y.type = "BYTES" /\ y.v = bytes
  BY <1>3 DEF Query!Value
<1>5. Query!esdb_query_column_value(x) = y
  BY <1>2, <1>3 DEF Query!esdb_query_column_value, Query!esdb_value_create_bytes
<1>6. PICK text : text = Query!hex_encode(bytes)
  OBVIOUS
<1>7. PICK w : w = Query!Value("BYTES", text)
  OBVIOUS
<1>8. w.type = "BYTES" /\ w.v = text
  BY <1>7 DEF Query!Value
<1>9. Query!value_wire(y) = w
  BY <1>4, <1>6, <1>7 DEF Query!value_wire, Query!DataTypes
<1>10. PICK s : s = Query!Value("bytes", text)
  OBVIOUS
<1>11. s.type = "bytes" /\ s.v = text
  BY <1>10 DEF Query!Value
<1>12. /\ Query!IsHex(text) /\ Query!normalizeHex(text) = text
       /\ Query!HexBytes(text) = bytes
  BY <1>6, HexDecoded
<1>13. Query!decodeStoreValue(w) = s
  <2>1. Query!decodeStoreValue(w) = Query!BytesValue(w.v)
    BY <1>8 DEF Query!decodeStoreValue
  <2> QED
    BY <1>8, <1>10, <1>12, <2>1 DEF Query!BytesValue
<1>14. Query!Source(s) = x
  <2>1. Query!Source(s) = Query!Meaning(s)
    BY <1>11 DEF Query!Source
  <2>2. Query!Meaning(s) = Query!Value("blob", Query!HexBytes(s.v))
    BY <1>11 DEF Query!Meaning
  <2> QED
    BY <1>1, <1>11, <1>12, <2>1, <2>2
<1>15. y # Query!Fail /\ s # Query!Fail
  <2>1. Query!Fail.type = "fail"
    BY DEF Query!Fail
  <2> QED
    BY <1>4, <1>11, <2>1
<1>16. Query!ReadExactly(x)
  BY <1>5, <1>9, <1>13, <1>14, <1>15 DEF Query!ReadExactly
<1> QED
  BY <1>1, <1>16

(* What ESDB.bytes is given is refused, or bound as the bytes it spells. *)
LEMMA BlobBound ==
    ASSUME NEW text \in Seq(Nat)
    PROVE  Query!BoundExactly(Query!Value("bytes of", text))
<1>1. PICK p : p = Query!Value("bytes of", text)
  OBVIOUS
<1>2. p.type = "bytes of" /\ p.v = text
  BY <1>1 DEF Query!Value
<1>3. Query!Given(p) = Query!BytesValue(text)
  BY <1>2 DEF Query!Given
<1>4. Query!Fail.type = "fail"
  BY DEF Query!Fail
<1>5. CASE ~Query!IsHex(text)
  <2>1. Query!Given(p) = Query!Fail
    BY <1>3, <1>5 DEF Query!BytesValue
  <2>2. Query!Parsed(Query!Encoded(p)) = Query!Fail
    BY <2>1 DEF Query!Encoded, Query!Parsed
  <2> QED
    BY <1>1, <2>2 DEF Query!BoundExactly
<1>6. CASE Query!IsHex(text)
  <2>1. PICK norm : norm = Query!normalizeHex(text)
    OBVIOUS
  <2>2. norm \in Seq(Nat) /\ Query!IsHex(norm)
    BY <1>6, <2>1, HexToBytes
  <2>3. PICK bytes : bytes = Query!HexBytes(norm)
    OBVIOUS
  <2>4. bytes \in Seq(0..255)
    BY <2>2, <2>3, HexToBytes
  <2>5. PICK g : g = Query!Value("bytes", norm)
    OBVIOUS
  <2>6. Query!Given(p) = g /\ g.type = "bytes" /\ g.v = norm
    BY <1>3, <1>6, <2>1, <2>5 DEF Query!BytesValue, Query!Value
  <2>7. PICK w : w = Query!Value("BYTES", norm)
    OBVIOUS
  <2>8. w.type = "BYTES" /\ w.v = norm
    BY <2>7 DEF Query!Value
  <2>9. Query!Encoded(p) = w
    <3>1. g # Query!Fail
      BY <1>4, <2>6
    <3>2. Query!encodeQueryParameter(g) = w
      BY <2>6, <2>7 DEF Query!encodeQueryParameter
    <3> QED
      BY <2>6, <3>1, <3>2 DEF Query!Encoded
  <2>10. PICK y : y = Query!Value("BYTES", bytes)
    OBVIOUS
  <2>11. y.type = "BYTES" /\ y.v = bytes
    BY <2>10 DEF Query!Value
  <2>12. Query!Parsed(Query!Encoded(p)) = y
    <3>1. w # Query!Fail
      BY <1>4, <2>8
    <3>2. Query!parse_query_value_wire(w) = Query!make_text_value(w.type, w.v)
      BY <2>8 DEF Query!parse_query_value_wire
    <3>3. Query!make_text_value("BYTES", norm) = y
      BY <2>2, <2>3, <2>10
      DEF Query!make_text_value, Query!esdb_value_create_bytes, Query!DataTypes
    <3> QED
      BY <2>8, <2>9, <3>1, <3>2, <3>3 DEF Query!Parsed
  <2>13. PICK b : b = Query!Value("blob", bytes)
    OBVIOUS
  <2>14. Query!esdb_query_bind_value(y) = b
    BY <2>11, <2>13 DEF Query!esdb_query_bind_value
  <2>15. Query!Meaning(g) = b
    <3>1. Query!Meaning(g) = Query!Value("blob", Query!HexBytes(g.v))
      BY <2>6 DEF Query!Meaning
    <3> QED
      BY <2>3, <2>6, <2>13, <3>1
  <2>16. Query!ReadExactly(b)
    BY <2>4, <2>13, BlobRead
  <2>17. Query!BoundExactly(p)
    BY <2>6, <2>12, <2>14, <2>15, <2>16 DEF Query!BoundExactly
  <2> QED
    BY <1>1, <2>17
<1> QED
  BY <1>5, <1>6

(* Every blob survives, whatever its bytes: what ESDB.bytes accepts is     *)
(* bound as the bytes it spells, and a BLOB column reaches the script as   *)
(* its bytes (hex_encode, hex_decode, hexBytes, normalizeHex,              *)
(* esdb_query_bind_value, value_wire, decodeStoreValue).                   *)
THEOREM BlobsSurvive ==
    /\ \A bytes \in Seq(0..255) : Query!ReadExactly(Query!Value("blob", bytes))
    /\ \A text \in Seq(Nat) : Query!BoundExactly(Query!Value("bytes of", text))
BY BlobRead, BlobBound

===============================================================================
