------------------------- MODULE FacadeSubscription -------------------------
(***************************************************************************)
(* Subscriptions of the ExtendScript facade (extendscript/esdb.jsx):       *)
(* ObjectSubscription and StoreSubscription, whose cursor is a property of *)
(* a script object.  Scripts are single-threaded, but a handler may write, *)
(* close the subscription, throw, or poll the same subscription again; the *)
(* frames of polls in progress form a stack.                               *)
(*                                                                         *)
(* The journal is append-only here (ChangeFeed and MemoryStore model how   *)
(* it is pruned and committed); a change is its key, or AllKeys for clear, *)
(* and its revision is its position.                                       *)
(***************************************************************************)
EXTENDS Naturals, Sequences

CONSTANTS
    Keys,          \* keys of the store
    AllKeys,       \* no key filter; a clear of the process-memory Store
    MaxRevision,   \* bound: changes written
    MaxLimit,      \* bound: limit of a poll
    MaxDepth       \* bound: polls in progress at once

ASSUME FacadeAssumption ==
    /\ AllKeys \notin Keys
    /\ {MaxRevision, MaxLimit, MaxDepth} \subseteq Nat \ {0}

VARIABLES
    journal,   \* keys of the changes written so far
    key,       \* key: the filter
    start,     \* the revision the subscription began with
    cursor,    \* _revision
    closed,    \* closed, and with it handler == null
    polls,     \* the stack of polls in progress, the innermost one last
    handled,   \* revisions the handler has returned from
    nested     \* history: has a handler polled its own subscription?

vars == <<journal, key, start, cursor, closed, polls, handled, nested>>

-----------------------------------------------------------------------------
Revisions == 1..MaxRevision
Touched == Keys \cup {AllKeys}

(* A poll: window.changes are the changes from..to, the loop is at `next`, *)
(* and inside is whether the handler is running for it.                    *)
Frame == [next: 1..(MaxRevision + 1), to: 0..MaxRevision, inside: BOOLEAN]

TypeOK ==
    /\ journal \in Seq(Touched) /\ Len(journal) <= MaxRevision
    /\ key \in Touched
    /\ start \in 0..MaxRevision
    /\ cursor \in 0..MaxRevision
    /\ closed \in BOOLEAN
    /\ polls \in Seq(Frame) /\ Len(polls) <= MaxDepth
    /\ handled \subseteq Revisions
    /\ nested \in BOOLEAN

(* subscribe: afterRevision is given, or it is the current revision. *)
Init ==
    /\ journal \in UNION {[1..n -> Touched] : n \in 0..1}
    /\ key \in Touched
    /\ start \in 0..Len(journal)
    /\ cursor = start
    /\ closed = FALSE
    /\ polls = <<>>
    /\ handled = {}
    /\ nested = FALSE

-----------------------------------------------------------------------------
Top == polls[Len(polls)]
SetTop(frame) == [polls EXCEPT ![Len(polls)] = frame]
Pop == SubSeq(polls, 1, Len(polls) - 1)

(* The application runs: between polls, or inside the handler. *)
ScriptRuns == polls # <<>> => Top.inside

Write(k) ==
    /\ ScriptRuns
    /\ Len(journal) < MaxRevision
    /\ journal' = Append(journal, k)
    /\ UNCHANGED <<key, start, cursor, closed, polls, handled, nested>>

(* ObjectSubscription.close, StoreSubscription.close. *)
Close ==
    /\ ScriptRuns /\ ~closed
    /\ closed' = TRUE
    /\ UNCHANGED <<journal, key, start, cursor, polls, handled, nested>>

(* changesSince(_revision, limit). *)
Window(limit) ==
    LET last == IF cursor + limit < Len(journal) THEN cursor + limit
                ELSE Len(journal)
    IN  [next |-> cursor + 1, to |-> last, inside |-> FALSE]

(* poll: an empty window sets _revision to window.lastRevision, which is   *)
(* the revision asked for.                                                 *)
Poll(limit) ==
    /\ ScriptRuns /\ ~closed
    /\ Len(polls) < MaxDepth
    /\ cursor < Len(journal)
    /\ polls' = Append(polls, Window(limit))
    /\ nested' = (nested \/ polls # <<>>)
    /\ UNCHANGED <<journal, key, start, cursor, closed, handled>>

InLoop == polls # <<>> /\ ~Top.inside /\ Top.next <= Top.to
Matches(r) == key = AllKeys \/ journal[r] \in {key, AllKeys}

(* this.handler(change). *)
CallHandler ==
    /\ InLoop
    /\ Matches(Top.next) /\ ~closed
    /\ polls' = SetTop([Top EXCEPT !.inside = TRUE])
    /\ UNCHANGED <<journal, key, start, cursor, closed, handled, nested>>

(* A change of another key, or no handler any more: the cursor passes it.  *)
PassOver ==
    /\ InLoop
    /\ ~Matches(Top.next) \/ closed
    /\ cursor' = Top.next
    /\ polls' = SetTop([Top EXCEPT !.next = @ + 1])
    /\ UNCHANGED <<journal, key, start, closed, handled, nested>>

(* The handler returns, and this._revision = change.revision. *)
HandlerReturns ==
    /\ polls # <<>> /\ Top.inside
    /\ handled' = handled \cup {Top.next}
    /\ cursor' = Top.next
    /\ polls' = SetTop([Top EXCEPT !.next = @ + 1, !.inside = FALSE])
    /\ UNCHANGED <<journal, key, start, closed, nested>>

(* Mutant of HandlerThrows: an exception skips the change. *)
HandlerThrowsSkips ==
    /\ polls # <<>> /\ Top.inside
    /\ polls' = Pop
    /\ cursor' = Top.next
    /\ UNCHANGED <<journal, key, start, closed, handled, nested>>

(* The handler throws: the poll is left, the cursor stays.  An outer       *)
(* handler that polled gets the exception and may do anything with it.     *)
HandlerThrows ==
    /\ polls # <<>> /\ Top.inside
    /\ polls' = Pop
    /\ UNCHANGED <<journal, key, start, cursor, closed, handled, nested>>

(* Mutant of PollReturns: the loop index becomes the cursor. *)
PollReturnsNext ==
    /\ polls # <<>> /\ ~Top.inside /\ Top.next > Top.to
    /\ polls' = Pop
    /\ cursor' = Top.next
    /\ UNCHANGED <<journal, key, start, closed, handled, nested>>

(* poll returns what it delivered. *)
PollReturns ==
    /\ polls # <<>> /\ ~Top.inside /\ Top.next > Top.to
    /\ polls' = Pop
    /\ UNCHANGED <<journal, key, start, cursor, closed, handled, nested>>

-----------------------------------------------------------------------------
Next ==
    \/ \E k \in Touched : Write(k)
    \/ Close
    \/ \E limit \in 1..MaxLimit : Poll(limit)
    \/ CallHandler \/ PassOver \/ HandlerReturns \/ HandlerThrows
    \/ PollReturns

Spec == Init /\ [][Next]_vars

-----------------------------------------------------------------------------
(* Properties. *)

(* While the subscription is open, its handler has returned from every     *)
(* matching change the cursor has passed, whatever handlers throw, write   *)
(* or poll again meanwhile (ObjectSubscription.poll).                      *)
NothingSkipped ==
    ~closed =>
        \A r \in (start + 1)..cursor : Matches(r) => r \in handled

(* As long as no handler polls the subscription that called it, it is not  *)
(* called again for a change it has returned from, and it gets the changes *)
(* in ascending order.  After a nested poll the outer one goes on with its *)
(* old window, sets the cursor back and delivers again.                    *)
HandledOnce ==
    nested \/
    \A i \in 1..Len(polls) :
        polls[i].inside => \A r \in handled : r < polls[i].next

(* Each matching change is handled, in order and once                      *)
(* (ObjectSubscription.poll, StoreSubscription.poll).                      *)
HandledInOrder == NothingSkipped /\ HandledOnce
=============================================================================
