----------------------------- MODULE ChangeFeed -----------------------------
(***************************************************************************)
(* ObjectStore subscriptions (src/esdb_object_store.cpp): cursors over the *)
(* change journal, polled while the same and other connections write,      *)
(* commit, roll back and prune.                                            *)
(*                                                                         *)
(* A mutation is one step here: a poll copies its rows under               *)
(* object_store_write_mutex, so it never sees the inside of a mutation of  *)
(* its own connection, and a transaction hides it from the others          *)
(* (ObjectStore models it statement by statement).  A poll is one step for *)
(* the snapshot and one for each callback; the mutex is free while         *)
(* callbacks run, so everything else may happen between them.              *)
(*                                                                         *)
(* A transaction is modelled from its first read or write on: before it,   *)
(* a deferred transaction sees what everybody sees.  It has one savepoint, *)
(* set when it begins, which its owner may set anew and roll back to.      *)
(***************************************************************************)
EXTENDS Naturals, FiniteSets

CONSTANTS
    Conns,               \* connections
    Subs,                \* subscription objects
    Stores,              \* ObjectStore names
    AllStores,           \* the filter of store_name == NULL
    Filters,             \* the filters of the subscriptions
    MaxRevision,         \* ESDB_REVISION_MAX
    MaxEpoch,            \* bound: rollbacks that give revisions out again
    MaxLimit             \* the largest limit of a poll

ASSUME ChangeFeedAssumption ==
    /\ MaxRevision \in Nat /\ MaxEpoch \in Nat /\ MaxLimit \in Nat \ {0}
    /\ AllStores \notin Stores
    /\ Filters \subseteq Stores \cup {AllStores}
    /\ Filters # {} /\ Conns # {}

VARIABLES
    disk,      \* the committed image
    trans,     \* trans[c]: c's transaction holds "none", "read" or "write"
    view,      \* view[c]: the image inside c's transaction
    saved,     \* saved[c]: the image at the savepoint of c's transaction
    epoch,     \* rollbacks so far: tells a reused revision from its first use
    hist,      \* every change ever committed
    through,   \* the highest through_revision any prune was called with
    sub        \* sub[s]: esdb_object_subscription and its poll in progress

vars == <<disk, trans, view, saved, epoch, hist, through, sub>>

-----------------------------------------------------------------------------
Revisions == 1..MaxRevision
Change == [rev: Revisions, store: Stores, epoch: 0..MaxEpoch]
Image == [seq: 0..MaxRevision, changes: SUBSET Change]
EmptyImage == [seq |-> 0, changes |-> {}]

(* cursor is the published revision; pending, last and batch are the rest  *)
(* of the snapshot, the local `last` and the rows called back in the poll  *)
(* in progress.  base and seen are history: from where on the subscriber   *)
(* relies on the journal, and the rows of polls that returned OK.          *)
Subscription ==
    [live: BOOLEAN, conn: Conns, filter: Filters, cursor: 0..MaxRevision,
     polling: BOOLEAN, pending: SUBSET Change, last: 0..MaxRevision,
     batch: SUBSET Change, base: 0..MaxRevision, seen: SUBSET Change]

Unsubscribed ==
    [live |-> FALSE, conn |-> CHOOSE c \in Conns : TRUE,
     filter |-> CHOOSE f \in Filters : TRUE, cursor |-> 0,
     polling |-> FALSE, pending |-> {},
     last |-> 0, batch |-> {}, base |-> 0, seen |-> {}]

TypeOK ==
    /\ disk \in Image
    /\ trans \in [Conns -> {"none", "read", "write"}]
    /\ view \in [Conns -> Image] /\ saved \in [Conns -> Image]
    /\ epoch \in 0..MaxEpoch
    /\ hist \subseteq Change
    /\ through \in 0..MaxRevision
    /\ sub \in [Subs -> Subscription]

Init ==
    /\ disk = EmptyImage
    /\ trans = [c \in Conns |-> "none"]
    /\ view = [c \in Conns |-> EmptyImage]
    /\ saved = [c \in Conns |-> EmptyImage]
    /\ epoch = 0
    /\ hist = {}
    /\ through = 0
    /\ sub = [s \in Subs |-> Unsubscribed]

-----------------------------------------------------------------------------
(* Writers. *)

Visible(c) == IF trans[c] = "none" THEN disk ELSE view[c]

(* One writer at a time, and only on the newest image. *)
CanWrite(c) ==
    \/ trans[c] = "write"
    \/ /\ \A d \in Conns : trans[d] # "write"
       /\ trans[c] = "read" => view[c] = disk

(* The image becomes i: at once in autocommit mode, else in c's view. *)
WriteImage(c, i) ==
    /\ CanWrite(c)
    /\ IF trans[c] = "none"
       THEN /\ disk' = i
            /\ hist' = hist \cup i.changes
            /\ UNCHANGED <<trans, view>>
       ELSE /\ trans' = [trans EXCEPT ![c] = "write"]
            /\ view' = [view EXCEPT ![c] = i]
            /\ UNCHANGED <<disk, hist>>
    /\ UNCHANGED <<saved, epoch>>

(* Mutant of Mutate: the end of the revision domain is not an error. *)
MutatePastTheEnd(c, store) ==
    LET i == Visible(c)
        row == [rev |-> i.seq + 1, store |-> store, epoch |-> epoch]
    IN  /\ i.seq <= MaxRevision
        /\ WriteImage(c, [seq |-> row.rev, changes |-> i.changes \cup {row}])
        /\ UNCHANGED <<through, sub>>

(* put or delete of a record of the store. *)
Mutate(c, store) ==
    LET i == Visible(c)
        row == [rev |-> i.seq + 1, store |-> store, epoch |-> epoch]
    IN  /\ i.seq < MaxRevision
        /\ WriteImage(c, [seq |-> row.rev, changes |-> i.changes \cup {row}])
        /\ UNCHANGED <<through, sub>>

(* esdb_object_store_prune_changes, under the policy the header asks of    *)
(* the application: never past a revision a consumer has acknowledged.     *)
Prune(c, r) ==
    LET i == Visible(c)
    IN  /\ \A s \in Subs : sub[s].live => r <= sub[s].cursor
        /\ WriteImage(c, [i EXCEPT !.changes = {e \in @ : e.rev > r}])
        /\ through' = IF r > through THEN r ELSE through
        /\ sub' = sub

Begin(c) ==
    /\ trans[c] = "none"
    /\ trans' = [trans EXCEPT ![c] = "read"]
    /\ view' = [view EXCEPT ![c] = disk]
    /\ saved' = [saved EXCEPT ![c] = disk]
    /\ UNCHANGED <<disk, epoch, hist, through, sub>>

Commit(c) ==
    /\ trans[c] # "none"
    /\ disk' = IF trans[c] = "write" THEN view[c] ELSE disk
    /\ hist' = hist \cup disk'.changes
    /\ trans' = [trans EXCEPT ![c] = "none"]
    /\ view' = [view EXCEPT ![c] = EmptyImage]
    /\ saved' = [saved EXCEPT ![c] = EmptyImage]
    /\ UNCHANGED <<epoch, through, sub>>

(* What a rollback takes back it takes from the sequence too: revisions    *)
(* from `from` to `to` will be given to other changes.                     *)
Reuses(from, to) ==
    IF to > from THEN epoch < MaxEpoch /\ epoch' = epoch + 1
    ELSE epoch' = epoch

(* The transaction is gone with the changes it made and the revisions it   *)
(* took from the sequence.                                                 *)
Abandon(c) ==
    /\ trans[c] # "none"
    /\ Reuses(disk.seq, IF trans[c] = "write" THEN view[c].seq ELSE disk.seq)
    /\ disk' = disk
    /\ trans' = [trans EXCEPT ![c] = "none"]
    /\ view' = [view EXCEPT ![c] = EmptyImage]
    /\ saved' = [saved EXCEPT ![c] = EmptyImage]

Rollback(c) == Abandon(c) /\ UNCHANGED <<hist, through, sub>>

(* SAVEPOINT inside the transaction: from here on ROLLBACK TO means here.  *)
Savepoint(c) ==
    /\ trans[c] # "none"
    /\ saved' = [saved EXCEPT ![c] = view[c]]
    /\ UNCHANGED <<disk, trans, view, epoch, hist, through, sub>>

(* ROLLBACK TO: the image of the savepoint is back, the savepoint and the  *)
(* transaction with its write lock stay.                                   *)
RollbackTo(c) ==
    /\ trans[c] # "none"
    /\ Reuses(saved[c].seq, view[c].seq)
    /\ view' = [view EXCEPT ![c] = saved[c]]
    /\ UNCHANGED <<disk, trans, saved, hist, through, sub>>

(* The process of c dies: its subscriptions are gone, polls included. *)
Crash(c) ==
    /\ \/ Abandon(c)
       \/ trans[c] = "none" /\ UNCHANGED <<disk, trans, view, saved, epoch>>
    /\ sub' = [s \in Subs |-> IF sub[s].live /\ sub[s].conn = c
                              THEN Unsubscribed ELSE sub[s]]
    /\ UNCHANGED <<hist, through>>

-----------------------------------------------------------------------------
(* Subscribers. *)

(* esdb_object_subscribe: any after_revision of the domain is accepted. *)
Subscribe(c, s, filter, after) ==
    /\ ~sub[s].live
    /\ sub' = [sub EXCEPT ![s] =
          [Unsubscribed EXCEPT
              !.live = TRUE, !.conn = c, !.filter = filter,
              !.cursor = after,
              !.base = IF through > after THEN through ELSE after]]
    /\ UNCHANGED <<disk, trans, view, saved, epoch, hist, through>>

(* esdb_object_subscription_destroy, which must not race a poll. *)
Destroy(s) ==
    /\ sub[s].live /\ ~sub[s].polling
    /\ sub' = [sub EXCEPT ![s] = Unsubscribed]
    /\ UNCHANGED <<disk, trans, view, saved, epoch, hist, through>>

Matches(filter, e) == filter = AllStores \/ e.store = filter

(* Mutant of ChangesAfter: no ORDER BY, any rows fill the limit. *)
ChangesNewestFirst(i, filter, after, limit) ==
    LET found == {e \in i.changes : e.rev > after /\ Matches(filter, e)}
    IN  {e \in found : Cardinality({f \in found : f.rev > e.rev}) < limit}

(* Mutant of ChangesAfter: the limit applies before the filter. *)
ChangesLimitedFirst(i, filter, after, limit) ==
    LET found == {e \in i.changes : e.rev > after}
    IN  {e \in found : /\ Cardinality({f \in found : f.rev < e.rev}) < limit
                       /\ Matches(filter, e)}

(* SELECT ... WHERE c.revision>?1 AND s.name=?2 ORDER BY c.revision LIMIT. *)
ChangesAfter(i, filter, after, limit) ==
    LET found == {e \in i.changes : e.rev > after /\ Matches(filter, e)}
    IN  {e \in found : Cardinality({f \in found : f.rev < e.rev}) < limit}

(* esdb_object_subscription_poll up to the snapshot.  A poll of a          *)
(* subscription that is being polled returns ESDB_ERR_BUSY, and a snapshot *)
(* that fails leaves the cursor: neither changes anything.                 *)
Poll(s, limit) ==
    LET c == sub[s].conn
    IN  /\ sub[s].live /\ ~sub[s].polling
        /\ sub' = [sub EXCEPT
              ![s].polling = TRUE,
              ![s].last = sub[s].cursor,
              ![s].batch = {},
              ![s].pending =
                  ChangesAfter(Visible(c), sub[s].filter, sub[s].cursor, limit)]
        /\ UNCHANGED <<disk, trans, view, saved, epoch, hist, through>>

(* The poll u returns; the cursor is published when it is ESDB_OK. *)
Finished(u, ok) ==
    [u EXCEPT !.polling = FALSE, !.pending = {}, !.batch = {}, !.last = 0,
              !.cursor = IF ok THEN u.last ELSE @,
              !.seen = IF ok THEN @ \cup u.batch ELSE @]

(* The callback with e: `last` is set before the call, so a row at which   *)
(* the callback stops counts as delivered.  An exception ends the poll     *)
(* with ESDB_ERR_INTERNAL.                                                 *)
CalledBack(u, e, answer) ==
    LET v == [u EXCEPT !.pending = @ \ {e}, !.batch = @ \cup {e},
                       !.last = e.rev]
    IN  IF answer = "continue" THEN v ELSE Finished(v, answer = "stop")

Deliver(s, answer) ==
    /\ sub[s].polling
    /\ \E e \in sub[s].pending :
          /\ \A f \in sub[s].pending : e.rev <= f.rev
          /\ sub' = [sub EXCEPT ![s] = CalledBack(sub[s], e, answer)]
    /\ UNCHANGED <<disk, trans, view, saved, epoch, hist, through>>

PollReturn(s) ==
    /\ sub[s].polling /\ sub[s].pending = {}
    /\ sub' = [sub EXCEPT ![s] = Finished(sub[s], TRUE)]
    /\ UNCHANGED <<disk, trans, view, saved, epoch, hist, through>>

-----------------------------------------------------------------------------
Answers == {"continue", "stop", "throw"}

Next ==
    \/ \E c \in Conns :
        \/ \E store \in Stores : Mutate(c, store)
        \/ \E r \in Revisions : Prune(c, r)
        \/ Begin(c) \/ Commit(c) \/ Rollback(c) \/ Crash(c)
        \/ Savepoint(c) \/ RollbackTo(c)
        \/ \E s \in Subs, f \in Filters, r \in 0..MaxRevision :
              Subscribe(c, s, f, r)
    \/ \E s \in Subs :
        \/ Destroy(s)
        \/ \E limit \in 1..MaxLimit : Poll(s, limit)
        \/ \E answer \in Answers : Deliver(s, answer)
        \/ PollReturn(s)

Spec == Init /\ [][Next]_vars

(* The host ends its transactions and keeps polling, its callbacks return, *)
(* and they do not make every poll fail.  Nothing makes anybody write.     *)
Fairness ==
    /\ \A s \in Subs :
          /\ WF_vars(\E limit \in 1..MaxLimit : Poll(s, limit))
          /\ WF_vars(\E answer \in Answers : Deliver(s, answer))
          /\ SF_vars(PollReturn(s) \/ Deliver(s, "stop"))
    /\ \A c \in Conns : WF_vars(Commit(c) \/ Rollback(c))

FairSpec == Spec /\ Fairness

-----------------------------------------------------------------------------
(* Properties. *)

(* What s has to have seen: committed changes of its stores between where  *)
(* it started and where its cursor is.                                     *)
Due(s) ==
    {e \in hist : /\ Matches(sub[s].filter, e)
                  /\ sub[s].base < e.rev /\ e.rev <= sub[s].cursor}

(* A subscription has been called back, in polls that returned ESDB_OK,    *)
(* with every committed change its cursor has passed: limits, early stops, *)
(* exceptions, filters, transactions of others that commit later, crashes  *)
(* and coordinated pruning never make it skip one.  Only a subscription    *)
(* that was shown a change that was never committed, by a poll inside the  *)
(* connection's own transaction before a ROLLBACK or a ROLLBACK TO, can    *)
(* miss one, and only up to that change's revision                         *)
(* (esdb_object_subscription_poll; docs/STORE.md: a rolled-back revision   *)
(* may later be reused).                                                   *)
LossIsProvisional ==
    \A s \in Subs : sub[s].live =>
        \A e \in Due(s) \ sub[s].seen :
            \E p \in sub[s].seen : p \notin hist /\ p.rev >= e.rev

(* A change handled by a poll that returned ESDB_OK is not delivered again *)
(* by that subscription: the published cursor is past every row seen, and  *)
(* the rows of a poll in progress are past the cursor.                     *)
NoRedelivery ==
    \A s \in Subs :
        /\ \A e \in sub[s].seen : e.rev <= sub[s].cursor
        /\ \A e \in sub[s].pending \cup sub[s].batch : e \notin sub[s].seen

(* Every committed change is delivered once: none is passed over, but for  *)
(* the one exception, and none comes again.                                *)
DeliveredOnce == LossIsProvisional /\ NoRedelivery

(* Every committed change of its stores reaches a subscription that stays: *)
(* neither limits nor stops nor filters leave the cursor stuck             *)
(* (esdb_object_subscription_poll under a host that keeps polling).        *)
EventuallyDelivered ==
    \A s \in Subs : \A r \in Revisions :
        (sub[s].live /\ \E e \in hist : /\ e.rev = r /\ sub[s].base < r
                                       /\ Matches(sub[s].filter, e))
        ~> (~sub[s].live \/ sub[s].cursor >= r)
=============================================================================
