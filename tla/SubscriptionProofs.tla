------------------------- MODULE SubscriptionProofs -------------------------
(***************************************************************************)
(* Proofs about subscriptions: the native feed (ChangeFeed), for every set *)
(* of connections, stores, subscriptions and filters, and the script       *)
(* facade's own subscription (FacadeSubscription), for every set of keys;  *)
(* for every bound of both.                                                *)
(*                                                                         *)
(* ChangeFeed.  DeliveredOnce speaks of committed changes, but a           *)
(* subscription on the connection that writes is shown rows before they    *)
(* are committed, and a rollback gives their revisions to other rows.      *)
(* So the invariant sorts the rows a subscription was shown (Known):       *)
(* committed, dead (rolled back, or pruned by their own transaction), or   *)
(* of the transaction its connection has open.  Every change that is       *)
(* committed or may be (a ROLLBACK TO can bring rows of the savepoint      *)
(* back), and lies behind the cursor, was seen, or a dead row at or above  *)
(* it was (Covered).  A revision that a writer gives out   *)
(* anew is behind everything that is not dead (Fresh), so it cannot open a *)
(* gap.  The rest of a poll's snapshot has no gap either (Whole), which is *)
(* what lets a callback move the cursor to the row it was given.           *)
(*                                                                         *)
(* FacadeSubscription.  A handler may poll its own subscription, so polls  *)
(* form a stack.  Each has a window of the journal, and everything before  *)
(* its position has been handled (FrameOK).  Until a handler polls, there  *)
(* is one poll and it stands right behind the cursor (PlainOK); that is    *)
(* why nothing is handled twice.                                           *)
(***************************************************************************)
EXTENDS ChangeFeed, FiniteSetTheorems, SequenceTheorems, TLAPS

(* e is committed or will be, if the writer commits, or goes back to its   *)
(* savepoint and commits.                                                  *)
Current(e) ==
    \/ e \in hist
    \/ \E c \in Conns : /\ trans[c] = "write"
                        /\ e \in view[c].changes \cup saved[c].changes

(* p will never be committed: it was rolled back, or pruned by the very    *)
(* transaction that wrote it.                                              *)
Dead(p) == ~Current(p) /\ (p.epoch < epoch \/ p.rev <= disk.seq)

(* p was written by the transaction c has open. *)
Own(c, p) ==
    trans[c] = "write" /\ disk.seq < p.rev /\ p.rev <= view[c].seq

(* What a row can be that c has been shown. *)
Known(c, p) ==
    /\ p \in Change /\ p.epoch <= epoch
    /\ p \in hist \/ Dead(p) \/ Own(c, p)

Distinct(rows) == \A e, f \in rows : e.rev = f.rev => e = f

(* The committed image has all of the history that was not pruned. *)
DiskInv ==
    /\ disk.changes \subseteq hist
    /\ \A e \in hist : e.rev <= disk.seq /\ e.epoch <= epoch
    /\ \A e \in hist : through < e.rev => e \in disk.changes
    /\ Distinct(hist)
    /\ IsFiniteSet(disk.changes)

(* The snapshot of a reader is an older committed image; t is `through`. *)
ReadView(i, t) ==
    /\ i.seq <= disk.seq /\ i.changes \subseteq hist
    /\ \A e \in i.changes : e.rev <= i.seq
    /\ \A e \in hist : t < e.rev /\ e.rev <= i.seq => e \in i.changes
    /\ IsFiniteSet(i.changes)

(* The image of the writer is the committed one and its own rows. *)
WriteView(i, t) ==
    /\ disk.seq <= i.seq
    /\ \A e \in i.changes :
          /\ e.rev <= i.seq
          /\ e \in hist \/ (disk.seq < e.rev /\ e.epoch <= epoch)
    /\ \A e \in hist : t < e.rev => e \in i.changes
    /\ Distinct(i.changes)
    /\ IsFiniteSet(i.changes)

(* The writer went from image m of its savepoint to image i. *)
Since(m, i, t) ==
    m.seq <= i.seq /\ \A e \in m.changes : t < e.rev => e \in i.changes

ViewInv ==
    \A c \in Conns :
        /\ trans[c] = "read" => ReadView(view[c], through) /\ saved[c] = view[c]
        /\ trans[c] = "write" => /\ WriteView(view[c], through)
                                /\ WriteView(saved[c], through)
                                /\ Since(saved[c], view[c], through)

OneWriter ==
    \A c, d \in Conns : trans[c] = "write" /\ trans[d] = "write" => c = d

ImageInv == DiskInv /\ ViewInv /\ OneWriter

(* Rows that subscription u waits for. *)
Concerns(u, e) == Current(e) /\ Matches(u.filter, e) /\ u.base < e.rev

(* Of the rows up to a revision, `rows` has each that u waits for, or a    *)
(* row that was shown in its place and will never be committed.            *)
Covered(u, upto, rows) ==
    \A e \in Change :
        Concerns(u, e) /\ e.rev <= upto /\ e \notin rows =>
            \E p \in rows : Dead(p) /\ p.rev >= e.rev

(* A position is where the subscription started, or that of a row. *)
Reached(u, upto, rows) == upto <= u.base \/ \E p \in rows : p.rev = upto

(* The rest of a snapshot has no gap before a row that can be committed. *)
Whole(u) ==
    \A f \in u.pending :
        Dead(f) \/ \A e \in Change :
            Concerns(u, e) /\ u.last < e.rev /\ e.rev <= f.rev => e \in u.pending

(* Rows seen, the cursor, rows called back, `last`, rows to call back. *)
Ordered(u) ==
    /\ u.cursor <= u.last
    /\ \A e \in u.batch : u.cursor < e.rev /\ e.rev <= u.last
    /\ \A e \in u.pending : u.last < e.rev
    /\ Distinct(u.pending)

PollInv(u) ==
    /\ Ordered(u) /\ Whole(u)
    /\ Reached(u, u.last, u.seen \cup u.batch)
    /\ Covered(u, u.last, u.seen \cup u.batch)

RowsOf(u) == u.seen \cup u.batch \cup u.pending

LiveInv(u) ==
    /\ through <= u.base \/ through <= u.cursor
    /\ \A e \in u.seen : e.rev <= u.cursor
    /\ \A p \in RowsOf(u) : Known(u.conn, p)
    /\ Reached(u, u.cursor, u.seen)
    /\ Covered(u, u.cursor, u.seen)
    /\ u.polling => PollInv(u)
    /\ ~u.polling => u.batch = {} /\ u.pending = {}

SubInv(u) == IF u.live THEN LiveInv(u) ELSE u = Unsubscribed

FeedInv == TypeOK /\ ImageInv /\ \A s \in Subs : SubInv(sub[s])

-----------------------------------------------------------------------------
(* What a step of a writer does to a subscription.                         *)

(* The old and the new state of the images, as far as subscriptions care:  *)
(* what is dead stays dead, what a connection was shown stays known, and a *)
(* row that becomes current is behind all there were.                      *)
DeadStays == \A p \in Change : Dead(p) => Dead(p)'
KnownStays(c) == \A p \in Change : Known(c, p) => Known(c, p)'
Fresh(e) ==
    disk.seq < e.rev /\ \A c \in Conns : trans[c] = "write" => view[c].seq < e.rev
NewIsFresh == \A e \in Change : Current(e)' => Current(e) \/ Fresh(e)

(* A known row that has the revision of a fresh one, or a later one, is    *)
(* dead.                                                                   *)
LEMMA BehindFresh ==
    ASSUME TypeOK, ImageInv, NEW c \in Conns, NEW p \in Change, NEW e \in Change,
           Known(c, p), Fresh(e), e.rev <= p.rev
    PROVE  Dead(p)
<1>1. /\ e.rev \in Int /\ p.rev \in Int /\ disk.seq \in Int /\ view[c].seq \in Int
  BY DEF TypeOK, Change, Image, Revisions
<1>2. disk.seq < e.rev /\ (trans[c] = "write" => view[c].seq < e.rev)
  BY DEF Fresh
<1>3. p \notin hist
  BY <1>1, <1>2 DEF ImageInv, DiskInv
<1>4. ~Own(c, p)
  BY <1>1, <1>2 DEF Own
<1> QED
  BY <1>3, <1>4 DEF Known

(* What is dead stays dead and what is new is fresh: no new gap. *)
LEMMA CoveredStays ==
    ASSUME TypeOK, ImageInv, DeadStays, NewIsFresh,
           NEW c \in Conns, NEW u \in Subscription, NEW upto \in Int, NEW rows,
           rows \subseteq Change, \A p \in rows : Known(c, p),
           Reached(u, upto, rows), Covered(u, upto, rows)
    PROVE  Covered(u, upto, rows)'
<1>1. SUFFICES ASSUME NEW e \in Change, Concerns(u, e)', e.rev <= upto, e \notin rows
               PROVE  \E p \in rows : Dead(p)' /\ p.rev >= e.rev
  BY DEF Covered
<1>2. Matches(u.filter, e) /\ u.base < e.rev /\ (Current(e) \/ Fresh(e))
  BY <1>1 DEF Concerns, NewIsFresh
<1>3. CASE Current(e)
  BY <1>1, <1>2, <1>3 DEF Covered, Concerns, DeadStays
<1>4. CASE Fresh(e)
  <2>1. PICK p \in rows : p.rev = upto
    BY <1>1, <1>2 DEF Reached, Subscription, Change, Revisions
  <2>2. Dead(p)
    BY <1>1, <1>4, <2>1, BehindFresh
  <2>3. p.rev >= e.rev
    BY <1>1, <2>1 DEF Change, Revisions
  <2> QED
    BY <2>1, <2>2, <2>3 DEF DeadStays
<1> QED
  BY <1>2, <1>3, <1>4

(* Nor does a gap open in the rest of a snapshot. *)
LEMMA WholeStays ==
    ASSUME TypeOK, ImageInv, DeadStays, NewIsFresh, NEW u \in Subscription,
           \A p \in u.pending : Known(u.conn, p), Whole(u)
    PROVE  Whole(u)'
<1>1. SUFFICES ASSUME NEW f \in u.pending, ~Dead(f)', NEW e \in Change,
                      Concerns(u, e)', u.last < e.rev, e.rev <= f.rev
               PROVE  e \in u.pending
  BY DEF Whole
<1>2. f \in Change /\ u.conn \in Conns
  BY DEF Subscription
<1>3. ~Dead(f)
  BY <1>1, <1>2 DEF DeadStays
<1>4. ~Fresh(e)
  BY <1>1, <1>2, <1>3, BehindFresh
<1>5. Concerns(u, e)
  BY <1>1, <1>4 DEF Concerns, NewIsFresh
<1> QED
  BY <1>1, <1>3, <1>5 DEF Whole

(* A step of a writer that keeps DeadStays, KnownStays and NewIsFresh      *)
(* leaves the invariant of a subscription it does not touch.               *)
LEMMA SubStays ==
    ASSUME TypeOK, ImageInv, DeadStays, NewIsFresh, NEW u \in Subscription,
           KnownStays(u.conn), SubInv(u),
           u.live => through' <= u.base \/ through' <= u.cursor
    PROVE  SubInv(u)'
<1>1. CASE ~u.live
  BY <1>1 DEF SubInv
<1>2. CASE u.live
  <2>1. LiveInv(u)
    BY <1>2 DEF SubInv
  <2>2. /\ u.conn \in Conns /\ u.cursor \in Int /\ u.last \in Int
        /\ u.seen \subseteq Change /\ u.batch \subseteq Change
        /\ u.pending \subseteq Change
    BY DEF Subscription
  <2>3. \A p \in RowsOf(u) : Known(u.conn, p)
    BY <2>1 DEF LiveInv
  <2>4. \A p \in RowsOf(u) : Known(u.conn, p)'
    BY <2>2, <2>3 DEF KnownStays, RowsOf
  <2>5. Covered(u, u.cursor, u.seen)'
    BY <2>1, <2>2, <2>3, CoveredStays DEF LiveInv, RowsOf
  <2>6. ASSUME u.polling
        PROVE  PollInv(u)'
    <3>1. PollInv(u)
      BY <2>1, <2>6 DEF LiveInv
    <3>2. Whole(u)'
      BY <2>3, <3>1, WholeStays DEF PollInv, RowsOf
    <3>3. Covered(u, u.last, u.seen \cup u.batch)'
      <4>1. /\ u.seen \cup u.batch \subseteq Change
            /\ \A p \in u.seen \cup u.batch : Known(u.conn, p)
        BY <2>2, <2>3 DEF RowsOf
      <4> QED
        BY <2>2, <3>1, <4>1, CoveredStays DEF PollInv
    <3> QED
      BY <3>1, <3>2, <3>3 DEF PollInv, Ordered, Reached
  <2> QED
    BY <1>2, <2>1, <2>4, <2>5, <2>6 DEF SubInv, LiveInv, Reached
<1> QED
  BY <1>1, <1>2

-----------------------------------------------------------------------------
(* Steps of the writers.                                                   *)

(* The image c writes to: the committed one and what c has written. *)
LEMMA WritesToNewest ==
    ASSUME TypeOK, ImageInv, NEW c \in Conns, CanWrite(c)
    PROVE  /\ Visible(c) \in Image /\ WriteView(Visible(c), through)
           /\ \A d \in Conns : trans[d] = "write" => d = c
           /\ trans[c] # "write" => Visible(c) = disk
           /\ trans[c] # "none" => /\ WriteView(saved[c], through)
                                   /\ Since(saved[c], Visible(c), through)
                                   /\ \A e \in saved[c].changes : Current(e)
<1>1. WriteView(disk, through) /\ Since(disk, disk, through)
  BY DEF TypeOK, Image, ImageInv, DiskInv, WriteView, Distinct, Since
<1>2. trans[c] \in {"none", "read", "write"} /\ view[c] \in Image /\ disk \in Image
  BY DEF TypeOK
<1>3. CASE trans[c] = "write"
  <2>1. Visible(c) = view[c]
    BY <1>3 DEF Visible
  <2>2. \A e \in saved[c].changes : Current(e)
    BY <1>3 DEF Current
  <2> QED
    BY <1>2, <1>3, <2>1, <2>2 DEF ImageInv, ViewInv, OneWriter
<1>4. CASE trans[c] # "write"
  <2>1. Visible(c) = disk /\ (trans[c] # "none" => saved[c] = disk)
    BY <1>2, <1>4 DEF CanWrite, Visible, ImageInv, ViewInv
  <2>2. \A e \in disk.changes : Current(e)
    BY DEF ImageInv, DiskInv, Current
  <2> QED
    BY <1>1, <1>2, <1>4, <2>1, <2>2 DEF CanWrite
<1> QED
  BY <1>3, <1>4

(* Pruning more asks less of the writer's image. *)
LEMMA WriteViewWeaker ==
    ASSUME TypeOK, NEW i, NEW t \in Int, through <= t, WriteView(i, through)
    PROVE  WriteView(i, t)
BY DEF WriteView, TypeOK, Change, Revisions

(* i is what a statement makes of image v: it may add rows with new        *)
(* revisions and remove rows up to t.                                      *)
Follows(v, i, t) ==
    /\ i \in Image /\ v.seq <= i.seq /\ IsFiniteSet(i.changes)
    /\ \A e \in i.changes :
          e \in v.changes \/ (v.seq < e.rev /\ e.rev <= i.seq /\ e.epoch = epoch)
    /\ \A e \in v.changes : t < e.rev => e \in i.changes
    /\ Distinct(i.changes)

(* What a statement makes of the writer's image is a writer's image. *)
LEMMA FollowsWrites ==
    ASSUME TypeOK, NEW v \in Image, NEW i, NEW t \in Int, through <= t,
           WriteView(v, through), Follows(v, i, t)
    PROVE  WriteView(i, t)
<1>1. /\ i \in Image /\ i.seq \in Int /\ v.seq \in Int /\ disk.seq \in Int
      /\ through \in Int /\ v.changes \subseteq Change /\ i.changes \subseteq Change
  BY DEF Follows, Image, TypeOK
<1>2. \A e \in Change : e.rev \in Int
  BY DEF Change, Revisions
<1>3. hist \subseteq Change
  BY DEF TypeOK
<1>4. ASSUME NEW e \in i.changes
      PROVE  /\ e.rev <= i.seq
             /\ e \in hist \/ (disk.seq < e.rev /\ e.epoch <= epoch)
  <2>1. epoch \in Int
    BY DEF TypeOK
  <2> QED
    BY <1>1, <1>2, <2>1 DEF Follows, WriteView
<1>5. ASSUME NEW e \in hist, t < e.rev
      PROVE  e \in i.changes
  <2>1. through < e.rev
    BY <1>1, <1>2, <1>3, <1>5
  <2> QED
    BY <1>5, <2>1 DEF Follows, WriteView
<1> QED
  BY <1>1, <1>4, <1>5 DEF Follows, WriteView

(* Pruning more asks less of an image. *)
LEMMA ReadViewWeaker ==
    ASSUME TypeOK, NEW i, NEW t \in Int, through <= t, ReadView(i, through)
    PROVE  ReadView(i, t)
BY DEF ReadView, TypeOK, Change, Revisions

(* What the images, the known rows and the current rows are after a step:  *)
(* the facts that SubStays needs.                                          *)
Safe ==
    /\ ImageInv' /\ DeadStays /\ NewIsFresh
    /\ \A c \in Conns : KnownStays(c)

(* A new committed image: c commits, or writes in autocommit mode. *)
LEMMA Published ==
    ASSUME TypeOK, ImageInv, NEW c \in Conns, NEW i \in Image,
           WriteView(i, through'), through' \in Int, through <= through',
           disk' = i, hist' = hist \cup i.changes, epoch' = epoch,
           \A d \in Conns : trans[d] = "write" => d = c /\ view[d].seq <= i.seq,
           \A e \in i.changes : Current(e) \/ (Fresh(e) /\ e.epoch = epoch),
           \A d \in Conns : trans'[d] # "write",
           \A d \in Conns : trans'[d] = "read" =>
               trans[d] = "read" /\ view'[d] = view[d] /\ saved'[d] = saved[d]
    PROVE  Safe
<1>1. /\ disk.seq \in Int /\ i.seq \in Int /\ through \in Int /\ epoch \in Int
      /\ hist \subseteq Change /\ i.changes \subseteq Change
      /\ \A e \in Change : e.rev \in Int /\ e.epoch \in Int
      /\ \A d \in Conns : view[d].seq \in Int
  BY DEF TypeOK, Image, Change, Revisions
<1>2. disk.seq <= i.seq /\ \A e \in hist : e.rev <= disk.seq
  BY DEF WriteView, ImageInv, DiskInv
<1>3. DiskInv'
  <2>1. \A e \in hist' : e.rev <= i.seq /\ e.epoch <= epoch
    BY <1>1, <1>2 DEF ImageInv, DiskInv, WriteView
  <2>2. Distinct(hist')
    <3>1. SUFFICES ASSUME NEW e \in hist', NEW f \in hist', e.rev = f.rev
                   PROVE  e = f
      BY DEF Distinct
    <3>2. CASE e \in hist /\ f \in hist
      BY <3>1, <3>2 DEF ImageInv, DiskInv, Distinct
    <3>3. CASE e \in i.changes /\ f \in i.changes
      BY <3>1, <3>3 DEF WriteView, Distinct
    <3>4. CASE e \notin hist /\ f \notin i.changes
      BY <1>1, <1>2, <3>1, <3>4 DEF WriteView
    <3>5. CASE f \notin hist /\ e \notin i.changes
      BY <1>1, <1>2, <3>1, <3>5 DEF WriteView
    <3> QED
      BY <3>1, <3>2, <3>3, <3>4, <3>5
  <2>3. \A e \in hist' : through' < e.rev => e \in i.changes
    BY DEF WriteView
  <2> QED
    BY <2>1, <2>2, <2>3 DEF DiskInv, WriteView
<1>4. ViewInv'
  <2>1. SUFFICES ASSUME NEW d \in Conns, trans'[d] = "read"
                 PROVE  ReadView(view[d], through)' /\ saved'[d] = view'[d]
    BY DEF ViewInv
  <2>2. PICK w \in Image : w = view[d] /\ w = view'[d] /\ w = saved'[d]
    BY <2>1 DEF TypeOK, ImageInv, ViewInv
  <2>3. ReadView(w, through)
    BY <2>1, <2>2 DEF ImageInv, ViewInv
  <2>4. /\ w.seq \in Int /\ w.seq <= disk.seq /\ w.changes \subseteq hist
        /\ \A e \in w.changes : e.rev <= w.seq
        /\ \A e \in hist : through < e.rev /\ e.rev <= w.seq => e \in w.changes
        /\ IsFiniteSet(w.changes)
    BY <2>3 DEF ReadView, Image
  <2>5. ASSUME NEW e \in hist', through' < e.rev, e.rev <= w.seq
        PROVE  e \in w.changes
    <3>1. e \in hist
      BY <1>1, <2>4, <2>5 DEF WriteView
    <3> QED
      BY <1>1, <2>4, <2>5, <3>1
  <2> QED
    BY <1>1, <1>2, <2>2, <2>4, <2>5 DEF ReadView
<1>5. OneWriter'
  BY DEF OneWriter
<1>6. ASSUME NEW p \in Change, Dead(p)
      PROVE  Dead(p)'
  <2>1. p \notin i.changes
    BY <1>1, <1>6 DEF Dead, Fresh
  <2>2. ~Current(p)'
    BY <1>6, <2>1 DEF Dead, Current
  <2> QED
    BY <1>1, <1>2, <1>6, <2>2 DEF Dead
<1>7. ASSUME NEW d \in Conns, NEW p \in Change, Known(d, p)
      PROVE  Known(d, p)'
  <2>1. CASE p \in hist \/ Dead(p)
    BY <1>6, <1>7, <2>1 DEF Known
  <2>2. CASE Own(d, p)
    <3>1. p.rev <= i.seq
      BY <1>1, <2>2 DEF Own
    <3>2. Current(p)' => p \in hist'
      BY DEF Current
    <3> QED
      BY <1>7, <3>1, <3>2 DEF Known, Dead
  <2> QED
    BY <1>7, <2>1, <2>2 DEF Known
<1>8. NewIsFresh
  <2>1. SUFFICES ASSUME NEW e \in Change, Current(e)'
                 PROVE  Current(e) \/ Fresh(e)
    BY DEF NewIsFresh
  <2>2. e \in hist'
    BY <2>1 DEF Current
  <2> QED
    BY <2>2 DEF Current
<1> QED
  BY <1>3, <1>4, <1>5, <1>6, <1>7, <1>8
  DEF Safe, ImageInv, DeadStays, KnownStays

(* The writer's image grows: c writes in its transaction. *)
LEMMA Staged ==
    ASSUME TypeOK, ImageInv, NEW c \in Conns, NEW i \in Image,
           WriteView(i, through'), through' \in Int, through <= through',
           UNCHANGED <<disk, hist, epoch>>,
           trans' = [trans EXCEPT ![c] = "write"], view' = [view EXCEPT ![c] = i],
           saved' = saved, WriteView(saved[c], through), Since(saved[c], i, through'),
           \A d \in Conns : trans[d] = "write" => d = c /\ view[d].seq <= i.seq,
           \A e \in saved[c].changes : Current(e),
           \A e \in i.changes : Current(e) \/ (Fresh(e) /\ e.epoch = epoch)
    PROVE  Safe
<1>1. /\ disk.seq \in Int /\ i.seq \in Int /\ through \in Int /\ epoch \in Int
      /\ hist \subseteq Change /\ i.changes \subseteq Change
      /\ \A e \in Change : e.rev \in Int /\ e.epoch \in Int
      /\ \A d \in Conns : view[d].seq \in Int
  BY DEF TypeOK, Image, Change, Revisions
<1>2. /\ trans'[c] = "write" /\ view'[c] = i
      /\ \A d \in Conns \ {c} : trans'[d] = trans[d] /\ view'[d] = view[d]
      /\ \A d \in Conns \ {c} : trans'[d] # "write"
  BY DEF TypeOK
<1>3. DiskInv'
  BY <1>1 DEF ImageInv, DiskInv, Distinct
<1>4. ViewInv'
  <2>1. SUFFICES ASSUME NEW d \in Conns
                 PROVE  /\ trans'[d] = "read" =>
                              ReadView(view[d], through)' /\ saved'[d] = view'[d]
                        /\ trans'[d] = "write" =>
                              /\ WriteView(view[d], through)'
                              /\ WriteView(saved[d], through)'
                              /\ Since(saved[d], view[d], through)'
    BY DEF ViewInv
  <2>2. CASE d = c
    <3>1. WriteView(saved[c], through')
      BY WriteViewWeaker
    <3>2. WriteView(saved[c], through)' /\ WriteView(view[c], through)'
      BY <1>2, <3>1 DEF WriteView
    <3> QED
      BY <1>2, <2>2, <3>2 DEF Since
  <2>3. CASE d # c
    <3>1. trans[d] = "read" => ReadView(view[d], through') /\ saved[d] = view[d]
      BY ReadViewWeaker DEF ImageInv, ViewInv
    <3> QED
      BY <1>2, <2>3, <3>1 DEF ReadView
  <2> QED
    BY <2>2, <2>3
<1>5. OneWriter'
  BY <1>2 DEF OneWriter
<1>6. ASSUME NEW p \in Change, Dead(p)
      PROVE  Dead(p)'
  <2>1. p \notin i.changes /\ p \notin saved[c].changes
    BY <1>1, <1>6 DEF Dead, Fresh
  <2>2. ~Current(p)'
    BY <1>2, <1>6, <2>1 DEF Dead, Current
  <2> QED
    BY <1>6, <2>2 DEF Dead
<1>7. ASSUME NEW d \in Conns, NEW p \in Change, Known(d, p)
      PROVE  Known(d, p)'
  <2>1. CASE p \in hist \/ Dead(p)
    BY <1>6, <1>7, <2>1 DEF Known
  <2>2. CASE Own(d, p)
    BY <1>1, <1>2, <1>7, <2>2 DEF Known, Own
  <2> QED
    BY <1>7, <2>1, <2>2 DEF Known
<1>8. NewIsFresh
  <2>1. SUFFICES ASSUME NEW e \in Change, Current(e)'
                 PROVE  Current(e) \/ Fresh(e)
    BY DEF NewIsFresh
  <2>2. e \in hist \/ e \in i.changes \/ e \in saved[c].changes
    BY <1>2, <2>1 DEF Current
  <2> QED
    BY <2>2 DEF Current
<1> QED
  BY <1>3, <1>4, <1>5, <1>6, <1>7, <1>8
  DEF Safe, ImageInv, DeadStays, KnownStays

(* A transaction starts, sets its savepoint anew, goes back to it, or ends *)
(* without a change of the committed image; when rows go, the epoch ends.  *)
LEMMA Quiet ==
    ASSUME TypeOK, ImageInv, UNCHANGED <<disk, hist, through>>,
           epoch' = epoch \/ epoch' = epoch + 1,
           \A d \in Conns : trans'[d] = "write" =>
               /\ trans[d] = "write"
               /\ view'[d] \in {view[d], saved[d]} /\ saved'[d] \in {view[d], saved[d]}
               /\ Since(saved'[d], view'[d], through)
               /\ view[d].seq <= view'[d].seq \/ epoch' = epoch + 1,
           \A d \in Conns : trans'[d] = "read" =>
               /\ saved'[d] = view'[d]
               /\ view'[d] = disk \/ (trans[d] = "read" /\ view'[d] = view[d]),
           \A d \in Conns : trans[d] = "write" /\ trans'[d] # "write" =>
               view[d].seq <= disk.seq \/ epoch' = epoch + 1
    PROVE  Safe
<1>1. /\ disk.seq \in Int /\ through \in Int /\ epoch \in Int
      /\ hist \subseteq Change /\ disk \in Image
      /\ \A e \in Change : e.rev \in Int /\ e.epoch \in Int
      /\ \A d \in Conns : /\ view[d].seq \in Int /\ saved[d].seq \in Int
                          /\ view[d] \in Image /\ saved[d] \in Image
  BY DEF TypeOK, Image, Change, Revisions
<1>2. DiskInv'
  BY <1>1 DEF ImageInv, DiskInv, Distinct
<1>w. ASSUME NEW d \in Conns, trans'[d] = "write"
      PROVE  /\ WriteView(view'[d], through) /\ WriteView(saved'[d], through)
             /\ view'[d] \in Image /\ saved'[d] \in Image
  BY <1>1, <1>w DEF ImageInv, ViewInv
<1>3. ViewInv'
  <2>1. SUFFICES ASSUME NEW d \in Conns
                 PROVE  /\ trans'[d] = "read" =>
                              ReadView(view[d], through)' /\ saved'[d] = view'[d]
                        /\ trans'[d] = "write" =>
                              /\ WriteView(view[d], through)'
                              /\ WriteView(saved[d], through)'
                              /\ Since(saved[d], view[d], through)'
    BY DEF ViewInv
  <2>2. ReadView(disk, through)
    BY <1>1 DEF ImageInv, DiskInv, ReadView
  <2>3. ASSUME trans'[d] = "read"
        PROVE  ReadView(view[d], through)' /\ saved'[d] = view'[d]
    <3>1. ReadView(view'[d], through)
      BY <2>2, <2>3 DEF ImageInv, ViewInv
    <3> QED
      BY <2>3, <3>1 DEF ReadView
  <2>4. ASSUME NEW i \in Image, WriteView(i, through)
        PROVE  \A e \in i.changes :
                  /\ e.rev <= i.seq
                  /\ e \in hist \/ (disk.seq < e.rev /\ e.epoch <= epoch')
    BY <1>1, <2>4 DEF WriteView, Image
  <2>5. ASSUME trans'[d] = "write"
        PROVE  /\ WriteView(view[d], through)' /\ WriteView(saved[d], through)'
               /\ Since(saved[d], view[d], through)'
    <3>1. WriteView(view[d], through)' /\ WriteView(saved[d], through)'
      BY <1>w, <2>4, <2>5 DEF WriteView, Distinct
    <3>2. Since(saved'[d], view'[d], through)
      BY <2>5
    <3> QED
      BY <3>1, <3>2 DEF Since
  <2> QED
    BY <2>3, <2>5
<1>4. OneWriter'
  BY DEF OneWriter, ImageInv
<1>c. ASSUME NEW p \in Change, Current(p)'
      PROVE  Current(p)
  BY <1>c DEF Current
<1>5. ASSUME NEW p \in Change, Dead(p)
      PROVE  Dead(p)'
  BY <1>1, <1>5, <1>c DEF Dead
<1>6. ASSUME NEW d \in Conns, NEW p \in Change, Known(d, p)
      PROVE  Known(d, p)'
  <2>1. p.epoch <= epoch'
    BY <1>1, <1>6 DEF Known
  <2>2. CASE p \in hist \/ Dead(p)
    BY <1>5, <1>6, <2>1, <2>2 DEF Known
  <2>3. CASE Own(d, p) /\ trans'[d] = "write" /\ p.rev <= view'[d].seq
    BY <1>6, <2>1, <2>3 DEF Known, Own
  <2>4. CASE Own(d, p) /\ ~(trans'[d] = "write" /\ p.rev <= view'[d].seq)
    <3>1. /\ trans[d] = "write" /\ disk.seq < p.rev /\ p.rev <= view[d].seq
          /\ p \notin hist
      BY <1>1, <2>4 DEF Own, ImageInv, DiskInv
    <3>2. epoch' = epoch + 1
      <4>1. CASE trans'[d] = "write"
        <5>1. view'[d].seq \in Int /\ ~(p.rev <= view'[d].seq)
          BY <1>w, <2>4, <4>1 DEF Image
        <5> QED
          BY <1>1, <3>1, <4>1, <5>1
      <4>2. CASE trans'[d] # "write"
        BY <1>1, <3>1, <4>2
      <4> QED
        BY <4>1, <4>2
    <3>3. p.epoch < epoch'
      BY <1>1, <1>6, <3>2 DEF Known
    <3>4. ~Current(p)'
      <4>1. SUFFICES ASSUME NEW x \in Conns, trans'[x] = "write",
                            p \in view'[x].changes \cup saved'[x].changes
                     PROVE  FALSE
        BY <3>1 DEF Current
      <4>2. x = d
        BY <3>1, <4>1 DEF ImageInv, OneWriter
      <4>3. p.rev <= view'[d].seq \/ p.rev <= saved'[d].seq
        BY <1>w, <4>1, <4>2 DEF WriteView
      <4>4. saved'[d].seq <= view'[d].seq
        BY <4>1, <4>2 DEF Since
      <4>5. view'[d].seq \in Int /\ saved'[d].seq \in Int
        BY <1>w, <4>1, <4>2 DEF Image
      <4> QED
        BY <1>1, <2>4, <4>1, <4>2, <4>3, <4>4, <4>5
    <3> QED
      BY <1>6, <2>1, <3>3, <3>4 DEF Known, Dead
  <2> QED
    BY <1>6, <2>2, <2>3, <2>4 DEF Known
<1>7. NewIsFresh
  BY <1>c DEF NewIsFresh
<1> QED
  BY <1>2, <1>3, <1>4, <1>5, <1>6, <1>7
  DEF Safe, ImageInv, DeadStays, KnownStays

(* A statement of c makes i of the image it sees. *)
LEMMA WriteSafe ==
    ASSUME TypeOK, ImageInv, NEW c \in Conns, NEW i, WriteImage(c, i),
           Follows(Visible(c), i, through'), through' \in Int, through <= through'
    PROVE  /\ Safe
           /\ disk' \in Image /\ hist' \subseteq Change /\ epoch' = epoch
           /\ trans' \in [Conns -> {"none", "read", "write"}]
           /\ view' \in [Conns -> Image] /\ saved' \in [Conns -> Image]
<1> DEFINE v == Visible(c)
<1>1. /\ CanWrite(c) /\ epoch' = epoch /\ saved' = saved
      /\ trans[c] = "none" =>
            /\ disk' = i /\ hist' = hist \cup i.changes
            /\ UNCHANGED <<trans, view>>
      /\ trans[c] # "none" =>
            /\ trans' = [trans EXCEPT ![c] = "write"]
            /\ view' = [view EXCEPT ![c] = i]
            /\ UNCHANGED <<disk, hist>>
  BY DEF WriteImage
<1>2. /\ v \in Image /\ WriteView(v, through)
      /\ \A d \in Conns : trans[d] = "write" => d = c
      /\ trans[c] # "write" => v = disk
      /\ trans[c] # "none" => /\ WriteView(saved[c], through)
                              /\ Since(saved[c], v, through)
                              /\ \A e \in saved[c].changes : Current(e)
  BY <1>1, WritesToNewest
<1>3. trans[c] = "write" => v = view[c]
  BY DEF Visible
<1> HIDE DEF v
<1>4. Follows(v, i, through')
  BY DEF v
<1>5. i \in Image /\ WriteView(i, through')
  BY <1>2, <1>4, FollowsWrites DEF Follows
<1>6. /\ v.seq \in Int /\ i.seq \in Int /\ disk.seq \in Int
      /\ \A e \in i.changes : e.rev \in Int
      /\ i.changes \subseteq Change /\ v.seq <= i.seq /\ disk.seq <= v.seq
  BY <1>2, <1>4, <1>5 DEF Image, Change, Revisions, TypeOK, Follows, WriteView
<1>7. \A d \in Conns : trans[d] = "write" => d = c /\ view[d].seq <= i.seq
  BY <1>2, <1>3, <1>6
<1>8. ASSUME NEW e \in i.changes
      PROVE  Current(e) \/ (Fresh(e) /\ e.epoch = epoch)
  <2>1. CASE e \in v.changes
    BY <1>2, <1>3, <2>1 DEF Current, ImageInv, DiskInv
  <2>2. CASE v.seq < e.rev /\ e.epoch = epoch
    BY <1>2, <1>3, <1>6, <2>2 DEF Fresh
  <2> QED
    BY <1>4, <2>1, <2>2 DEF Follows
<1>9. CASE trans[c] = "none"
  <2>1. \A d \in Conns : trans'[d] # "write"
    BY <1>1, <1>2, <1>9
  <2>2. \A d \in Conns : trans'[d] = "read" =>
            trans[d] = "read" /\ view'[d] = view[d] /\ saved'[d] = saved[d]
    BY <1>1, <1>9
  <2>3. Safe
    BY <1>1, <1>5, <1>7, <1>8, <1>9, <2>1, <2>2, Published
  <2> QED
    BY <1>1, <1>5, <1>6, <1>9, <2>3 DEF TypeOK
<1>10. CASE trans[c] # "none"
  <2>1. Since(saved[c], i, through')
    <3>1. /\ saved[c].seq \in Int /\ saved[c].changes \subseteq Change
          /\ \A e \in Change : e.rev \in Int
          /\ through \in Int
      BY DEF TypeOK, Image, Change, Revisions
    <3> QED
      BY <1>2, <1>4, <1>6, <1>10, <3>1 DEF Since, Follows
  <2>2. Safe
    BY <1>1, <1>2, <1>5, <1>7, <1>8, <1>10, <2>1, Staged
  <2> QED
    BY <1>1, <1>5, <1>10, <2>2 DEF TypeOK
<1> QED
  BY <1>9, <1>10

(* A step that leaves the subscriptions keeps FeedInv, if it is safe. *)
LEMMA SafeStep ==
    ASSUME FeedInv, Safe, TypeOK', UNCHANGED sub,
           \A s \in Subs : sub[s].live =>
               through' <= sub[s].base \/ through' <= sub[s].cursor
    PROVE  FeedInv'
<1>1. ASSUME NEW s \in Subs
      PROVE  SubInv(sub[s])'
  <2>1. PICK u \in Subscription : u = sub[s]
    BY DEF FeedInv, TypeOK
  <2>2. u.conn \in Conns
    BY DEF Subscription
  <2>3. SubInv(u)'
    BY <2>1, <2>2, SubStays DEF FeedInv, Safe
  <2>4. u = sub'[s]
    BY <2>1
  <2> QED
    BY <2>3, <2>4 DEF SubInv, LiveInv, PollInv, Ordered, Whole, Covered, Reached,
                      Concerns, RowsOf
<1> QED
  BY <1>1 DEF FeedInv, Safe

(* put and delete, in a transaction or in autocommit mode. *)
LEMMA MutateSafe ==
    ASSUME FeedInv, NEW c \in Conns, NEW store \in Stores, Mutate(c, store)
    PROVE  FeedInv'
<1> DEFINE v == Visible(c)
           row == [rev |-> v.seq + 1, store |-> store, epoch |-> epoch]
           i == [seq |-> row.rev, changes |-> v.changes \cup {row}]
<1>1. /\ v.seq < MaxRevision /\ WriteImage(c, i) /\ UNCHANGED <<through, sub>>
  BY DEF Mutate
<1>2. TypeOK /\ ImageInv
  BY DEF FeedInv
<1>3. v \in Image /\ WriteView(v, through)
  BY <1>1, <1>2, WritesToNewest DEF WriteImage
<1> HIDE DEF v
<1>4. /\ v.seq \in Nat /\ v.changes \subseteq Change /\ through \in Int
      /\ epoch \in 0..MaxEpoch /\ MaxRevision \in Nat
  BY <1>2, <1>3, ChangeFeedAssumption DEF Image, TypeOK
<1>5. row \in Change /\ row.rev = v.seq + 1 /\ row.epoch = epoch
  BY <1>1, <1>4 DEF Change, Revisions
<1> HIDE DEF row
<1>6. i \in Image /\ i.seq = v.seq + 1 /\ i.changes = v.changes \cup {row}
  BY <1>1, <1>4, <1>5 DEF Image
<1> HIDE DEF i
<1>7. IsFiniteSet(i.changes)
  BY <1>3, <1>6, FS_AddElement DEF WriteView
<1>8. \A e \in v.changes : e.rev <= v.seq /\ e.rev \in Int
  BY <1>3, <1>4 DEF WriteView, Change, Revisions
<1>9. Distinct(i.changes)
  BY <1>3, <1>4, <1>5, <1>6, <1>8 DEF WriteView, Distinct
<1>10. Follows(v, i, through')
  BY <1>4, <1>5, <1>6, <1>7, <1>9 DEF Follows
<1>11. /\ Safe
       /\ disk' \in Image /\ hist' \subseteq Change /\ epoch' = epoch
       /\ trans' \in [Conns -> {"none", "read", "write"}]
       /\ view' \in [Conns -> Image] /\ saved' \in [Conns -> Image]
  <2>1. Follows(Visible(c), i, through')
    BY <1>10 DEF v
  <2>2. through' \in Int /\ through <= through'
    BY <1>1, <1>4
  <2> QED
    BY <1>1, <1>2, <2>1, <2>2, WriteSafe
<1>12. TypeOK'
  BY <1>1, <1>2, <1>11 DEF TypeOK
<1>13. \A s \in Subs : sub[s].live =>
           through' <= sub[s].base \/ through' <= sub[s].cursor
  BY <1>1 DEF FeedInv, SubInv, LiveInv
<1> QED
  BY <1>1, <1>11, <1>12, <1>13, SafeStep

(* A prune removes only rows that every live subscription is past. *)
LEMMA PruneSafe ==
    ASSUME FeedInv, NEW c \in Conns, NEW r \in Revisions, Prune(c, r)
    PROVE  FeedInv'
<1> DEFINE v == Visible(c)
           i == [v EXCEPT !.changes = {e \in @ : e.rev > r}]
<1>1. /\ WriteImage(c, i) /\ sub' = sub
      /\ through' = IF r > through THEN r ELSE through
      /\ \A s \in Subs : sub[s].live => r <= sub[s].cursor
  BY DEF Prune
<1>2. TypeOK /\ ImageInv
  BY DEF FeedInv
<1>3. v \in Image /\ WriteView(v, through)
  BY <1>1, <1>2, WritesToNewest DEF WriteImage
<1> HIDE DEF v
<1>4. /\ v.seq \in Nat /\ v.changes \subseteq Change /\ through \in 0..MaxRevision
      /\ r \in 1..MaxRevision /\ MaxRevision \in Nat
  BY <1>2, <1>3, ChangeFeedAssumption DEF Image, TypeOK, Revisions
<1>5. i \in Image /\ i.seq = v.seq /\ i.changes = {e \in v.changes : e.rev > r}
  BY <1>3, <1>4 DEF Image
<1> HIDE DEF i
<1>6. IsFiniteSet(i.changes)
  BY <1>3, <1>5, FS_Subset DEF WriteView
<1>7. /\ through' \in 0..MaxRevision /\ through <= through' /\ r <= through'
  BY <1>1, <1>4
<1>8. \A e \in v.changes : e.rev \in Int
  BY <1>4 DEF Change, Revisions
<1>9. Follows(v, i, through')
  <2>1. \A e \in v.changes : through' < e.rev => e \in i.changes
    BY <1>4, <1>5, <1>7, <1>8
  <2>2. Distinct(i.changes)
    BY <1>3, <1>5 DEF WriteView, Distinct
  <2> QED
    BY <1>4, <1>5, <1>6, <2>1, <2>2 DEF Follows
<1>10. /\ Safe
       /\ disk' \in Image /\ hist' \subseteq Change /\ epoch' = epoch
       /\ trans' \in [Conns -> {"none", "read", "write"}]
       /\ view' \in [Conns -> Image] /\ saved' \in [Conns -> Image]
  <2>1. Follows(Visible(c), i, through')
    BY <1>9 DEF v
  <2> QED
    BY <1>1, <1>2, <1>7, <2>1, WriteSafe
<1>11. TypeOK'
  BY <1>1, <1>2, <1>7, <1>10 DEF TypeOK
<1>12. \A s \in Subs : sub[s].live =>
           through' <= sub[s].base \/ through' <= sub[s].cursor
  BY <1>1 DEF FeedInv, SubInv, LiveInv
<1> QED
  BY <1>1, <1>10, <1>11, <1>12, SafeStep

(* What Quiet asks of a connection the step is not about. *)
Kept(d) ==
    trans'[d] = trans[d] /\ view'[d] = view[d] /\ saved'[d] = saved[d]

LEMMA KeptOK ==
    ASSUME TypeOK, ImageInv, NEW d \in Conns, Kept(d)
    PROVE  /\ trans'[d] = "read" =>
                 saved'[d] = view'[d] /\ trans[d] = "read" /\ view'[d] = view[d]
           /\ trans'[d] = "write" =>
                 /\ trans[d] = "write"
                 /\ view'[d] \in {view[d], saved[d]}
                 /\ saved'[d] \in {view[d], saved[d]}
                 /\ Since(saved'[d], view'[d], through)
                 /\ view[d].seq <= view'[d].seq
<1>1. view[d].seq \in Int
  BY DEF TypeOK, Image
<1> QED
  BY <1>1 DEF Kept, ImageInv, ViewInv

(* A read transaction takes the committed image. *)
LEMMA BeginSafe ==
    ASSUME FeedInv, NEW c \in Conns, Begin(c)
    PROVE  FeedInv'
<1>1. /\ trans[c] = "none" /\ trans' = [trans EXCEPT ![c] = "read"]
      /\ view' = [view EXCEPT ![c] = disk] /\ saved' = [saved EXCEPT ![c] = disk]
      /\ UNCHANGED <<disk, epoch, hist, through, sub>>
  BY DEF Begin
<1>2. TypeOK /\ ImageInv
  BY DEF FeedInv
<1>3. /\ trans'[c] = "read" /\ view'[c] = disk /\ saved'[c] = disk
      /\ \A d \in Conns \ {c} :
            trans'[d] = trans[d] /\ view'[d] = view[d] /\ saved'[d] = saved[d]
  BY <1>1, <1>2 DEF TypeOK
<1>4. TypeOK'
  BY <1>1, <1>2 DEF TypeOK
<1>5. Safe
  <2>1. \A d \in Conns \ {c} : Kept(d)
    BY <1>3 DEF Kept
  <2>2. \A d \in Conns : trans'[d] = "read" =>
            /\ saved'[d] = view'[d]
            /\ view'[d] = disk \/ (trans[d] = "read" /\ view'[d] = view[d])
    BY <1>2, <1>3, <2>1, KeptOK
  <2>3. \A d \in Conns : trans'[d] = "write" => d # c
    BY <1>3
  <2>4. \A d \in Conns : trans[d] = "write" => trans'[d] = "write"
    BY <1>1, <1>3
  <2> QED
    BY <1>1, <1>2, <2>1, <2>2, <2>3, <2>4, KeptOK, Quiet
<1>6. \A s \in Subs : sub[s].live =>
          through' <= sub[s].base \/ through' <= sub[s].cursor
  BY <1>1 DEF FeedInv, SubInv, LiveInv
<1> QED
  BY <1>1, <1>4, <1>5, <1>6, SafeStep

(* The writer's image becomes the committed one. *)
LEMMA CommitSafe ==
    ASSUME FeedInv, NEW c \in Conns, Commit(c)
    PROVE  FeedInv'
<1>1. /\ trans[c] # "none"
      /\ disk' = IF trans[c] = "write" THEN view[c] ELSE disk
      /\ hist' = hist \cup disk'.changes
      /\ trans' = [trans EXCEPT ![c] = "none"]
      /\ view' = [view EXCEPT ![c] = EmptyImage]
      /\ saved' = [saved EXCEPT ![c] = EmptyImage]
      /\ UNCHANGED <<epoch, through, sub>>
  BY DEF Commit
<1>2. TypeOK /\ ImageInv
  BY DEF FeedInv
<1>3. trans'[c] = "none" /\ \A d \in Conns \ {c} : Kept(d)
  BY <1>1, <1>2 DEF TypeOK, Kept
<1>4. disk' \in Image /\ disk'.changes \subseteq Change
  BY <1>1, <1>2 DEF TypeOK, Image
<1>5. TypeOK'
  <2>1. EmptyImage \in Image
    BY ChangeFeedAssumption DEF EmptyImage, Image
  <2> QED
    BY <1>1, <1>2, <1>4, <2>1 DEF TypeOK
<1>6. Safe
  <2>1. CASE trans[c] = "write"
    <3>1. PICK i \in Image : i = view[c] /\ i = disk' /\ i.seq \in Int
      BY <1>1, <1>4, <2>1 DEF Image
    <3>2. WriteView(i, through') /\ through' \in Int /\ through <= through'
      BY <1>1, <1>2, <2>1, <3>1 DEF ImageInv, ViewInv, TypeOK
    <3>3. \A d \in Conns : trans[d] = "write" => d = c
      BY <1>2, <2>1 DEF ImageInv, OneWriter
    <3>4. \A d \in Conns : trans[d] = "write" => d = c /\ view[d].seq <= i.seq
      <4>1. view[c].seq <= i.seq
        BY <3>1
      <4> QED
        BY <3>3, <4>1
    <3>5. \A e \in i.changes : Current(e) \/ (Fresh(e) /\ e.epoch = epoch)
      BY <2>1, <3>1 DEF Current
    <3>6. \A d \in Conns : trans'[d] # "write"
      BY <1>3, <3>3 DEF Kept
    <3>7. \A d \in Conns : trans'[d] = "read" =>
              trans[d] = "read" /\ view'[d] = view[d] /\ saved'[d] = saved[d]
      BY <1>3 DEF Kept
    <3>8. hist' = hist \cup i.changes /\ epoch' = epoch
      BY <1>1, <3>1
    <3> QED
      BY <1>2, <3>1, <3>2, <3>4, <3>5, <3>6, <3>7, <3>8, Published
  <2>2. CASE trans[c] # "write"
    <3>1. UNCHANGED <<disk, hist, through>> /\ epoch' = epoch
      BY <1>1, <1>2, <2>2 DEF ImageInv, DiskInv
    <3>2. \A d \in Conns : trans'[d] # "none" => d # c
      BY <1>3
    <3>3. \A d \in Conns : trans[d] = "write" => trans'[d] = "write"
      BY <1>3, <2>2 DEF Kept
    <3> QED
      BY <1>2, <1>3, <3>1, <3>2, <3>3, KeptOK, Quiet
  <2> QED
    BY <2>1, <2>2
<1>7. \A s \in Subs : sub[s].live =>
          through' <= sub[s].base \/ through' <= sub[s].cursor
  BY <1>1 DEF FeedInv, SubInv, LiveInv
<1> QED
  BY <1>1, <1>5, <1>6, <1>7, SafeStep

(* A transaction that is given up. *)
LEMMA AbandonSafe ==
    ASSUME TypeOK, ImageInv, NEW c \in Conns, Abandon(c), UNCHANGED <<hist, through>>
    PROVE  /\ Safe
           /\ disk' \in Image /\ epoch' \in 0..MaxEpoch
           /\ trans' \in [Conns -> {"none", "read", "write"}]
           /\ view' \in [Conns -> Image] /\ saved' \in [Conns -> Image]
<1>1. /\ disk' = disk /\ trans' = [trans EXCEPT ![c] = "none"]
      /\ view' = [view EXCEPT ![c] = EmptyImage]
      /\ saved' = [saved EXCEPT ![c] = EmptyImage]
      /\ IF trans[c] = "write" /\ view[c].seq > disk.seq
         THEN epoch < MaxEpoch /\ epoch' = epoch + 1 ELSE epoch' = epoch
  <2>1. disk.seq \in Int
    BY DEF TypeOK, Image
  <2> QED
    BY <2>1 DEF Abandon, Reuses
<1>2. trans'[c] = "none" /\ \A d \in Conns \ {c} : Kept(d)
  BY <1>1 DEF TypeOK, Kept
<1>3. EmptyImage \in Image
  BY ChangeFeedAssumption DEF EmptyImage, Image
<1>4. epoch' \in 0..MaxEpoch /\ (epoch' = epoch \/ epoch' = epoch + 1)
  BY <1>1, ChangeFeedAssumption DEF TypeOK
<1>7. \A d \in Conns : trans'[d] # "none" => d # c
  BY <1>2
<1>8. \A d \in Conns : trans[d] = "write" /\ trans'[d] # "write" =>
          view[d].seq <= disk.seq \/ epoch' = epoch + 1
  <2>1. view[c].seq \in Int /\ disk.seq \in Int
    BY DEF TypeOK, Image
  <2> QED
    BY <1>1, <1>2, <2>1 DEF Kept
<1>9. Safe
  BY <1>1, <1>2, <1>4, <1>7, <1>8, KeptOK, Quiet
<1> QED
  BY <1>1, <1>3, <1>4, <1>9 DEF TypeOK

(* The rows of the writer are dead. *)
LEMMA RollbackSafe ==
    ASSUME FeedInv, NEW c \in Conns, Rollback(c)
    PROVE  FeedInv'
<1>1. Abandon(c) /\ UNCHANGED <<hist, through, sub>>
  BY DEF Rollback
<1>2. TypeOK /\ ImageInv
  BY DEF FeedInv
<1>3. /\ Safe
      /\ disk' \in Image /\ epoch' \in 0..MaxEpoch
      /\ trans' \in [Conns -> {"none", "read", "write"}]
      /\ view' \in [Conns -> Image] /\ saved' \in [Conns -> Image]
  BY <1>1, <1>2, AbandonSafe
<1>4. TypeOK'
  BY <1>1, <1>2, <1>3 DEF TypeOK
<1>5. \A s \in Subs : sub[s].live =>
          through' <= sub[s].base \/ through' <= sub[s].cursor
  BY <1>1 DEF FeedInv, SubInv, LiveInv
<1> QED
  BY <1>1, <1>3, <1>4, <1>5, SafeStep

(* A savepoint is set, or gone back to. *)
LEMMA SavepointSafe ==
    ASSUME FeedInv, NEW c \in Conns, Savepoint(c) \/ RollbackTo(c)
    PROVE  FeedInv'
<1>1. TypeOK /\ ImageInv
  BY DEF FeedInv
<1>2. PICK v \in Image, w \in Image : v = view[c] /\ w = saved[c]
  BY <1>1 DEF TypeOK
<1>3. /\ UNCHANGED <<disk, trans, hist, through, sub>> /\ trans[c] # "none"
      /\ epoch' \in 0..MaxEpoch
      /\ \/ view' = view /\ saved' = [saved EXCEPT ![c] = v] /\ epoch' = epoch
         \/ /\ view' = [view EXCEPT ![c] = w] /\ saved' = saved
            /\ epoch' = IF v.seq > w.seq THEN epoch + 1 ELSE epoch
  BY <1>1, <1>2, ChangeFeedAssumption DEF Savepoint, RollbackTo, Reuses, TypeOK
<1>4. \A d \in Conns \ {c} : Kept(d)
  BY <1>1, <1>3 DEF Kept, TypeOK
<1>5. \/ view'[c] = v /\ saved'[c] = v /\ epoch' = epoch
      \/ /\ view'[c] = w /\ saved'[c] = w
         /\ epoch' = IF v.seq > w.seq THEN epoch + 1 ELSE epoch
  BY <1>1, <1>2, <1>3 DEF TypeOK
<1>6. v.seq \in Int /\ w.seq \in Int /\ epoch \in Int
  BY <1>1 DEF Image, TypeOK
<1>7. Since(view'[c], view'[c], through)
  BY <1>5, <1>6 DEF Since
<1>8. trans[c] = "write" =>
          /\ view'[c] \in {view[c], saved[c]} /\ saved'[c] \in {view[c], saved[c]}
          /\ Since(saved'[c], view'[c], through)
          /\ view[c].seq <= view'[c].seq \/ epoch' = epoch + 1
  BY <1>2, <1>5, <1>6, <1>7
<1>9. trans[c] = "read" => saved'[c] = view'[c] /\ view'[c] = view[c]
  BY <1>1, <1>2, <1>5 DEF ImageInv, ViewInv
<1>10. epoch' = epoch \/ epoch' = epoch + 1
  BY <1>5
<1>11. Safe
  <2>1. \A d \in Conns : trans'[d] = "write" =>
            /\ trans[d] = "write"
            /\ view'[d] \in {view[d], saved[d]} /\ saved'[d] \in {view[d], saved[d]}
            /\ Since(saved'[d], view'[d], through)
            /\ view[d].seq <= view'[d].seq \/ epoch' = epoch + 1
    BY <1>1, <1>3, <1>4, <1>8, KeptOK
  <2>2. \A d \in Conns : trans'[d] = "read" =>
            /\ saved'[d] = view'[d]
            /\ view'[d] = disk \/ (trans[d] = "read" /\ view'[d] = view[d])
    BY <1>1, <1>3, <1>4, <1>9, KeptOK
  <2>3. UNCHANGED <<disk, hist, through, trans>>
    BY <1>3
  <2> QED
    BY <1>1, <1>10, <2>1, <2>2, <2>3, Quiet
<1>12. TypeOK'
  BY <1>1, <1>2, <1>3 DEF TypeOK
<1>13. \A s \in Subs : sub[s].live =>
           through' <= sub[s].base \/ through' <= sub[s].cursor
  BY <1>3 DEF FeedInv, SubInv, LiveInv
<1> QED
  BY <1>3, <1>11, <1>12, <1>13, SafeStep

-----------------------------------------------------------------------------
(* Steps of the subscribers.                                               *)

(* A free slot. *)
LEMMA UnsubscribedOK == Unsubscribed \in Subscription /\ SubInv(Unsubscribed)
<1>1. (CHOOSE c \in Conns : TRUE) \in Conns
  BY ChangeFeedAssumption
<1>2. (CHOOSE f \in Filters : TRUE) \in Filters
  BY ChangeFeedAssumption
<1>3. Unsubscribed \in Subscription
  BY <1>1, <1>2, ChangeFeedAssumption DEF Unsubscribed, Subscription
<1>4. ~Unsubscribed.live
  BY DEF Unsubscribed
<1> QED
  BY <1>3, <1>4 DEF SubInv

(* The invariant of a subscription is about it and the images. *)
LEMMA SubInvStays ==
    ASSUME NEW u, SubInv(u), UNCHANGED <<disk, trans, view, saved, epoch, hist, through>>
    PROVE  SubInv(u)'
<1>1. \A p : (Dead(p)' <=> Dead(p)) /\ (Current(p)' <=> Current(p))
  BY DEF Dead, Current
<1>2. \A c, p : Known(c, p)' <=> Known(c, p)
  BY <1>1 DEF Known, Own
<1>3. \A e : Concerns(u, e)' <=> Concerns(u, e)
  BY <1>1 DEF Concerns
<1>4. \A upto, rows : Covered(u, upto, rows)' <=> Covered(u, upto, rows)
  BY <1>1, <1>3 DEF Covered
<1>5. Whole(u)' <=> Whole(u)
  BY <1>1, <1>3 DEF Whole
<1>6. LiveInv(u)' <=> LiveInv(u)
  BY <1>2, <1>4, <1>5 DEF LiveInv, PollInv, Ordered, Reached, RowsOf
<1> QED
  BY <1>6 DEF SubInv

(* One subscription becomes u. *)
LEMMA SubStep ==
    ASSUME FeedInv, NEW s \in Subs, NEW u \in Subscription, SubInv(u),
           sub' = [sub EXCEPT ![s] = u],
           UNCHANGED <<disk, trans, view, saved, epoch, hist, through>>
    PROVE  FeedInv'
<1>1. TypeOK'
  BY DEF FeedInv, TypeOK
<1>2. ImageInv'
  BY DEF FeedInv, ImageInv, DiskInv, ViewInv, OneWriter, ReadView, WriteView, Distinct, Since
<1>3. ASSUME NEW t \in Subs
      PROVE  SubInv(sub[t])'
  <2>1. PICK w : w = sub'[t] /\ SubInv(w)
    BY DEF FeedInv, TypeOK
  <2>2. SubInv(w)'
    BY <2>1, SubInvStays
  <2> QED
    BY <2>1, <2>2 DEF SubInv, LiveInv, PollInv, Ordered, Whole, Covered, Reached,
                      Concerns, RowsOf
<1> QED
  BY <1>1, <1>2, <1>3 DEF FeedInv

(* A new subscription begins at its base, or where the journal begins. *)
LEMMA SubscribeSafe ==
    ASSUME FeedInv, NEW c \in Conns, NEW s \in Subs, NEW f \in Filters,
           NEW after \in 0..MaxRevision, Subscribe(c, s, f, after)
    PROVE  FeedInv'
<1> DEFINE from == IF through > after THEN through ELSE after
           u == [Unsubscribed EXCEPT !.live = TRUE, !.conn = c, !.filter = f,
                                     !.cursor = after, !.base = from]
<1>1. /\ sub' = [sub EXCEPT ![s] = u]
      /\ UNCHANGED <<disk, trans, view, saved, epoch, hist, through>>
  BY DEF Subscribe
<1>2. from \in 0..MaxRevision /\ after <= from /\ through <= from
  BY ChangeFeedAssumption DEF FeedInv, TypeOK
<1> HIDE DEF from
<1>3. /\ u \in Subscription /\ u.live /\ ~u.polling
      /\ u.cursor <= u.base /\ through <= u.base
      /\ u.seen = {} /\ u.batch = {} /\ u.pending = {}
  <2>1. u \in Subscription
    BY <1>2, UnsubscribedOK DEF Subscription
  <2>2. /\ u.live /\ ~u.polling /\ u.cursor = after /\ u.base = from
        /\ u.seen = {} /\ u.batch = {} /\ u.pending = {}
    BY DEF Unsubscribed
  <2> QED
    BY <1>2, <2>1, <2>2
<1> HIDE DEF u
<1>4. Covered(u, u.cursor, u.seen)
  <2>1. \A e \in Change : ~(u.base < e.rev /\ e.rev <= u.cursor)
    BY <1>3 DEF Subscription, Change, Revisions
  <2> QED
    BY <2>1 DEF Covered, Concerns
<1>5. SubInv(u)
  BY <1>3, <1>4 DEF SubInv, LiveInv, Reached, RowsOf
<1> QED
  BY <1>1, <1>3, <1>5, SubStep

(* A destroyed subscription is a free slot. *)
LEMMA DestroySafe ==
    ASSUME FeedInv, NEW s \in Subs, Destroy(s)
    PROVE  FeedInv'
BY UnsubscribedOK, SubStep DEF Destroy

(* The transaction of c is gone, and its subscriptions. *)
LEMMA CrashSafe ==
    ASSUME FeedInv, NEW c \in Conns, Crash(c)
    PROVE  FeedInv'
<1>1. /\ UNCHANGED <<hist, through>>
      /\ sub' = [s \in Subs |-> IF sub[s].live /\ sub[s].conn = c
                                THEN Unsubscribed ELSE sub[s]]
  BY DEF Crash
<1>2. TypeOK /\ ImageInv
  BY DEF FeedInv
<1>3. /\ Safe
      /\ disk' \in Image /\ epoch' \in 0..MaxEpoch
      /\ trans' \in [Conns -> {"none", "read", "write"}]
      /\ view' \in [Conns -> Image] /\ saved' \in [Conns -> Image]
  <2>1. CASE Abandon(c)
    BY <1>1, <1>2, <2>1, AbandonSafe
  <2>2. CASE UNCHANGED <<disk, trans, view, saved, epoch>>
    <3>1. \A d \in Conns : Kept(d)
      BY <2>2 DEF Kept
    <3>2. Safe
      BY <1>1, <1>2, <2>2, <3>1, KeptOK, Quiet DEF Kept
    <3> QED
      BY <1>2, <2>2, <3>2 DEF TypeOK
  <2> QED
    BY <2>1, <2>2 DEF Crash
<1>4. TypeOK'
  BY <1>1, <1>2, <1>3, UnsubscribedOK DEF TypeOK
<1>5. ASSUME NEW s \in Subs
      PROVE  SubInv(sub[s])'
  <2>1. PICK u \in Subscription : u = sub'[s] /\ (u = Unsubscribed \/ u = sub[s])
    BY <1>1, <1>4 DEF TypeOK
  <2>2. SubInv(u)'
    <3>1. CASE u = Unsubscribed
      BY <3>1 DEF SubInv, Unsubscribed
    <3>2. CASE u = sub[s]
      <4>1. u.conn \in Conns
        BY DEF Subscription
      <4>2. SubInv(u) /\ (u.live => through' <= u.base \/ through' <= u.cursor)
        BY <1>1, <3>2 DEF FeedInv, SubInv, LiveInv
      <4> QED
        BY <1>2, <1>3, <4>1, <4>2, SubStays DEF Safe
    <3> QED
      BY <2>1, <3>1, <3>2
  <2> QED
    BY <2>1, <2>2 DEF SubInv, LiveInv, PollInv, Ordered, Whole, Covered, Reached,
                      Concerns, RowsOf
<1> QED
  BY <1>3, <1>4, <1>5 DEF FeedInv, Safe

(* A poll returns: its position becomes the cursor, or nothing changes. *)
LEMMA FinishedOK ==
    ASSUME TypeOK, NEW u \in Subscription, u.live, u.polling, LiveInv(u),
           NEW ok \in BOOLEAN
    PROVE  /\ Finished(u, ok) \in Subscription
           /\ SubInv(Finished(u, ok))
<1> DEFINE w == Finished(u, ok)
<1>1. /\ w \in Subscription /\ w.live /\ ~w.polling /\ w.conn = u.conn
      /\ w.filter = u.filter /\ w.base = u.base
      /\ w.pending = {} /\ w.batch = {}
      /\ ok => w.cursor = u.last /\ w.seen = u.seen \cup u.batch
      /\ ~ok => w.cursor = u.cursor /\ w.seen = u.seen
  <2>1. u.last \in 0..MaxRevision /\ 0 \in 0..MaxRevision
    BY ChangeFeedAssumption DEF Subscription
  <2> QED
    BY <2>1 DEF Finished, Subscription
<1> HIDE DEF w
<1>2. PollInv(u)
  BY DEF LiveInv
<1>3. /\ u.cursor \in Int /\ u.last \in Int /\ through \in Int /\ u.cursor <= u.last
      /\ u.seen \subseteq Change /\ u.batch \subseteq Change
      /\ \A e \in Change : e.rev \in Int
  BY <1>2 DEF Subscription, TypeOK, PollInv, Ordered, Change, Revisions
<1>4. \A p \in RowsOf(w) : Known(w.conn, p)
  BY <1>1 DEF RowsOf, LiveInv
<1>5. CASE ok
  <2>1. through <= w.base \/ through <= w.cursor
    BY <1>1, <1>3, <1>5 DEF LiveInv
  <2>2. \A e \in w.seen : e.rev <= w.cursor
    BY <1>1, <1>2, <1>3, <1>5 DEF LiveInv, PollInv, Ordered
  <2>3. Reached(w, w.cursor, w.seen)
    BY <1>1, <1>2, <1>5 DEF PollInv, Reached
  <2>4. Covered(w, w.cursor, w.seen)
    BY <1>1, <1>2, <1>5 DEF PollInv, Covered, Concerns
  <2> QED
    BY <1>1, <1>4, <2>1, <2>2, <2>3, <2>4 DEF w, SubInv, LiveInv
<1>6. CASE ~ok
  <2>1. Reached(w, w.cursor, w.seen) /\ Covered(w, w.cursor, w.seen)
    BY <1>1, <1>6 DEF LiveInv, Reached, Covered, Concerns
  <2> QED
    BY <1>1, <1>4, <1>6, <2>1 DEF w, SubInv, LiveInv
<1> QED
  BY <1>5, <1>6

(* The next row is called back. *)
LEMMA AdvanceOK ==
    ASSUME TypeOK, ImageInv, NEW u \in Subscription, u.live, u.polling, LiveInv(u),
           NEW e \in u.pending, \A f \in u.pending : e.rev <= f.rev
    PROVE  LET v == [u EXCEPT !.pending = @ \ {e}, !.batch = @ \cup {e},
                              !.last = e.rev]
           IN  v \in Subscription /\ v.live /\ v.polling /\ LiveInv(v)
<1> DEFINE v == [u EXCEPT !.pending = @ \ {e}, !.batch = @ \cup {e}, !.last = e.rev]
<1>1. /\ e \in Change /\ e.rev \in 0..MaxRevision
      /\ \A f \in Change : f.rev \in Int
      /\ u.cursor \in Int /\ u.last \in Int
      /\ u.pending \subseteq Change
  BY DEF Subscription, Change, Revisions
<1>2. /\ v \in Subscription /\ v.live /\ v.polling /\ v.conn = u.conn
      /\ v.filter = u.filter /\ v.base = u.base /\ v.cursor = u.cursor
      /\ v.seen = u.seen /\ v.pending = u.pending \ {e}
      /\ v.batch = u.batch \cup {e} /\ v.last = e.rev
  BY <1>1 DEF Subscription
<1> HIDE DEF v
<1>3. PollInv(u)
  BY DEF LiveInv
<1>4. RowsOf(v) = RowsOf(u)
  BY <1>2 DEF RowsOf
<1>5. \A f \in v.pending : f \in u.pending /\ e.rev < f.rev
  BY <1>1, <1>2, <1>3 DEF PollInv, Ordered, Distinct
<1>6. u.last < e.rev
  BY <1>3 DEF PollInv, Ordered
<1>7. Ordered(v)
  BY <1>1, <1>2, <1>3, <1>5, <1>6 DEF PollInv, Ordered, Distinct, Subscription
<1>8. \A g : Concerns(v, g) <=> Concerns(u, g)
  BY <1>2 DEF Concerns
<1>9. Whole(v)
  <2>1. SUFFICES ASSUME NEW f \in v.pending, ~Dead(f), NEW g \in Change,
                        Concerns(v, g), e.rev < g.rev, g.rev <= f.rev
                 PROVE  g \in v.pending
    BY <1>2 DEF Whole
  <2>2. u.last < g.rev
    BY <1>1, <1>6, <2>1
  <2>3. g \in u.pending
    BY <1>3, <1>5, <1>8, <2>1, <2>2 DEF PollInv, Whole
  <2> QED
    BY <1>1, <1>2, <2>1, <2>3
<1>10. Reached(v, v.last, v.seen \cup v.batch)
  BY <1>2 DEF Reached
<1>11. Covered(v, v.last, v.seen \cup v.batch)
  <2>1. SUFFICES ASSUME NEW g \in Change, Concerns(u, g), g.rev <= e.rev,
                        g \notin u.seen \cup u.batch, g # e
                 PROVE  \E p \in u.seen \cup u.batch \cup {e} :
                            Dead(p) /\ p.rev >= g.rev
    BY <1>2, <1>8 DEF Covered
  <2>2. CASE g.rev <= u.last
    BY <1>3, <2>1, <2>2 DEF PollInv, Covered
  <2>3. CASE Dead(e)
    BY <1>1, <2>1, <2>3
  <2>4. CASE u.last < g.rev /\ ~Dead(e)
    <3>1. g \in u.pending
      BY <1>3, <2>1, <2>4 DEF PollInv, Whole
    <3>2. g.rev = e.rev
      BY <1>1, <2>1, <3>1
    <3> QED
      BY <1>3, <2>1, <3>1, <3>2 DEF PollInv, Ordered, Distinct
  <2> QED
    BY <1>1, <2>2, <2>3, <2>4
<1>12. LiveInv(v)
  <2>1. Reached(v, v.cursor, v.seen) /\ Covered(v, v.cursor, v.seen)
    BY <1>2, <1>8 DEF LiveInv, Reached, Covered
  <2>2. PollInv(v)
    BY <1>7, <1>9, <1>10, <1>11 DEF PollInv
  <2> QED
    BY <1>2, <1>4, <2>1, <2>2 DEF LiveInv
<1> QED
  BY <1>2, <1>12 DEF v

(* A callback answers: go on, stop, or fail. *)
LEMMA DeliverSafe ==
    ASSUME FeedInv, NEW s \in Subs, NEW answer \in Answers, Deliver(s, answer)
    PROVE  FeedInv'
<1>1. PICK u \in Subscription : u = sub[s]
  BY DEF FeedInv, TypeOK
<1>2. PICK e \in u.pending :
          /\ \A f \in u.pending : e.rev <= f.rev
          /\ sub' = [sub EXCEPT ![s] = CalledBack(u, e, answer)]
  BY <1>1 DEF Deliver
<1>3. TypeOK /\ ImageInv /\ u.polling
      /\ UNCHANGED <<disk, trans, view, saved, epoch, hist, through>>
  BY <1>1 DEF FeedInv, Deliver
<1>4. u.live /\ LiveInv(u)
  <2>1. ~Unsubscribed.polling
    BY DEF Unsubscribed
  <2> QED
    BY <1>1, <1>3, <2>1 DEF FeedInv, SubInv
<1> DEFINE v == [u EXCEPT !.pending = @ \ {e}, !.batch = @ \cup {e}, !.last = e.rev]
<1>5. v \in Subscription /\ v.live /\ v.polling /\ LiveInv(v)
  BY <1>2, <1>3, <1>4, AdvanceOK
<1>6. CalledBack(u, e, answer) =
          IF answer = "continue" THEN v ELSE Finished(v, answer = "stop")
  BY DEF CalledBack
<1> HIDE DEF v
<1>7. CalledBack(u, e, answer) \in Subscription /\ SubInv(CalledBack(u, e, answer))
  <2>1. CASE answer = "continue"
    BY <1>5, <1>6, <2>1 DEF SubInv
  <2>2. CASE answer # "continue"
    <3>1. (answer = "stop") \in BOOLEAN
      OBVIOUS
    <3> QED
      BY <1>3, <1>5, <1>6, <2>2, <3>1, FinishedOK
  <2> QED
    BY <2>1, <2>2
<1> QED
  BY <1>2, <1>3, <1>7, SubStep

(* A poll has called back all of its snapshot. *)
LEMMA PollReturnSafe ==
    ASSUME FeedInv, NEW s \in Subs, PollReturn(s)
    PROVE  FeedInv'
<1>1. PICK u \in Subscription : u = sub[s]
  BY DEF FeedInv, TypeOK
<1>2. /\ sub' = [sub EXCEPT ![s] = Finished(u, TRUE)] /\ u.polling
      /\ UNCHANGED <<disk, trans, view, saved, epoch, hist, through>>
  BY <1>1 DEF PollReturn
<1>3. TypeOK /\ u.live /\ LiveInv(u)
  <2>1. ~Unsubscribed.polling
    BY DEF Unsubscribed
  <2> QED
    BY <1>1, <1>2, <2>1 DEF FeedInv, SubInv
<1>4. Finished(u, TRUE) \in Subscription /\ SubInv(Finished(u, TRUE))
  BY <1>2, <1>3, FinishedOK
<1> QED
  BY <1>2, <1>4, SubStep

(* The image a poll sees is distinct and known, and has every current row  *)
(* up to its end that was not pruned.                                      *)
LEMMA SnapshotOK ==
    ASSUME TypeOK, ImageInv, NEW c \in Conns
    PROVE  /\ Visible(c) \in Image
           /\ IsFiniteSet(Visible(c).changes) /\ Distinct(Visible(c).changes)
           /\ \A p \in Visible(c).changes : Known(c, p)
           /\ \A f \in Visible(c).changes, e \in Change :
                 Current(e) /\ through < e.rev /\ e.rev <= f.rev =>
                     e \in Visible(c).changes
<1> DEFINE i == Visible(c)
<1>1. /\ disk \in Image /\ view[c] \in Image /\ disk.seq \in Int
      /\ view[c].seq \in Int /\ hist \subseteq Change
      /\ \A e \in Change : e.rev \in Int /\ e.epoch \in Int
      /\ trans[c] \in {"none", "read", "write"} /\ epoch \in Int
  BY DEF TypeOK, Image, Change, Revisions
<1>2. i \in Image /\ i.changes \subseteq Change
  BY <1>1 DEF Visible, Image
<1>3. ASSUME NEW e \in Change, Current(e), e.rev <= disk.seq
      PROVE  e \in hist
  <2>1. SUFFICES ASSUME NEW d \in Conns, trans[d] = "write",
                        e \in view[d].changes \cup saved[d].changes
                 PROVE  e \in hist
    BY <1>3 DEF Current
  <2>2. WriteView(view[d], through) /\ WriteView(saved[d], through)
    BY <2>1 DEF ImageInv, ViewInv
  <2> QED
    BY <1>1, <1>3, <2>1, <2>2 DEF WriteView
<1>4. CASE trans[c] # "write"
  <2>1. /\ IsFiniteSet(i.changes) /\ i.changes \subseteq hist
        /\ \A e \in hist, f \in i.changes :
              through < e.rev /\ e.rev <= f.rev => e \in i.changes
    <3>1. CASE trans[c] = "none"
      BY <3>1 DEF Visible, ImageInv, DiskInv
    <3>2. CASE trans[c] = "read"
      <4>1. i = view[c] /\ ReadView(view[c], through)
        BY <3>2 DEF Visible, ImageInv, ViewInv
      <4> QED
        BY <1>1, <1>2, <4>1 DEF ReadView
    <3> QED
      BY <1>1, <1>4, <3>1, <3>2
  <2> HIDE DEF i
  <2>2. \A p \in i.changes : p \in Change /\ Known(c, p) /\ p.rev <= disk.seq
    BY <1>1, <2>1 DEF Known, ImageInv, DiskInv
  <2>3. Distinct(i.changes)
    BY <2>1 DEF ImageInv, DiskInv, Distinct
  <2>4. ASSUME NEW f \in i.changes, NEW e \in Change, Current(e), through < e.rev,
               e.rev <= f.rev
        PROVE  e \in i.changes
    <3>1. e \in hist
      BY <1>1, <1>3, <2>2, <2>4
    <3> QED
      BY <2>1, <2>4, <3>1
  <2> QED
    BY <1>2, <2>1, <2>2, <2>3, <2>4 DEF i
<1>5. CASE trans[c] = "write"
  <2>1. i = view[c] /\ WriteView(i, through) /\ Since(saved[c], i, through)
    BY <1>5 DEF Visible, ImageInv, ViewInv
  <2> HIDE DEF i
  <2>2. \A p \in i.changes : Known(c, p)
    BY <1>1, <1>2, <1>5, <2>1 DEF WriteView, Known, Own, ImageInv, DiskInv
  <2>3. ASSUME NEW e \in Change, Current(e), through < e.rev
        PROVE  e \in i.changes
    BY <1>5, <2>1, <2>3 DEF Current, WriteView, ImageInv, OneWriter, Since
  <2> QED
    BY <1>2, <2>1, <2>2, <2>3 DEF i, WriteView
<1> QED
  BY <1>4, <1>5

(* The rows a poll takes are the first ones: with a row come all found     *)
(* rows before it.                                                         *)
LEMMA FirstRows ==
    ASSUME NEW i \in Image, IsFiniteSet(i.changes), NEW filter, NEW after \in Int,
           NEW limit \in Nat, NEW f \in ChangesAfter(i, filter, after, limit),
           NEW e \in i.changes, after < e.rev, Matches(filter, e), e.rev <= f.rev
    PROVE  e \in ChangesAfter(i, filter, after, limit)
<1> DEFINE found == {g \in i.changes : g.rev > after /\ Matches(filter, g)}
           below(r) == {g \in found : g.rev < r}
<1>1. /\ i.changes \subseteq Change /\ \A g \in Change : g.rev \in Int
  BY DEF Image, Change, Revisions
<1>2. \A g : g \in ChangesAfter(i, filter, after, limit) <=>
                 g \in found /\ Cardinality(below(g.rev)) < limit
  BY DEF ChangesAfter
<1>3. IsFiniteSet(below(e.rev)) /\ IsFiniteSet(below(f.rev))
  BY FS_Subset
<1>4. f \in found /\ Cardinality(below(f.rev)) < limit /\ e \in found
  BY <1>1, <1>2
<1>5. below(e.rev) \subseteq below(f.rev)
  BY <1>1, <1>4
<1> HIDE DEF found, below
<1>6. /\ Cardinality(below(e.rev)) \in Nat /\ Cardinality(below(f.rev)) \in Nat
      /\ Cardinality(below(e.rev)) <= Cardinality(below(f.rev))
  BY <1>3, <1>5, FS_Subset, FS_CardinalityType
<1> QED
  BY <1>2, <1>4, <1>6

(* A poll takes its snapshot. *)
LEMMA PollSafe ==
    ASSUME FeedInv, NEW s \in Subs, NEW limit \in 1..MaxLimit, Poll(s, limit)
    PROVE  FeedInv'
<1>1. PICK u \in Subscription : u = sub[s]
  BY DEF FeedInv, TypeOK
<1>2. PICK i : i = Visible(u.conn)
  OBVIOUS
<1> DEFINE rows == ChangesAfter(i, u.filter, u.cursor, limit)
           v == [u EXCEPT !.polling = TRUE, !.last = u.cursor, !.batch = {},
                          !.pending = rows]
<1>3. /\ u.live /\ ~u.polling
      /\ UNCHANGED <<disk, trans, view, saved, epoch, hist, through>>
  BY <1>1 DEF Poll
<1>4. sub' = [sub EXCEPT ![s] = v]
  BY <1>1, <1>2 DEF Poll, FeedInv, TypeOK
<1>5. TypeOK /\ ImageInv /\ LiveInv(u) /\ u.conn \in Conns
  BY <1>1, <1>3 DEF FeedInv, SubInv, Subscription
<1>6. /\ i \in Image /\ IsFiniteSet(i.changes) /\ Distinct(i.changes)
      /\ \A p \in i.changes : Known(u.conn, p)
      /\ \A f \in i.changes, e \in Change :
            Current(e) /\ through < e.rev /\ e.rev <= f.rev => e \in i.changes
  BY <1>2, <1>5, SnapshotOK
<1>7. /\ i.changes \subseteq Change /\ \A g \in Change : g.rev \in Int
      /\ u.cursor \in Int /\ u.base \in Int /\ through \in Int /\ limit \in Nat
  BY <1>5, <1>6 DEF Image, Change, Revisions, Subscription, TypeOK
<1>8. /\ rows \subseteq i.changes
      /\ \A e \in rows : u.cursor < e.rev
  BY <1>7 DEF ChangesAfter
<1>9. \A f \in rows, e \in i.changes :
          u.cursor < e.rev /\ Matches(u.filter, e) /\ e.rev <= f.rev => e \in rows
  BY <1>6, <1>7, FirstRows
<1> HIDE DEF rows
<1>10. /\ v \in Subscription /\ v.live /\ v.polling /\ v.conn = u.conn
       /\ v.filter = u.filter /\ v.base = u.base /\ v.cursor = u.cursor
       /\ v.seen = u.seen /\ v.pending = rows /\ v.batch = {} /\ v.last = u.cursor
  BY <1>3, <1>7, <1>8 DEF Subscription
<1> HIDE DEF v
<1>11. Ordered(v)
  BY <1>6, <1>7, <1>8, <1>10 DEF Ordered, Distinct
<1>12. \A e : Concerns(v, e) <=> Concerns(u, e)
  BY <1>10 DEF Concerns
<1>13. Whole(v)
  <2>1. SUFFICES ASSUME NEW f \in rows, NEW e \in Change, Concerns(u, e),
                        u.cursor < e.rev, e.rev <= f.rev
                 PROVE  e \in rows
    BY <1>10, <1>12 DEF Whole
  <2>2. Current(e) /\ Matches(u.filter, e) /\ u.base < e.rev
    BY <2>1 DEF Concerns
  <2>3. through < e.rev
    BY <1>5, <1>7, <2>1, <2>2 DEF LiveInv
  <2>4. e \in i.changes
    BY <1>6, <1>8, <2>1, <2>2, <2>3
  <2> QED
    BY <1>9, <2>1, <2>2, <2>4
<1>14. Reached(v, v.cursor, v.seen) /\ Covered(v, v.cursor, v.seen)
  BY <1>5, <1>10, <1>12 DEF LiveInv, Reached, Covered
<1>15. PollInv(v)
  <2>1. v.seen \cup v.batch = v.seen /\ v.last = v.cursor
    BY <1>10
  <2> QED
    BY <1>11, <1>13, <1>14, <2>1 DEF PollInv
<1>16. LiveInv(v)
  <2>1. \A p \in RowsOf(v) : Known(v.conn, p)
    BY <1>5, <1>6, <1>8, <1>10 DEF LiveInv, RowsOf
  <2> QED
    BY <1>5, <1>10, <1>14, <1>15, <2>1 DEF LiveInv
<1>17. SubInv(v)
  BY <1>10, <1>16 DEF SubInv
<1> QED
  BY <1>3, <1>4, <1>10, <1>17, SubStep

-----------------------------------------------------------------------------
(* The theorems about the native feed.                                     *)

(* FeedInv holds in the empty database without subscriptions. *)
LEMMA FeedStarts == Init => FeedInv
<1>1. SUFFICES ASSUME Init
               PROVE  FeedInv
  OBVIOUS
<1>2. EmptyImage \in Image /\ EmptyImage.seq = 0 /\ EmptyImage.changes = {}
  BY ChangeFeedAssumption DEF EmptyImage, Image
<1>3. TypeOK
  BY <1>1, <1>2, UnsubscribedOK, ChangeFeedAssumption DEF Init, TypeOK
<1>4. ImageInv
  <2>1. DiskInv
    BY <1>1, <1>2, FS_EmptySet DEF Init, DiskInv, Distinct
  <2> QED
    BY <1>1, <2>1 DEF Init, ImageInv, ViewInv, OneWriter
<1>5. \A s \in Subs : SubInv(sub[s])
  BY <1>1, UnsubscribedOK DEF Init
<1> QED
  BY <1>3, <1>4, <1>5 DEF FeedInv

(* Every step keeps FeedInv: one case per action. *)
LEMMA FeedStep == FeedInv /\ [Next]_vars => FeedInv'
<1>1. SUFFICES ASSUME FeedInv, [Next]_vars
               PROVE  FeedInv'
  OBVIOUS
<1>2. ASSUME NEW c \in Conns, NEW store \in Stores, Mutate(c, store)
      PROVE  FeedInv'
  BY <1>1, <1>2, MutateSafe
<1>3. ASSUME NEW c \in Conns, NEW r \in Revisions, Prune(c, r)
      PROVE  FeedInv'
  BY <1>1, <1>3, PruneSafe
<1>4. ASSUME NEW c \in Conns,
             \/ Begin(c) \/ Commit(c) \/ Rollback(c) \/ Crash(c)
             \/ Savepoint(c) \/ RollbackTo(c)
      PROVE  FeedInv'
  BY <1>1, <1>4, BeginSafe, CommitSafe, RollbackSafe, CrashSafe, SavepointSafe
<1>5. ASSUME NEW c \in Conns, NEW s \in Subs, NEW f \in Filters,
             NEW r \in 0..MaxRevision, Subscribe(c, s, f, r)
      PROVE  FeedInv'
  BY <1>1, <1>5, SubscribeSafe
<1>6. ASSUME NEW s \in Subs, Destroy(s) \/ PollReturn(s)
      PROVE  FeedInv'
  BY <1>1, <1>6, DestroySafe, PollReturnSafe
<1>7. ASSUME NEW s \in Subs, NEW limit \in 1..MaxLimit, Poll(s, limit)
      PROVE  FeedInv'
  BY <1>1, <1>7, PollSafe
<1>8. ASSUME NEW s \in Subs, NEW answer \in Answers, Deliver(s, answer)
      PROVE  FeedInv'
  BY <1>1, <1>8, DeliverSafe
<1>9. CASE UNCHANGED vars
  <2>1. \A s \in Subs : SubInv(sub[s])'
    <3>1. SUFFICES ASSUME NEW s \in Subs
                   PROVE  SubInv(sub[s])'
      OBVIOUS
    <3>2. PICK u : u = sub[s] /\ u = sub'[s]
      BY <1>9 DEF vars
    <3>3. SubInv(u)'
      BY <1>1, <1>9, <3>2, SubInvStays DEF FeedInv, vars
    <3> QED
      BY <3>2, <3>3 DEF SubInv, LiveInv, PollInv, Ordered, Whole, Covered, Reached,
                        Concerns, RowsOf
  <2> QED
    BY <1>1, <1>9, <2>1
    DEF vars, FeedInv, TypeOK, ImageInv, DiskInv, ViewInv, OneWriter, ReadView,
        WriteView, Distinct, Since
<1> QED
  BY <1>1, <1>2, <1>3, <1>4, <1>5, <1>6, <1>7, <1>8, <1>9 DEF Next

(* FeedInv is an invariant. *)
LEMMA FeedInvariant == Spec => []FeedInv
BY FeedStarts, FeedStep, PTL DEF Spec

(* The state of the feed (images, transactions and subscription structs)   *)
(* has its type in every reachable state, whatever esdb_object_subscribe,  *)
(* _poll, _destroy and the writers of every connection do.                 *)
THEOREM FeedTypes == Spec => []TypeOK
<1>1. FeedInv => TypeOK
  BY DEF FeedInv
<1> QED
  BY <1>1, FeedInvariant, PTL

(* FeedInv is strong enough for DeliveredOnce. *)
LEMMA InvDelivers == FeedInv => DeliveredOnce
<1>1. SUFFICES ASSUME FeedInv
               PROVE  DeliveredOnce
  OBVIOUS
<1>2. LossIsProvisional
  <2>1. SUFFICES ASSUME NEW s \in Subs, sub[s].live, NEW e \in Due(s) \ sub[s].seen
                 PROVE  \E p \in sub[s].seen : p \notin hist /\ p.rev >= e.rev
    BY DEF LossIsProvisional
  <2>2. Covered(sub[s], sub[s].cursor, sub[s].seen)
    BY <1>1, <2>1 DEF FeedInv, SubInv, LiveInv
  <2>3. e \in Change /\ Concerns(sub[s], e) /\ e.rev <= sub[s].cursor
    BY <1>1, <2>1 DEF Due, Concerns, Current, FeedInv, TypeOK
  <2> QED
    BY <2>1, <2>2, <2>3 DEF Covered, Dead, Current
<1>3. NoRedelivery
  <2>1. SUFFICES ASSUME NEW s \in Subs
                 PROVE  /\ \A e \in sub[s].seen : e.rev <= sub[s].cursor
                        /\ \A e \in sub[s].pending \cup sub[s].batch :
                              e \notin sub[s].seen
    BY DEF NoRedelivery
  <2>2. CASE ~sub[s].live
    <3>1. /\ Unsubscribed.seen = {} /\ Unsubscribed.batch = {}
          /\ Unsubscribed.pending = {}
      BY DEF Unsubscribed
    <3>2. sub[s] = Unsubscribed
      BY <1>1, <2>2 DEF FeedInv, SubInv
    <3> QED
      BY <3>1, <3>2
  <2>3. CASE sub[s].live
    <3>1. PICK u \in Subscription : u = sub[s] /\ LiveInv(u)
      BY <1>1, <2>3 DEF FeedInv, SubInv, TypeOK
    <3>2. CASE u.polling
      <4>1. \A e \in u.pending \cup u.batch : u.cursor < e.rev
        BY <3>1, <3>2 DEF LiveInv, PollInv, Ordered, Subscription, Change, Revisions
      <4> QED
        BY <3>1, <4>1 DEF LiveInv, Subscription, Change, Revisions
    <3>3. CASE ~u.polling
      BY <3>1, <3>3 DEF LiveInv
    <3> QED
      BY <3>2, <3>3
  <2> QED
    BY <2>2, <2>3
<1> QED
  BY <1>2, <1>3 DEF DeliveredOnce

(* esdb_object_subscription_poll gives a subscription each committed       *)
(* change that matches its filter once: none behind the cursor is lost,    *)
(* but for those a provisional row of its own connection stood for, and    *)
(* none that an earlier poll returned is called back again.                *)
THEOREM EachChangeOnce == Spec => []DeliveredOnce
BY FeedInvariant, InvDelivers, PTL

(* What a step may do to a subscription that stays. *)
CursorAdvances ==
    \A s \in Subs : sub[s].live /\ sub'[s].live =>
        sub[s].cursor <= sub'[s].cursor /\ sub[s].seen \subseteq sub'[s].seen

(* The action form of CursorNeverGoesBack. *)
LEMMA StepAdvances == FeedInv /\ [Next]_vars => CursorAdvances
<1>1. SUFFICES ASSUME FeedInv, [Next]_vars, NEW s \in Subs, sub[s].live, sub'[s].live
               PROVE  /\ sub[s].cursor <= sub'[s].cursor
                      /\ sub[s].seen \subseteq sub'[s].seen
  BY DEF CursorAdvances
<1>2. PICK u \in Subscription : /\ u = sub[s] /\ u.cursor \in Int /\ LiveInv(u)
                                /\ sub \in [Subs -> Subscription]
  BY <1>1 DEF FeedInv, SubInv, TypeOK, Subscription
<1>3. CASE sub'[s] = sub[s]
  BY <1>2, <1>3
<1>4. CASE \E c \in Conns : Crash(c)
  <2>1. sub'[s] = Unsubscribed \/ sub'[s] = sub[s]
    BY <1>4 DEF Crash
  <2>2. ~Unsubscribed.live
    BY DEF Unsubscribed
  <2> QED
    BY <1>1, <1>3, <2>1, <2>2
<1>5. CASE \E c \in Conns, t \in Subs, f \in Filters, r \in 0..MaxRevision :
               Subscribe(c, t, f, r)
  BY <1>1, <1>2, <1>3, <1>5 DEF Subscribe
<1>6. CASE \E t \in Subs : Destroy(t)
  <2>1. ~Unsubscribed.live
    BY DEF Unsubscribed
  <2> QED
    BY <1>1, <1>2, <1>3, <1>6, <2>1 DEF Destroy
<1>7. CASE \E t \in Subs, limit \in 1..MaxLimit : Poll(t, limit)
  <2>1. PICK t \in Subs, limit \in 1..MaxLimit : Poll(t, limit)
    BY <1>7
  <2>2. CASE t # s
    BY <1>2, <1>3, <2>1, <2>2 DEF Poll
  <2>3. CASE t = s
    <3>1. sub'[s].cursor = u.cursor /\ sub'[s].seen = u.seen
      BY <1>2, <2>1, <2>3 DEF Poll, Subscription
    <3> QED
      BY <1>2, <3>1
  <2> QED
    BY <2>2, <2>3
<1>8. ASSUME NEW v \in Subscription, NEW ok \in BOOLEAN, v.cursor = u.cursor,
             u.seen \subseteq v.seen, v.cursor <= v.last,
             sub'[s] = Finished(v, ok)
      PROVE  sub[s].cursor <= sub'[s].cursor /\ sub[s].seen \subseteq sub'[s].seen
  <2>1. /\ Finished(v, ok).cursor = IF ok THEN v.last ELSE v.cursor
        /\ v.seen \subseteq Finished(v, ok).seen
    BY DEF Finished, Subscription
  <2> QED
    BY <1>2, <1>8, <2>1
<1>9. CASE \E t \in Subs : PollReturn(t)
  <2>1. PICK t \in Subs : PollReturn(t)
    BY <1>9
  <2>2. CASE t # s
    BY <1>2, <1>3, <2>1, <2>2 DEF PollReturn
  <2>3. CASE t = s
    <3>1. u.polling /\ sub'[s] = Finished(u, TRUE)
      BY <1>2, <2>1, <2>3 DEF PollReturn
    <3>2. u.cursor <= u.last
      BY <1>2, <3>1 DEF LiveInv, PollInv, Ordered
    <3> QED
      BY <1>8, <3>1, <3>2
  <2> QED
    BY <2>2, <2>3
<1>10. CASE \E t \in Subs, answer \in Answers : Deliver(t, answer)
  <2>1. PICK t \in Subs, answer \in Answers : Deliver(t, answer)
    BY <1>10
  <2>2. CASE t # s
    BY <1>2, <1>3, <2>1, <2>2 DEF Deliver
  <2>3. CASE t = s
    <3>1. PICK e \in u.pending : sub'[s] = CalledBack(u, e, answer)
      BY <1>2, <2>1, <2>3 DEF Deliver
    <3> DEFINE v == [u EXCEPT !.pending = @ \ {e}, !.batch = @ \cup {e},
                              !.last = e.rev]
    <3>2. e \in Change /\ e.rev \in 0..MaxRevision
      BY DEF Subscription, Change, Revisions
    <3>3. u.polling
      BY <1>2, <2>1, <2>3 DEF Deliver
    <3>4. u.cursor <= e.rev
      BY <1>2, <3>2, <3>3 DEF LiveInv, PollInv, Ordered, Subscription
    <3>5. /\ v \in Subscription /\ v.cursor = u.cursor /\ v.seen = u.seen
          /\ v.last = e.rev
      BY <3>2 DEF Subscription
    <3>6. sub'[s] = IF answer = "continue" THEN v ELSE Finished(v, answer = "stop")
      BY <3>1 DEF CalledBack
    <3> HIDE DEF v
    <3>7. CASE answer = "continue"
      BY <1>2, <3>5, <3>6, <3>7
    <3>8. CASE answer # "continue"
      <4>1. (answer = "stop") \in BOOLEAN
        OBVIOUS
      <4> QED
        BY <1>8, <3>4, <3>5, <3>6, <3>8, <4>1
    <3> QED
      BY <3>7, <3>8
  <2> QED
    BY <2>2, <2>3
<1>11. CASE UNCHANGED sub
  BY <1>3, <1>11
<1> QED
  BY <1>1, <1>4, <1>5, <1>6, <1>7, <1>9, <1>10, <1>11
  DEF Next, Mutate, Prune, Begin, Commit, Rollback, Savepoint, RollbackTo, vars

(* While esdb_object_subscription lives, no poll, callback or writer moves *)
(* its cursor back or makes it forget a change it has returned: the copy   *)
(* of last_revision at the end of a poll only moves forward.               *)
THEOREM CursorNeverGoesBack == Spec => [][CursorAdvances]_vars
BY FeedInvariant, StepAdvances, PTL DEF Spec

-----------------------------------------------------------------------------
(* The facade's subscriptions.                                             *)

CONSTANTS Keys, AllKeys, MaxDepth
VARIABLES journal, key, start, cursor, closed, polls, handled, nested

Facade == INSTANCE FacadeSubscription

(* A poll in progress has a window of the journal and stands inside it;    *)
(* while the subscription is open, all before its position is handled.     *)
FrameOK(f) ==
    /\ f.next <= f.to + 1
    /\ f.inside => f.next <= f.to
    /\ f.to <= Len(journal)
    /\ ~closed =>
          \A r \in (start + 1)..(f.next - 1) : Facade!Matches(r) => r \in handled

FramesOK == \A i \in 1..Len(polls) : FrameOK(polls[i])

(* What holds until a handler polls its own subscription: one poll at a    *)
(* time, and it stands right behind the cursor.                            *)
PlainOK ==
    ~nested =>
        /\ Len(polls) <= 1
        /\ \A r \in handled : r <= cursor
        /\ polls # <<>> => polls[1].next = cursor + 1

FacadeInv ==
    /\ Facade!TypeOK
    /\ cursor <= Len(journal)
    /\ Facade!NothingSkipped
    /\ FramesOK
    /\ PlainOK

(* The bounds are natural numbers. *)
LEMMA FacadeBounds ==
    ASSUME Facade!FacadeAssumption
    PROVE  {MaxRevision, MaxLimit, MaxDepth} \subseteq Nat \ {0}
BY DEF Facade!FacadeAssumption

(* FacadeInv holds when a subscription is made. *)
LEMMA FacadeStarts ==
    ASSUME Facade!FacadeAssumption, Facade!Init
    PROVE  FacadeInv
<1>1. PICK n \in 0..1 : journal \in [1..n -> Facade!Touched]
  BY DEF Facade!Init
<1>2. journal \in Seq(Facade!Touched) /\ Len(journal) = n
  BY <1>1
<1>3. Len(journal) <= MaxRevision
  BY <1>2 DEF Facade!FacadeAssumption
<1>4. Facade!TypeOK
  <2>1. start \in 0..MaxRevision
    BY <1>2, <1>3 DEF Facade!Init, Facade!FacadeAssumption
  <2>2. polls \in Seq(Facade!Frame) /\ Len(polls) = 0
    BY DEF Facade!Init
  <2>3. handled \subseteq Facade!Revisions
    BY DEF Facade!Init
  <2>4. cursor = start /\ key \in Facade!Touched
    BY DEF Facade!Init
  <2>5. closed \in BOOLEAN /\ nested \in BOOLEAN
    BY DEF Facade!Init
  <2>6. Len(polls) <= MaxDepth
    BY <2>2, FacadeBounds
  <2> QED
    BY <1>2, <1>3, <2>1, <2>2, <2>3, <2>4, <2>5, <2>6 DEF Facade!TypeOK
<1>5. Facade!NothingSkipped
  BY <1>4 DEF Facade!NothingSkipped, Facade!Init, Facade!TypeOK
<1> QED
  BY <1>2, <1>4, <1>5 DEF FacadeInv, FramesOK, PlainOK, Facade!Init, Facade!TypeOK

(* The stack of polls: its innermost one, the stack with another one in    *)
(* its place, and the stack without it.                                    *)
LEMMA StackFacts ==
    ASSUME Facade!TypeOK, polls # <<>>
    PROVE  /\ polls \in Seq(Facade!Frame) /\ Len(polls) \in Nat \ {0}
           /\ Facade!Top \in Facade!Frame /\ Facade!Top = polls[Len(polls)]
           /\ \A f \in Facade!Frame :
                 /\ Facade!SetTop(f) \in Seq(Facade!Frame)
                 /\ Len(Facade!SetTop(f)) = Len(polls)
                 /\ \A i \in 1..Len(polls) :
                       Facade!SetTop(f)[i] = IF i = Len(polls) THEN f ELSE polls[i]
           /\ Facade!Pop \in Seq(Facade!Frame)
           /\ Len(Facade!Pop) = Len(polls) - 1
           /\ \A i \in 1..(Len(polls) - 1) : Facade!Pop[i] = polls[i]
<1>1. polls \in Seq(Facade!Frame) /\ Len(polls) \in Nat \ {0}
  BY EmptySeq DEF Facade!TypeOK
<1>2. \A i \in 1..Len(polls) : polls[i] \in Facade!Frame
  BY <1>1, ElementOfSeq
<1>3. Facade!Top = polls[Len(polls)] /\ Facade!Top \in Facade!Frame
  BY <1>1, <1>2 DEF Facade!Top
<1>4. ASSUME NEW f \in Facade!Frame
      PROVE  /\ Facade!SetTop(f) \in Seq(Facade!Frame)
             /\ Len(Facade!SetTop(f)) = Len(polls)
             /\ \A i \in 1..Len(polls) :
                   Facade!SetTop(f)[i] = IF i = Len(polls) THEN f ELSE polls[i]
  <2>1. Len(polls) \in 1..Len(polls)
    BY <1>1
  <2> QED
    BY <1>1, <2>1, ExceptSeq DEF Facade!SetTop
<1>5. /\ Facade!Pop \in Seq(Facade!Frame)
      /\ Len(Facade!Pop) = Len(polls) - 1
      /\ \A i \in 1..(Len(polls) - 1) : Facade!Pop[i] = polls[i]
  <2> DEFINE n == Len(polls) - 1
  <2>1. n \in Nat /\ \A i \in 1..n : polls[i] \in Facade!Frame
    BY <1>1, <1>2
  <2>2. Facade!Pop = SubSeq(polls, 1, n)
    BY DEF Facade!Pop
  <2> HIDE DEF n
  <2>3. SubSeq(polls, 1, n) \in Seq(Facade!Frame)
    BY <2>1, SubSeqProperties
  <2>4. Len(SubSeq(polls, 1, n)) = n
    BY <2>1
  <2>5. \A i \in 1..n : SubSeq(polls, 1, n)[i] = polls[i]
    BY <2>1
  <2> QED
    BY <2>2, <2>3, <2>4, <2>5 DEF n
<1> QED
  BY <1>1, <1>3, <1>4, <1>5

(* A step that handles more and leaves the journal, the filter and         *)
(* `closed` leaves a good poll good.                                       *)
LEMMA FrameStays ==
    ASSUME NEW f, FrameOK(f), UNCHANGED <<journal, key, start, closed>>,
           handled \subseteq handled'
    PROVE  FrameOK(f)'
BY DEF FrameOK, Facade!Matches

(* The innermost poll moves on. *)
LEMMA FramesMove ==
    ASSUME FacadeInv, polls # <<>>, NEW f \in Facade!Frame,
           polls' = Facade!SetTop(f), FrameOK(f)',
           UNCHANGED <<journal, key, start, closed>>, handled \subseteq handled'
    PROVE  /\ FramesOK'
           /\ polls' \in Seq(Facade!Frame) /\ Len(polls') = Len(polls)
           /\ Len(polls) <= MaxDepth
           /\ Len(polls) <= 1 => polls'[1] = f
<1>1. /\ polls' \in Seq(Facade!Frame) /\ Len(polls') = Len(polls)
      /\ Len(polls) \in Nat \ {0}
      /\ \A i \in 1..Len(polls) : polls'[i] = IF i = Len(polls) THEN f ELSE polls[i]
  BY StackFacts DEF FacadeInv
<1>2. ASSUME NEW i \in 1..Len(polls)
      PROVE  FrameOK(polls[i])'
  <2>1. CASE i = Len(polls)
    BY <1>1, <2>1 DEF FrameOK
  <2>2. CASE i # Len(polls)
    <3>1. FrameOK(polls[i])
      BY DEF FacadeInv, FramesOK
    <3>2. PICK g : g = polls[i]
      OBVIOUS
    <3>3. FrameOK(g)'
      BY <3>1, <3>2, FrameStays
    <3> QED
      BY <1>1, <2>2, <3>2, <3>3 DEF FrameOK
  <2> QED
    BY <2>1, <2>2
<1> QED
  BY <1>1, <1>2 DEF FramesOK, FacadeInv, Facade!TypeOK

(* The innermost poll is left. *)
LEMMA FramesPop ==
    ASSUME Facade!FacadeAssumption, FacadeInv, polls # <<>>, polls' = Facade!Pop,
           UNCHANGED <<journal, key, start, closed, handled>>
    PROVE  /\ FramesOK'
           /\ polls' \in Seq(Facade!Frame) /\ Len(polls') = Len(polls) - 1
           /\ Len(polls') <= MaxDepth
           /\ Len(polls) <= 1 => polls' = <<>>
<1>1. /\ polls' \in Seq(Facade!Frame) /\ Len(polls') = Len(polls) - 1
      /\ Len(polls) \in Nat \ {0}
      /\ \A i \in 1..(Len(polls) - 1) : polls'[i] = polls[i]
  BY StackFacts DEF FacadeInv
<1>2. ASSUME NEW i \in 1..Len(polls')
      PROVE  FrameOK(polls[i])'
  <2>1. FrameOK(polls[i])
    BY <1>1 DEF FacadeInv, FramesOK
  <2>2. PICK g : g = polls[i]
    OBVIOUS
  <2>3. FrameOK(g)'
    BY <2>1, <2>2, FrameStays
  <2> QED
    BY <1>1, <2>2, <2>3 DEF FrameOK
<1>3. Len(polls') <= MaxDepth
  BY <1>1, FacadeBounds DEF FacadeInv, Facade!TypeOK
<1>4. Len(polls) <= 1 => polls' = <<>>
  BY <1>1, EmptySeq
<1> QED
  BY <1>1, <1>2, <1>3, <1>4 DEF FramesOK

(* A change is appended: what is known of the older ones stays. *)
LEMMA FacadeWrite ==
    ASSUME Facade!FacadeAssumption, FacadeInv, NEW k \in Facade!Touched,
           Facade!Write(k)
    PROVE  FacadeInv'
<1>1. /\ journal \in Seq(Facade!Touched) /\ Len(journal) \in Nat
      /\ journal' = Append(journal, k)
      /\ journal' \in Seq(Facade!Touched)
      /\ Len(journal') = Len(journal) + 1
      /\ \A r \in 1..Len(journal) : journal'[r] = journal[r]
  BY DEF Facade!Write, FacadeInv, Facade!TypeOK
<1>2. /\ UNCHANGED <<key, start, cursor, closed, polls, handled, nested>>
      /\ Len(journal) < MaxRevision
  BY DEF Facade!Write
<1>3. \A r \in 1..Len(journal) : Facade!Matches(r)' = Facade!Matches(r)
  BY <1>1, <1>2 DEF Facade!Matches
<1>4. Facade!TypeOK'
  <2>1. Len(journal') <= MaxRevision
    BY <1>1, <1>2 DEF Facade!FacadeAssumption
  <2> QED
    BY <1>1, <1>2, <2>1 DEF Facade!TypeOK, FacadeInv
<1>5. Facade!NothingSkipped'
  BY <1>1, <1>2, <1>3 DEF Facade!NothingSkipped, FacadeInv, Facade!TypeOK
<1>6. ASSUME NEW i \in 1..Len(polls)
      PROVE  FrameOK(polls[i])'
  <2>1. PICK g \in Facade!Frame : g = polls[i]
    BY <1>1, ElementOfSeq DEF FacadeInv, Facade!TypeOK
  <2>2. FrameOK(g)
    BY <2>1 DEF FacadeInv, FramesOK
  <2>3. /\ g.next \in Nat /\ g.to \in Nat /\ g.next - 1 <= Len(journal)
        /\ start \in Nat
    <3>1. g.next \in Nat /\ g.to \in Nat
      BY DEF Facade!Frame
    <3>2. g.next <= g.to + 1 /\ g.to <= Len(journal)
      BY <2>2 DEF FrameOK
    <3>3. start \in Nat
      BY DEF FacadeInv, Facade!TypeOK
    <3> QED
      BY <1>1, <3>1, <3>2, <3>3
  <2>4. \A r \in (start + 1)..(g.next - 1) : Facade!Matches(r)' = Facade!Matches(r)
    BY <1>1, <1>3, <2>3
  <2>5. FrameOK(g)'
    BY <1>1, <1>2, <2>2, <2>3, <2>4 DEF FrameOK
  <2> QED
    BY <1>2, <2>1, <2>5 DEF FrameOK
<1>7. PlainOK'
  BY <1>2 DEF PlainOK, FacadeInv
<1>8. cursor' <= Len(journal')
  BY <1>1, <1>2 DEF FacadeInv, Facade!TypeOK
<1>9. FramesOK'
  BY <1>2, <1>6 DEF FramesOK
<1> QED
  BY <1>4, <1>5, <1>7, <1>8, <1>9 DEF FacadeInv

(* close() only sets the flag; nothing more is promised. *)
LEMMA FacadeClose ==
    ASSUME FacadeInv, Facade!Close
    PROVE  FacadeInv'
<1>1. /\ closed' = TRUE
      /\ UNCHANGED <<journal, key, start, cursor, polls, handled, nested>>
  BY DEF Facade!Close
<1> QED
  BY <1>1 DEF FacadeInv, Facade!TypeOK, Facade!NothingSkipped, FramesOK, FrameOK,
              PlainOK

(* A new poll starts right behind the cursor. *)
LEMMA FacadePoll ==
    ASSUME Facade!FacadeAssumption, FacadeInv, NEW limit \in 1..MaxLimit,
           Facade!Poll(limit)
    PROVE  FacadeInv'
<1>1. /\ UNCHANGED <<journal, key, start, cursor, closed, handled>>
      /\ polls' = Append(polls, Facade!Window(limit))
      /\ nested' = (nested \/ polls # <<>>)
      /\ Len(polls) < MaxDepth /\ cursor < Len(journal)
  BY DEF Facade!Poll
<1>2. /\ Len(journal) \in Nat /\ Len(journal) <= MaxRevision
      /\ cursor \in 0..MaxRevision /\ limit \in Nat \ {0}
      /\ MaxRevision \in Nat /\ MaxDepth \in Nat
  BY DEF FacadeInv, Facade!TypeOK, Facade!FacadeAssumption
<1>3. PICK w \in Facade!Frame :
          /\ w = Facade!Window(limit)
          /\ w.next = cursor + 1 /\ ~w.inside
          /\ cursor + 1 <= w.to /\ w.to <= Len(journal)
  <2> DEFINE last == IF cursor + limit < Len(journal) THEN cursor + limit
                     ELSE Len(journal)
  <2>1. last \in 0..MaxRevision /\ cursor + 1 <= last /\ last <= Len(journal)
    BY <1>1, <1>2
  <2>2. cursor + 1 \in 1..(MaxRevision + 1)
    BY <1>2
  <2>3. Facade!Window(limit) = [next |-> cursor + 1, to |-> last, inside |-> FALSE]
    BY DEF Facade!Window
  <2> HIDE DEF last
  <2>4. /\ Facade!Window(limit) \in Facade!Frame
        /\ Facade!Window(limit).next = cursor + 1
        /\ Facade!Window(limit).to = last
        /\ ~Facade!Window(limit).inside
    BY <2>1, <2>2, <2>3 DEF Facade!Frame
  <2> QED
    BY <2>1, <2>4
<1>4. /\ polls \in Seq(Facade!Frame) /\ Len(polls) \in Nat
      /\ polls' \in Seq(Facade!Frame) /\ Len(polls') = Len(polls) + 1
      /\ \A i \in 1..Len(polls) : polls'[i] = polls[i]
      /\ polls'[Len(polls) + 1] = w
      /\ polls = <<>> => Len(polls) = 0
  BY <1>1, <1>3 DEF FacadeInv, Facade!TypeOK
<1>5. Facade!TypeOK'
  <2>1. Len(polls') <= MaxDepth
    BY <1>1, <1>2, <1>4
  <2> QED
    BY <1>1, <1>4, <2>1 DEF FacadeInv, Facade!TypeOK
<1>6. Facade!NothingSkipped'
  BY <1>1 DEF FacadeInv, Facade!NothingSkipped, Facade!Matches
<1>7. FrameOK(w)'
  <2>1. w.next <= w.to + 1 /\ w.next - 1 = cursor
    BY <1>2, <1>3 DEF Facade!Frame
  <2> QED
    BY <1>1, <1>3, <1>6, <2>1 DEF FrameOK, Facade!NothingSkipped
<1>8. ASSUME NEW i \in 1..Len(polls')
      PROVE  FrameOK(polls[i])'
  <2>1. CASE i \in 1..Len(polls)
    <3>1. PICK g : g = polls[i]
      OBVIOUS
    <3>2. FrameOK(g)'
      BY <1>1, <2>1, <3>1, FrameStays DEF FacadeInv, FramesOK
    <3> QED
      BY <1>4, <2>1, <3>1, <3>2 DEF FrameOK
  <2>2. CASE i = Len(polls) + 1
    BY <1>4, <1>7, <2>2 DEF FrameOK
  <2> QED
    BY <1>4, <2>1, <2>2
<1>9. PlainOK'
  <2>1. ~nested' => ~nested /\ polls = <<>>
    BY <1>1
  <2>2. ~nested' => Len(polls') = 1 /\ polls'[1] = w
    BY <1>4, <2>1
  <2> QED
    BY <1>1, <1>3, <2>1, <2>2 DEF PlainOK, FacadeInv
<1>10. cursor' <= Len(journal') /\ FramesOK'
  BY <1>1, <1>8 DEF FacadeInv, FramesOK
<1> QED
  BY <1>5, <1>6, <1>9, <1>10 DEF FacadeInv

(* The handler is called. *)
LEMMA FacadeCallHandler ==
    ASSUME FacadeInv, Facade!CallHandler
    PROVE  FacadeInv'
<1>1. /\ UNCHANGED <<journal, key, start, cursor, closed, handled, nested>>
      /\ polls # <<>> /\ Facade!Top.next <= Facade!Top.to
      /\ polls' = Facade!SetTop([Facade!Top EXCEPT !.inside = TRUE])
  BY DEF Facade!CallHandler, Facade!InLoop
<1>2. /\ Facade!TypeOK /\ Len(polls) \in Nat \ {0}
      /\ Facade!Top \in Facade!Frame /\ Facade!Top = polls[Len(polls)]
  BY <1>1, StackFacts DEF FacadeInv
<1>3. PICK f \in Facade!Frame :
          /\ f = [Facade!Top EXCEPT !.inside = TRUE]
          /\ f.next = Facade!Top.next /\ f.to = Facade!Top.to
  <2> DEFINE g == [Facade!Top EXCEPT !.inside = TRUE]
  <2>1. g \in Facade!Frame /\ g.next = Facade!Top.next /\ g.to = Facade!Top.to
    BY <1>2 DEF Facade!Frame
  <2> HIDE DEF g
  <2>2. \E f \in Facade!Frame :
            f = g /\ f.next = Facade!Top.next /\ f.to = Facade!Top.to
    BY <2>1
  <2> QED
    BY <2>2 DEF g
<1>4. FrameOK(Facade!Top)
  BY <1>2 DEF FacadeInv, FramesOK
<1>5. FrameOK(f)'
  <2>1. FrameOK(f)
    BY <1>1, <1>3, <1>4 DEF FrameOK
  <2> QED
    BY <1>1, <2>1, FrameStays
<1>6. /\ FramesOK' /\ polls' \in Seq(Facade!Frame)
      /\ Len(polls') = Len(polls) /\ Len(polls) <= MaxDepth
      /\ Len(polls) <= 1 => polls'[1] = f
  BY <1>1, <1>3, <1>5, FramesMove
<1>7. PlainOK'
  <2>1. Len(polls) <= 1 => f.next = polls[1].next
    BY <1>2, <1>3
  <2> QED
    BY <1>1, <1>6, <2>1 DEF FacadeInv, PlainOK
<1>8. Facade!TypeOK' /\ Facade!NothingSkipped'
  BY <1>1, <1>6
  DEF FacadeInv, Facade!TypeOK, Facade!NothingSkipped, Facade!Matches
<1> QED
  BY <1>1, <1>6, <1>7, <1>8 DEF FacadeInv

(* The innermost poll and the cursor pass the change at `next`, handled or *)
(* not to be handled.                                                      *)
LEMMA FacadePasses ==
    ASSUME Facade!FacadeAssumption, FacadeInv, polls # <<>>,
           Facade!Top.next <= Facade!Top.to,
           UNCHANGED <<journal, key, start, closed, nested>>,
           cursor' = Facade!Top.next,
           polls' = Facade!SetTop([Facade!Top EXCEPT !.next = @ + 1,
                                                     !.inside = FALSE]),
           \/ handled' = handled
           \/ handled' = handled \cup {Facade!Top.next},
           ~closed /\ Facade!Matches(Facade!Top.next) => Facade!Top.next \in handled'
    PROVE  FacadeInv'
<1>1. /\ Facade!TypeOK /\ Len(polls) \in Nat \ {0}
      /\ Facade!Top \in Facade!Frame /\ Facade!Top = polls[Len(polls)]
  BY StackFacts DEF FacadeInv
<1>2. PICK n \in Nat : /\ n = Facade!Top.next /\ n \in 1..MaxRevision
                       /\ n <= Len(journal) /\ n <= Facade!Top.to
  <2>1. FrameOK(Facade!Top)
    BY <1>1 DEF FacadeInv, FramesOK
  <2>2. /\ Facade!Top.next \in 1..(MaxRevision + 1)
        /\ Facade!Top.to \in 0..MaxRevision
    BY <1>1 DEF Facade!Frame
  <2>3. Facade!Top.to <= Len(journal) /\ Len(journal) \in Nat
    BY <1>1, <2>1 DEF FrameOK, Facade!TypeOK
  <2> QED
    BY <2>2, <2>3, FacadeBounds
<1>3. PICK f \in Facade!Frame :
          /\ f = [Facade!Top EXCEPT !.next = @ + 1, !.inside = FALSE]
          /\ f.next = n + 1 /\ f.to = Facade!Top.to /\ ~f.inside
  <2> DEFINE g == [Facade!Top EXCEPT !.next = @ + 1, !.inside = FALSE]
  <2>1. n + 1 \in 1..(MaxRevision + 1)
    BY <1>2, FacadeBounds
  <2>2. g \in Facade!Frame
    BY <1>1, <1>2, <2>1 DEF Facade!Frame
  <2>3. g.next = n + 1 /\ g.to = Facade!Top.to /\ ~g.inside
    BY <1>1, <1>2 DEF Facade!Frame
  <2> HIDE DEF g
  <2>4. \E f \in Facade!Frame :
            f = g /\ f.next = n + 1 /\ f.to = Facade!Top.to /\ ~f.inside
    BY <2>2, <2>3
  <2> QED
    BY <2>4 DEF g
<1>4. handled \subseteq handled' /\ handled' \subseteq Facade!Revisions
  BY <1>1, <1>2 DEF Facade!TypeOK, Facade!Revisions
<1>5. ASSUME ~closed, NEW r \in (start + 1)..n, Facade!Matches(r)
      PROVE  r \in handled'
  <2>1. CASE r = n
    BY <1>2, <1>5, <2>1
  <2>2. CASE r # n
    <3>1. FrameOK(Facade!Top)
      BY <1>1 DEF FacadeInv, FramesOK
    <3>2. r \in (start + 1)..(Facade!Top.next - 1)
      BY <1>1, <1>2, <2>2 DEF Facade!TypeOK
    <3> QED
      BY <1>4, <1>5, <3>1, <3>2 DEF FrameOK
  <2> QED
    BY <2>1, <2>2
<1>6. FrameOK(f)'
  <2>1. f.next <= f.to + 1 /\ f.to <= Len(journal) /\ f.next - 1 = n
    <3>1. FrameOK(Facade!Top)
      BY <1>1 DEF FacadeInv, FramesOK
    <3> QED
      BY <1>1, <1>2, <1>3, <3>1 DEF FrameOK, Facade!Frame
  <2> QED
    BY <1>3, <1>5, <2>1 DEF FrameOK, Facade!Matches
<1>7. /\ FramesOK' /\ polls' \in Seq(Facade!Frame)
      /\ Len(polls') = Len(polls) /\ Len(polls) <= MaxDepth
      /\ Len(polls) <= 1 => polls'[1] = f
  BY <1>3, <1>4, <1>6, FramesMove
<1>8. Facade!TypeOK'
  BY <1>1, <1>2, <1>4, <1>7 DEF Facade!TypeOK
<1>9. Facade!NothingSkipped'
  BY <1>2, <1>5 DEF Facade!NothingSkipped, Facade!Matches
<1>10. PlainOK'
  <2>1. SUFFICES ASSUME ~nested
                 PROVE  /\ Len(polls) <= 1
                        /\ \A r \in handled' : r <= n
                        /\ polls'[1].next = n + 1
    BY <1>2, <1>7 DEF PlainOK
  <2>2. /\ Len(polls) <= 1 /\ \A r \in handled : r <= cursor
        /\ polls[1].next = cursor + 1
    BY <2>1 DEF FacadeInv, PlainOK
  <2>3. cursor < n
    BY <1>1, <1>2, <2>2 DEF Facade!TypeOK
  <2>4. \A r \in handled' : r <= n
    BY <1>1, <1>2, <1>4, <2>2, <2>3 DEF Facade!TypeOK, Facade!Revisions
  <2> QED
    BY <1>3, <1>7, <2>2, <2>4
<1>11. cursor' <= Len(journal')
  BY <1>2
<1> QED
  BY <1>7, <1>8, <1>9, <1>10, <1>11 DEF FacadeInv

(* The innermost poll is left; the cursor stays. *)
LEMMA FacadeLeaves ==
    ASSUME Facade!FacadeAssumption, FacadeInv, polls # <<>>, polls' = Facade!Pop,
           UNCHANGED <<journal, key, start, cursor, closed, handled, nested>>
    PROVE  FacadeInv'
<1>1. /\ FramesOK' /\ polls' \in Seq(Facade!Frame)
      /\ Len(polls') = Len(polls) - 1 /\ Len(polls') <= MaxDepth
      /\ Len(polls) <= 1 => polls' = <<>>
  BY FramesPop
<1>2. Len(polls) \in Nat
  BY DEF FacadeInv, Facade!TypeOK
<1>3. PlainOK'
  BY <1>1, <1>2 DEF FacadeInv, PlainOK
<1>4. Facade!TypeOK' /\ Facade!NothingSkipped'
  BY <1>1 DEF FacadeInv, Facade!TypeOK, Facade!NothingSkipped, Facade!Matches
<1> QED
  BY <1>1, <1>3, <1>4 DEF FacadeInv

(* Every step keeps FacadeInv. *)
LEMMA FacadeStep ==
    ASSUME Facade!FacadeAssumption, FacadeInv, [Facade!Next]_(Facade!vars)
    PROVE  FacadeInv'
<1>1. ASSUME NEW k \in Facade!Touched, Facade!Write(k)
      PROVE  FacadeInv'
  BY <1>1, FacadeWrite
<1>2. CASE Facade!Close
  BY <1>2, FacadeClose
<1>3. ASSUME NEW limit \in 1..MaxLimit, Facade!Poll(limit)
      PROVE  FacadeInv'
  BY <1>3, FacadePoll
<1>4. CASE Facade!CallHandler
  BY <1>4, FacadeCallHandler
<1>5. CASE Facade!PassOver
  <2>1. /\ polls # <<>> /\ ~Facade!Top.inside /\ Facade!Top.next <= Facade!Top.to
        /\ UNCHANGED <<journal, key, start, closed, handled, nested>>
        /\ cursor' = Facade!Top.next
        /\ polls' = Facade!SetTop([Facade!Top EXCEPT !.next = @ + 1])
        /\ ~(~closed /\ Facade!Matches(Facade!Top.next))
    BY <1>5 DEF Facade!PassOver, Facade!InLoop
  <2>2. [Facade!Top EXCEPT !.next = @ + 1]
            = [Facade!Top EXCEPT !.next = @ + 1, !.inside = FALSE]
    <3>1. Facade!Top \in Facade!Frame
      BY <2>1, StackFacts DEF FacadeInv
    <3> QED
      BY <2>1, <3>1 DEF Facade!Frame
  <2> QED
    BY <2>1, <2>2, FacadePasses
<1>6. CASE Facade!HandlerReturns
  <2>1. /\ polls # <<>> /\ Facade!Top.inside
        /\ UNCHANGED <<journal, key, start, closed, nested>>
        /\ cursor' = Facade!Top.next
        /\ polls' = Facade!SetTop([Facade!Top EXCEPT !.next = @ + 1,
                                                     !.inside = FALSE])
        /\ handled' = handled \cup {Facade!Top.next}
    BY <1>6 DEF Facade!HandlerReturns
  <2>2. Facade!Top.next <= Facade!Top.to
    <3>1. Len(polls) \in 1..Len(polls) /\ Facade!Top = polls[Len(polls)]
      BY <2>1, StackFacts DEF FacadeInv
    <3> QED
      BY <2>1, <3>1 DEF FacadeInv, FramesOK, FrameOK
  <2> QED
    BY <2>1, <2>2, FacadePasses
<1>7. CASE Facade!HandlerThrows
  BY <1>7, FacadeLeaves DEF Facade!HandlerThrows
<1>8. CASE Facade!PollReturns
  BY <1>8, FacadeLeaves DEF Facade!PollReturns
<1>9. CASE UNCHANGED Facade!vars
  BY <1>9 DEF Facade!vars, FacadeInv, Facade!TypeOK, Facade!NothingSkipped, FramesOK,
              FrameOK, PlainOK, Facade!Matches
<1> QED
  BY <1>1, <1>2, <1>3, <1>4, <1>5, <1>6, <1>7, <1>8, <1>9 DEF Facade!Next

(* FacadeInv is an invariant. *)
LEMMA FacadeInvariant == Facade!FacadeAssumption /\ Facade!Spec => []FacadeInv
<1>1. Facade!FacadeAssumption /\ Facade!Init => FacadeInv
  BY FacadeStarts
<1>2. Facade!FacadeAssumption /\ FacadeInv /\ [Facade!Next]_(Facade!vars) => FacadeInv'
  BY FacadeStep
<1>3. Facade!FacadeAssumption => Facade!FacadeAssumption'
  BY DEF Facade!FacadeAssumption
<1> QED
  BY <1>1, <1>2, <1>3, PTL DEF Facade!Spec

(* The state of a script subscription (journal, cursor, stack of polls)    *)
(* has its type in every reachable state, for all nestings of poll()       *)
(* within the bound.                                                       *)
THEOREM FacadeTypes == Facade!FacadeAssumption /\ Facade!Spec => []Facade!TypeOK
<1>1. FacadeInv => Facade!TypeOK
  BY DEF FacadeInv
<1> QED
  BY <1>1, FacadeInvariant, PTL

(* poll() of the facade's ObjectSubscription and StoreSubscription skips   *)
(* no matching change before the cursor of an open subscription, even      *)
(* when handlers throw, write or poll; without a nested poll no change is  *)
(* handled twice.                                                          *)
THEOREM ScriptGetsEachChange ==
    Facade!FacadeAssumption /\ Facade!Spec => []Facade!HandledInOrder
<1>1. ASSUME FacadeInv
      PROVE  Facade!HandledOnce
  <2>1. SUFFICES ASSUME ~nested, NEW i \in 1..Len(polls), NEW r \in handled
                 PROVE  r < polls[i].next
    BY DEF Facade!HandledOnce
  <2>2. /\ Len(polls) \in Nat /\ cursor \in Nat /\ r \in Nat
        /\ Len(polls) <= 1 /\ r <= cursor
    BY <1>1, <2>1 DEF FacadeInv, PlainOK, Facade!TypeOK, Facade!Revisions
  <2>3. i = 1 /\ polls # <<>>
    BY <2>2
  <2> QED
    BY <1>1, <2>1, <2>2, <2>3 DEF FacadeInv, PlainOK
<1>2. FacadeInv => Facade!HandledInOrder
  BY <1>1 DEF FacadeInv, Facade!HandledInOrder
<1> QED
  BY <1>2, FacadeInvariant, PTL

(* The cursor only goes back once a handler has polled. *)
CursorGoesOn == nested \/ cursor <= cursor'

(* The action form of CursorOnlyBackByNesting. *)
LEMMA FacadeGoesOn ==
    ASSUME Facade!FacadeAssumption, FacadeInv, [Facade!Next]_(Facade!vars)
    PROVE  CursorGoesOn
<1>1. cursor \in Int
  BY DEF FacadeInv, Facade!TypeOK
<1>2. CASE UNCHANGED cursor
  BY <1>1, <1>2 DEF CursorGoesOn
<1>3. CASE polls # <<>> /\ cursor' = Facade!Top.next
  <2>1. SUFFICES ASSUME ~nested
                 PROVE  cursor <= cursor'
    BY DEF CursorGoesOn
  <2>2. Len(polls) \in Nat \ {0} /\ Facade!Top = polls[Len(polls)]
    BY <1>3, StackFacts DEF FacadeInv
  <2>3. Len(polls) <= 1 /\ polls[1].next = cursor + 1
    BY <1>3, <2>1 DEF FacadeInv, PlainOK
  <2>4. cursor' = cursor + 1
    BY <1>3, <2>2, <2>3
  <2> QED
    BY <1>1, <2>4
<1> QED
  BY <1>2, <1>3
  DEF Facade!Next, Facade!Write, Facade!Close, Facade!Poll, Facade!CallHandler,
      Facade!PassOver, Facade!InLoop, Facade!HandlerReturns, Facade!HandlerThrows,
      Facade!PollReturns, Facade!vars

(* Only a nested poll() can move the cursor of a script subscription back: *)
(* the outer one sets _revision to its own change after the inner returned.*)
THEOREM CursorOnlyBackByNesting ==
    Facade!FacadeAssumption /\ Facade!Spec => [][CursorGoesOn]_(Facade!vars)
<1>1. Facade!FacadeAssumption /\ FacadeInv /\ [Facade!Next]_(Facade!vars) => CursorGoesOn
  BY FacadeGoesOn
<1>2. Facade!FacadeAssumption => Facade!FacadeAssumption'
  BY DEF Facade!FacadeAssumption
<1> QED
  BY <1>1, <1>2, FacadeInvariant, PTL DEF Facade!Spec

=============================================================================
