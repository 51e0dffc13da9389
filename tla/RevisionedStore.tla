--------------------------- MODULE RevisionedStore ---------------------------
(***************************************************************************)
(* What the ObjectStore promises (docs/STORE.md, "Durable revisions"),     *)
(* without connections, statements or transactions: a log of changes that  *)
(* only grows, the records it produces, a journal from which the oldest    *)
(* part may have been pruned, and acknowledgements that are never ahead of *)
(* the log.                                                                *)
(***************************************************************************)
EXTENDS Naturals, Sequences

CONSTANTS Stores, Keys, MaxRevision

VARIABLES
    log,           \* log[r]: the change of revision r
    records,       \* records[p]: the revision of the record at p, 0: none
    floor,         \* changes up to this revision may have been pruned
    names,         \* registered stores
    acknowledged   \* revisions whose durability was reported to a caller

vars == <<log, records, floor, names, acknowledged>>

Places == Stores \X Keys
Entry == [at: Places, op: {"put", "delete"}]

(* The record at p after the first n changes of l. *)
RecordAfter(l, n, p) ==
    LET touching == {r \in 1..n : l[r].at = p}
        last == CHOOSE r \in touching : \A q \in touching : q <= r
    IN  IF touching = {} \/ l[last].op = "delete" THEN 0 ELSE last

Init ==
    /\ log = <<>>
    /\ records = [p \in Places |-> 0]
    /\ floor = 0
    /\ names = {}
    /\ acknowledged = {}

(* A batch of changes becomes durable at once.  Only existing records are  *)
(* deleted, and only registered stores are written.                        *)
Extend(batch) ==
    /\ log' = log \o batch
    /\ records' = [p \in Places |-> RecordAfter(log', Len(log'), p)]
    /\ \A i \in 1..Len(batch) :
          /\ batch[i].at[1] \in names'
          /\ batch[i].op = "delete" =>
                RecordAfter(log', Len(log) + i - 1, batch[i].at) # 0

(* One commit: changes, registrations and pruning, whatever of it the      *)
(* transaction held, and the acknowledgement of what is now durable.  A    *)
(* commit that changes nothing is no step.                                 *)
Commit ==
    /\ vars' # vars
    /\ \E n \in 0..(MaxRevision - Len(log)) :
          \E batch \in [1..n -> Entry] : Extend(batch)
    /\ names \subseteq names' /\ names' \subseteq Stores
    /\ floor' \in floor..Len(log')
    /\ acknowledged \subseteq acknowledged'
    /\ acknowledged' \subseteq 1..Len(log')

Spec == Init /\ [][Commit]_vars
=============================================================================
