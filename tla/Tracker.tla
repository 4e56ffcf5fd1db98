------------------------------- MODULE Tracker -------------------------------
(***************************************************************************)
(* One Tracker driven by its two public methods, issue_mitig() and         *)
(* insert(), in any order, and the proof obligation that the circular      *)
(* buffer implements the bounded FIFO queue of MitigationFifo.             *)
(***************************************************************************)
EXTENDS TrackerOps, Sequences

CONSTANTS MaxInserts,    \* bound on insert() calls
          MaxRemoves     \* bound on issue_mitig() calls

ASSUME BoundsAssumption == MaxInserts \in Nat /\ MaxRemoves \in Nat

VARIABLE tr

TrackerInit == tr = NewTracker

issue_mitig ==
  /\ tr.num_remove < MaxRemoves
  /\ tr' = IssueMitig(tr)

insert(addr) ==
  /\ tr.num_insert < MaxInserts
  /\ tr' = Insert(tr, addr)

TrackerNext == issue_mitig \/ \E addr \in RowAddrs : insert(addr)

TrackerSpec == TrackerInit /\ [][TrackerNext]_tr

-----------------------------------------------------------------------------
(* Every field keeps its type; in particular head and tail stay inside the *)
(* vector whatever the order of calls, although remove() never clears a    *)
(* slot.                                                                   *)
TrackerTypeOK == tr \in TrackerType

(* The circular buffer's three cursors agree: the write position is        *)
(* num_valid places after the read position.                               *)
CursorsAgree == tr.tail = SlotAt(tr, tr.num_valid)

(* The rows the tracker holds, oldest first.                               *)
Held(u) == [i \in 1 .. u.num_valid |-> u.tracker[SlotAt(u, i - 1)]]

Contents == Held(tr)

(* A row is held, was evicted by insert() or was returned by               *)
(* issue_mitig(); calls of issue_mitig() on an empty tracker return -1 and *)
(* take nothing, so the rows returned are those not otherwise accounted    *)
(* for.                                                                    *)
Returned == tr.num_insert - tr.num_evict - tr.num_valid

(* No slot that counts as valid holds the -1 it was constructed with:      *)
(* issue_mitig() answers -1 only when the tracker is empty, which is how   *)
(* RFM::access() tells a mitigation from an idle slot.                     *)
NoPhantomRow ==
  /\ \A i \in 0 .. tr.num_valid - 1 : tr.tracker[SlotAt(tr, i)] \in RowAddrs
  /\ (Victim(tr) = NoRow) <=> (tr.num_valid = 0)

Fifo == INSTANCE MitigationFifo
          WITH Rows <- RowAddrs, queue <- Contents, admitted <- tr.num_insert,
               lost <- tr.num_evict, mitigated <- Returned

(* tracker.h implements the bounded FIFO: rows leave in the order they     *)
(* came, a row is lost only to a younger row that finds max_size rows, and *)
(* the counters that tracker.h prints account for every row.               *)
ImplementsFifo == Fifo!Spec
=============================================================================
