----------------------------- MODULE TrackerOps -----------------------------
(***************************************************************************)
(* The in-DRAM aggressor tracker of PrIDE: class Tracker of                *)
(* performance/gem5/src/mem/tracker.h, a circular buffer of row addresses. *)
(* A tracker is a record with the fields of the class; every method is an  *)
(* operator from a tracker to the tracker it leaves behind.                *)
(*                                                                         *)
(* Size is the member max_size, which only the constructor sets.           *)
(* Tracker::Init(size) resizes the vector and leaves max_size alone; every *)
(* configuration calls it with the constructor's own default, so the       *)
(* vector has exactly Size slots.                                          *)
(***************************************************************************)
EXTENDS Integers

CONSTANTS Size,        \* max_size: how many rows the tracker holds
          RowAddrs     \* the row addresses that can be inserted

ASSUME SizeAssumption == Size \in Nat \ {0}

\* Row addresses are non-negative, so that -1 can mean "no row".
ASSUME RowsAssumption == RowAddrs \subseteq Nat

NoRow == -1

Slots == 0 .. Size - 1

NewTracker ==
  [tracker    |-> [s \in Slots |-> NoRow],
   num_valid  |-> 0,
   head       |-> 0,
   tail       |-> 0,
   num_remove |-> 0,
   num_evict  |-> 0,
   num_insert |-> 0]

TrackerType ==
  [tracker    : [Slots -> RowAddrs \cup {NoRow}],
   num_valid  : 0 .. Size,
   head       : Slots,
   tail       : Slots,
   num_remove : Nat,
   num_evict  : Nat,
   num_insert : Nat]

\* The next slot of the circular buffer, and the slot i places after the head.
NextSlot(s) == (s + 1) % Size

SlotAt(t, i) == (t.head + i) % Size

\* A tracker the methods can meet: the write position is num_valid places
\* after the read position, and the slots between them hold inserted rows.
GoodTracker(t) ==
  /\ t \in TrackerType
  /\ t.tail = SlotAt(t, t.num_valid)
  /\ \A i \in 0 .. t.num_valid - 1 : t.tracker[SlotAt(t, i)] \in RowAddrs

\* What remove() returns: the oldest row, or -1 from an empty tracker.
Victim(t) == IF t.num_valid > 0 THEN t.tracker[t.head] ELSE NoRow

\* The private remove(): the slot keeps its stale contents.
Remove(t) ==
  IF t.num_valid > 0
  THEN [t EXCEPT !.head = NextSlot(@), !.num_valid = @ - 1]
  ELSE t

\* num_remove counts the mitigation slots offered, not the rows taken.
IssueMitig(t) == Remove([t EXCEPT !.num_remove = @ + 1])

\* Mutants of the eviction: the head stays behind; the loss is not counted.
MakeRoomKeepHead(t) ==
  IF t.num_valid = Size
  THEN [t EXCEPT !.num_evict = @ + 1, !.num_valid = @ - 1] ELSE t

MakeRoomUncounted(t) == IF t.num_valid = Size THEN Remove(t) ELSE t

\* insert() on a full tracker first loses its oldest row.
MakeRoom(t) ==
  IF t.num_valid = Size THEN Remove([t EXCEPT !.num_evict = @ + 1]) ELSE t

\* Mutant: the tail moves before the row is written.
InsertAfterTail(t, addr) ==
  [MakeRoom(t) EXCEPT !.tracker[NextSlot(t.tail)] = addr,
                      !.tail                      = NextSlot(@),
                      !.num_valid                 = @ + 1,
                      !.num_insert                = @ + 1]

Insert(t, addr) ==
  [MakeRoom(t) EXCEPT !.tracker[t.tail] = addr,
                      !.tail            = NextSlot(@),
                      !.num_valid       = @ + 1,
                      !.num_insert      = @ + 1]
=============================================================================
