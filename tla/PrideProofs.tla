----------------------------- MODULE PrideProofs -----------------------------
(***************************************************************************)
(* PrIDE's tracker and the RFM that schedules its mitigations, for every   *)
(* size of the tracker, every set of rows, any number of banks, every RFM  *)
(* threshold and every refresh interval.  First what the methods of        *)
(* tracker.h do to a tracker; then one tracker under any order of calls    *)
(* (the cursors agree, no stale slot is returned, the circular buffer      *)
(* implements the bounded FIFO queue); then the trackers of all banks: how *)
(* long a row may wait, and that every row and every slot is accounted     *)
(* for.                                                                    *)
(***************************************************************************)
EXTENDS Tracker, RFM, FiniteSetTheorems, SequenceTheorems, TLAPS

-----------------------------------------------------------------------------
(* The methods of the tracker                                              *)

(* Cursor arithmetic without the remainder: the slot i places after h.     *)
LEMMA Wrap ==
  ASSUME NEW h \in Slots, NEW i \in 0 .. Size
  PROVE  /\ (h + i) % Size = IF h + i < Size THEN h + i ELSE h + i - Size
         /\ (h + i) % Size \in Slots
<1>1. CASE h + i < Size
  BY <1>1, SizeAssumption DEF Slots
<1>2. CASE h + i >= Size
  BY <1>2, SizeAssumption DEF Slots
<1> QED BY <1>1, <1>2, SizeAssumption DEF Slots

(* The same for one step of a cursor.                                      *)
LEMMA Step ==
  ASSUME NEW s \in Slots
  PROVE  /\ NextSlot(s) = IF s + 1 = Size THEN 0 ELSE s + 1
         /\ NextSlot(s) \in Slots
<1>1. 1 \in 0 .. Size
  BY SizeAssumption
<1>2. (s + 1) % Size = IF s + 1 < Size THEN s + 1 ELSE s + 1 - Size
  BY <1>1, Wrap
<1> QED BY <1>2, SizeAssumption DEF NextSlot, Slots

(* Walking i places from the slot after h is walking i + 1 places from h,  *)
(* and stepping once more from i places after h likewise.                  *)
LEMMA StepWrap ==
  ASSUME NEW h \in Slots, NEW i \in 0 .. Size - 1
  PROVE  /\ (NextSlot(h) + i) % Size = (h + (i + 1)) % Size
         /\ NextSlot((h + i) % Size) = (h + (i + 1)) % Size
<1> DEFINE n == NextSlot(h)
           m == (h + i) % Size
<1>1. n \in Slots /\ n = IF h + 1 = Size THEN 0 ELSE h + 1
  BY Step
<1>2. i \in 0 .. Size /\ i + 1 \in 0 .. Size
  BY SizeAssumption
<1>3. m \in Slots /\ m = IF h + i < Size THEN h + i ELSE h + i - Size
  BY <1>2, Wrap
<1>4. NextSlot(m) = IF m + 1 = Size THEN 0 ELSE m + 1
  BY <1>3, Step
<1> HIDE DEF n, m
<1>5. (n + i) % Size = IF n + i < Size THEN n + i ELSE n + i - Size
  BY <1>1, <1>2, Wrap
<1>6. (h + (i + 1)) % Size
        = IF h + (i + 1) < Size THEN h + (i + 1) ELSE h + (i + 1) - Size
  BY <1>2, Wrap
<1>7. (n + i) % Size = (h + (i + 1)) % Size
  BY <1>1, <1>2, <1>5, <1>6, SizeAssumption DEF Slots
<1>8. NextSlot(m) = (h + (i + 1)) % Size
  BY <1>2, <1>3, <1>4, <1>6, SizeAssumption DEF Slots
<1> QED BY <1>7, <1>8 DEF n, m

(* Different places of the buffer are different slots.                     *)
LEMMA SlotInjective ==
  ASSUME NEW h \in Slots, NEW i \in Slots, NEW j \in Slots,
         (h + i) % Size = (h + j) % Size
  PROVE  i = j
<1>1. i \in 0 .. Size /\ j \in 0 .. Size
  BY SizeAssumption DEF Slots
<1>2. (h + i) % Size = IF h + i < Size THEN h + i ELSE h + i - Size
  BY <1>1, Wrap
<1>3. (h + j) % Size = IF h + j < Size THEN h + j ELSE h + j - Size
  BY <1>1, Wrap
<1> QED BY <1>2, <1>3, SizeAssumption DEF Slots

(* A full circle ends where it began.                                      *)
LEMMA FullCircle ==
  ASSUME NEW h \in Slots
  PROVE  (h + Size) % Size = (h + 0) % Size /\ (h + 0) % Size = h
<1>1. Size \in 0 .. Size /\ 0 \in 0 .. Size
  BY SizeAssumption
<1>2. (h + Size) % Size = IF h + Size < Size THEN h + Size ELSE h + Size - Size
  BY <1>1, Wrap
<1>3. (h + 0) % Size = IF h + 0 < Size THEN h + 0 ELSE h + 0 - Size
  BY <1>1, Wrap
<1> QED BY <1>2, <1>3, SizeAssumption DEF Slots

-----------------------------------------------------------------------------
(* A new tracker is well formed and empty.                                 *)
LEMMA NewTrackerGood == GoodTracker(NewTracker)
<1>1. 0 \in Slots
  BY SizeAssumption DEF Slots
<1>2. (0 + 0) % Size = 0
  BY <1>1, FullCircle
<1>3. NewTracker \in TrackerType
  BY <1>1, SizeAssumption DEF NewTracker, TrackerType
<1> QED BY <1>2, <1>3, SizeAssumption DEF GoodTracker, NewTracker, SlotAt

(* remove() on a non-empty tracker takes the head and moves every other    *)
(* row one place forward.                                                  *)
LEMMA RemoveFacts ==
  ASSUME NEW u, GoodTracker(u), u.num_valid > 0
  PROVE  /\ GoodTracker(Remove(u))
         /\ Remove(u).num_valid = u.num_valid - 1
         /\ Remove(u).tracker = u.tracker
         /\ Remove(u).tail = u.tail
         /\ Remove(u).head = NextSlot(u.head)
         /\ Remove(u).num_remove = u.num_remove
         /\ Remove(u).num_evict = u.num_evict
         /\ Remove(u).num_insert = u.num_insert
         /\ \A i \in 0 .. Size - 1 : SlotAt(Remove(u), i) = SlotAt(u, i + 1)
<1> DEFINE v == Remove(u)
<1>0. u \in TrackerType
  BY DEF GoodTracker
<1>1. NextSlot(u.head) \in Slots
  BY <1>0, Step DEF TrackerType
<1>2. u.num_valid - 1 \in 0 .. Size
  BY <1>0, SizeAssumption DEF TrackerType
<1>3. v = [u EXCEPT !.head = NextSlot(u.head), !.num_valid = u.num_valid - 1]
  BY DEF Remove
<1>4. /\ v.num_valid = u.num_valid - 1
      /\ v.tracker = u.tracker
      /\ v.tail = u.tail
      /\ v.head = NextSlot(u.head)
      /\ v.num_remove = u.num_remove
      /\ v.num_evict = u.num_evict
      /\ v.num_insert = u.num_insert
      /\ v \in TrackerType
  BY <1>0, <1>1, <1>2, <1>3 DEF TrackerType
<1>5. ASSUME NEW i \in 0 .. Size - 1
      PROVE  SlotAt(v, i) = SlotAt(u, i + 1)
  BY <1>0, <1>4, StepWrap DEF SlotAt, TrackerType
<1> HIDE DEF v
<1>6. v.tail = SlotAt(v, v.num_valid)
  <2>1. v.num_valid \in 0 .. Size - 1 /\ v.num_valid + 1 = u.num_valid
    BY <1>0, <1>4, SizeAssumption DEF TrackerType
  <2> QED BY <2>1, <1>4, <1>5 DEF GoodTracker
<1>7. ASSUME NEW i \in 0 .. v.num_valid - 1
      PROVE  v.tracker[SlotAt(v, i)] \in RowAddrs
  <2>1. i \in 0 .. Size - 1 /\ i + 1 \in 0 .. u.num_valid - 1
    BY <1>0, <1>4, SizeAssumption DEF TrackerType
  <2> QED BY <2>1, <1>4, <1>5 DEF GoodTracker
<1>8. GoodTracker(v)
  BY <1>4, <1>6, <1>7 DEF GoodTracker
<1> QED BY <1>4, <1>5, <1>8 DEF v

(* Counting a mitigation slot or an eviction leaves a tracker well formed. *)
LEMMA CountGood ==
  ASSUME NEW u, GoodTracker(u), NEW m \in Nat, NEW e \in Nat
  PROVE  GoodTracker([u EXCEPT !.num_remove = m]) /\ GoodTracker([u EXCEPT !.num_evict = e])
<1>0. u \in TrackerType
  BY DEF GoodTracker
<1> DEFINE v == [u EXCEPT !.num_remove = m]
           w == [u EXCEPT !.num_evict = e]
<1>1. /\ v \in TrackerType /\ w \in TrackerType
      /\ v.head = u.head /\ w.head = u.head
      /\ v.tail = u.tail /\ w.tail = u.tail
      /\ v.num_valid = u.num_valid /\ w.num_valid = u.num_valid
      /\ v.tracker = u.tracker /\ w.tracker = u.tracker
  BY <1>0 DEF TrackerType
<1> HIDE DEF v, w
<1>2. GoodTracker(v)
  BY <1>1 DEF GoodTracker, SlotAt
<1>3. GoodTracker(w)
  BY <1>1 DEF GoodTracker, SlotAt
<1> QED BY <1>2, <1>3 DEF v, w

(* issue_mitig() takes the oldest row when there is one, and otherwise     *)
(* only counts.                                                            *)
LEMMA IssueMitigFacts ==
  ASSUME NEW u, GoodTracker(u)
  PROVE  /\ GoodTracker(IssueMitig(u))
         /\ IssueMitig(u).num_remove = u.num_remove + 1
         /\ IssueMitig(u).num_evict = u.num_evict
         /\ IssueMitig(u).num_insert = u.num_insert
         /\ IssueMitig(u).tracker = u.tracker
         /\ IssueMitig(u).tail = u.tail
         /\ u.num_valid = 0 => /\ IssueMitig(u).num_valid = 0
                               /\ IssueMitig(u).head = u.head
         /\ u.num_valid > 0 =>
              /\ IssueMitig(u).num_valid = u.num_valid - 1
              /\ \A i \in 0 .. Size - 1 :
                   SlotAt(IssueMitig(u), i) = SlotAt(u, i + 1)
<1> DEFINE v == [u EXCEPT !.num_remove = @ + 1]
<1>0. u \in TrackerType
  BY DEF GoodTracker
<1>1. u.num_remove + 1 \in Nat /\ u.num_remove \in Nat /\ u.num_valid \in 0 .. Size
  BY <1>0 DEF TrackerType
<1>2. GoodTracker(v)
  BY <1>1, CountGood
<1>3. /\ v.num_remove = u.num_remove + 1
      /\ v.num_evict = u.num_evict
      /\ v.num_insert = u.num_insert
      /\ v.tracker = u.tracker
      /\ v.tail = u.tail
      /\ v.head = u.head
      /\ v.num_valid = u.num_valid
  BY <1>0 DEF TrackerType
<1> HIDE DEF v
<1>4. IssueMitig(u) = Remove(v)
  BY DEF IssueMitig, v
<1>5. \A i : SlotAt(v, i) = SlotAt(u, i)
  BY <1>3 DEF SlotAt
<1>6. CASE u.num_valid = 0
  <2>1. Remove(v) = v
    BY <1>3, <1>6 DEF Remove
  <2> QED BY <1>2, <1>3, <1>4, <1>6, <2>1
<1>7. CASE u.num_valid > 0
  BY <1>2, <1>3, <1>4, <1>5, <1>7, RemoveFacts
<1> QED BY <1>1, <1>6, <1>7, SizeAssumption

(* insert() on a full tracker loses exactly the oldest row first.          *)
LEMMA MakeRoomFacts ==
  ASSUME NEW u, GoodTracker(u)
  PROVE  /\ GoodTracker(MakeRoom(u))
         /\ MakeRoom(u).num_valid < Size
         /\ MakeRoom(u).num_remove = u.num_remove
         /\ MakeRoom(u).num_insert = u.num_insert
         /\ MakeRoom(u).tracker = u.tracker
         /\ MakeRoom(u).tail = u.tail
         /\ u.num_valid # Size => MakeRoom(u) = u
         /\ u.num_valid = Size =>
              /\ MakeRoom(u).num_valid = Size - 1
              /\ MakeRoom(u).num_evict = u.num_evict + 1
              /\ \A i \in 0 .. Size - 1 :
                   SlotAt(MakeRoom(u), i) = SlotAt(u, i + 1)
<1> DEFINE v == [u EXCEPT !.num_evict = @ + 1]
<1>0. u \in TrackerType
  BY DEF GoodTracker
<1>1. u.num_evict + 1 \in Nat /\ u.num_evict \in Nat /\ u.num_valid \in 0 .. Size
  BY <1>0 DEF TrackerType
<1>2. GoodTracker(v)
  BY <1>1, CountGood
<1>3. /\ v.num_remove = u.num_remove
      /\ v.num_evict = u.num_evict + 1
      /\ v.num_insert = u.num_insert
      /\ v.tracker = u.tracker
      /\ v.tail = u.tail
      /\ v.head = u.head
      /\ v.num_valid = u.num_valid
  BY <1>0 DEF TrackerType
<1> HIDE DEF v
<1>4. \A i : SlotAt(v, i) = SlotAt(u, i)
  BY <1>3 DEF SlotAt
<1>5. CASE u.num_valid = Size
  <2>1. MakeRoom(u) = Remove(v)
    BY <1>5 DEF MakeRoom, v
  <2>2. v.num_valid > 0
    BY <1>3, <1>5, SizeAssumption
  <2> QED BY <1>2, <1>3, <1>4, <1>5, <2>1, <2>2, RemoveFacts, SizeAssumption
<1>6. CASE u.num_valid # Size
  <2>1. MakeRoom(u) = u
    BY <1>6 DEF MakeRoom
  <2> QED BY <1>1, <1>6, <2>1, SizeAssumption
<1> QED BY <1>5, <1>6

(* insert() puts the row last, at the old tail, and keeps the others in    *)
(* their slots.                                                            *)
LEMMA InsertFacts ==
  ASSUME NEW u, GoodTracker(u), NEW addr \in RowAddrs
  PROVE  /\ GoodTracker(Insert(u, addr))
         /\ Insert(u, addr).num_remove = u.num_remove
         /\ Insert(u, addr).num_insert = u.num_insert + 1
         /\ Insert(u, addr).num_evict = MakeRoom(u).num_evict
         /\ Insert(u, addr).num_valid = MakeRoom(u).num_valid + 1
         /\ Insert(u, addr).tracker = [u.tracker EXCEPT ![u.tail] = addr]
         /\ \A i : SlotAt(Insert(u, addr), i) = SlotAt(MakeRoom(u), i)
         /\ SlotAt(MakeRoom(u), MakeRoom(u).num_valid) = u.tail
         /\ u.tail \in Slots
         /\ \A i \in 0 .. MakeRoom(u).num_valid - 1 :
              SlotAt(MakeRoom(u), i) # u.tail
<1> DEFINE v == MakeRoom(u)
           w == Insert(u, addr)
<1>0. /\ u \in TrackerType
      /\ GoodTracker(v)
      /\ v \in TrackerType
      /\ v.num_valid < Size
      /\ v.num_remove = u.num_remove
      /\ v.num_insert = u.num_insert
      /\ v.tracker = u.tracker
      /\ v.tail = u.tail
  BY MakeRoomFacts DEF GoodTracker
<1>1. w = [v EXCEPT !.tracker[u.tail] = addr, !.tail = NextSlot(@),
                    !.num_valid = @ + 1, !.num_insert = @ + 1]
  BY DEF Insert
<1> HIDE DEF v
<1>2. /\ v.head \in Slots
      /\ v.num_valid \in 0 .. Size - 1
      /\ v.num_insert \in Nat
      /\ u.tail \in Slots
      /\ v.tail \in Slots
      /\ v.tracker \in [Slots -> RowAddrs \cup {NoRow}]
      /\ u.tracker \in [Slots -> RowAddrs \cup {NoRow}]
  BY <1>0, SizeAssumption DEF TrackerType
<1>3. NextSlot(v.tail) \in Slots
  BY <1>2, Step
<1>4. /\ w.num_remove = v.num_remove
      /\ w.num_insert = v.num_insert + 1
      /\ w.num_evict = v.num_evict
      /\ w.num_valid = v.num_valid + 1
      /\ w.head = v.head
      /\ w.tail = NextSlot(v.tail)
      /\ w.tracker = [v.tracker EXCEPT ![u.tail] = addr]
  BY <1>0, <1>1 DEF TrackerType
<1>5. /\ w.tracker \in [Slots -> RowAddrs \cup {NoRow}]
      /\ w.num_valid \in 0 .. Size
      /\ w.num_insert \in Nat
  BY <1>2, <1>4, SizeAssumption
<1>6. w \in TrackerType
  BY <1>0, <1>1, <1>3, <1>4, <1>5 DEF TrackerType
<1> HIDE DEF w
<1>7. \A i : SlotAt(w, i) = SlotAt(v, i)
  BY <1>4 DEF SlotAt
<1>8. SlotAt(v, v.num_valid) = u.tail
  BY <1>0 DEF GoodTracker
<1>9. ASSUME NEW i \in 0 .. v.num_valid - 1
      PROVE  SlotAt(v, i) # u.tail
  <2>1. i \in Slots /\ v.num_valid \in Slots /\ i # v.num_valid
    BY <1>2, SizeAssumption DEF Slots
  <2> QED BY <1>2, <1>8, <2>1, SlotInjective DEF SlotAt
<1>10. w.tail = SlotAt(w, w.num_valid)
  BY <1>2, <1>4, <1>8, <1>0, StepWrap DEF SlotAt
<1>11. ASSUME NEW i \in 0 .. w.num_valid - 1
       PROVE  w.tracker[SlotAt(w, i)] \in RowAddrs
  <2>1. CASE i = v.num_valid
    BY <1>2, <1>4, <1>7, <1>8, <2>1
  <2>2. CASE i # v.num_valid
    <3>1. i \in 0 .. v.num_valid - 1 /\ i \in 0 .. Size
      BY <1>2, <1>4, <2>2, SizeAssumption
    <3>2. SlotAt(v, i) \in Slots
      BY <1>2, <3>1, Wrap DEF SlotAt
    <3>3. v.tracker[SlotAt(v, i)] \in RowAddrs
      BY <1>0, <3>1 DEF GoodTracker
    <3> QED BY <1>2, <1>4, <1>7, <1>9, <3>1, <3>2, <3>3
  <2> QED BY <2>1, <2>2
<1>12. GoodTracker(w)
  BY <1>6, <1>10, <1>11 DEF GoodTracker
<1> QED
  BY <1>0, <1>2, <1>4, <1>7, <1>8, <1>9, <1>12 DEF v, w

-----------------------------------------------------------------------------
(* One tracker                                                             *)

(* The inductive invariant.  NoPhantomRow alone is not inductive: a row    *)
(* written at the tail joins the valid ones only if the tail is where the  *)
(* head and num_valid say, which is CursorsAgree.                          *)
TrackerInv == GoodTracker(tr)

LEMMA TrackerInvariance == TrackerSpec => []TrackerInv
<1>1. TrackerInit => TrackerInv
  BY NewTrackerGood DEF TrackerInit, TrackerInv
<1>2. TrackerInv /\ [TrackerNext]_tr => TrackerInv'
  <2> SUFFICES ASSUME TrackerInv, [TrackerNext]_tr PROVE TrackerInv'
    OBVIOUS
  <2>1. CASE issue_mitig
    BY <2>1, IssueMitigFacts DEF TrackerInv, issue_mitig
  <2>2. ASSUME NEW addr \in RowAddrs, insert(addr) PROVE TrackerInv'
    BY <2>2, InsertFacts DEF TrackerInv, insert
  <2>3. CASE UNCHANGED tr
    BY <2>3 DEF TrackerInv
  <2> QED BY <2>1, <2>2, <2>3 DEF TrackerNext
<1> QED BY <1>1, <1>2, PTL DEF TrackerSpec

(* Type correctness: head and tail never leave the vector.                 *)
THEOREM TrackerTypeCorrect == TrackerSpec => []TrackerTypeOK
<1>1. TrackerInv => TrackerTypeOK
  BY DEF TrackerInv, GoodTracker, TrackerTypeOK
<1> QED BY <1>1, TrackerInvariance, PTL

(* The write position is always num_valid places after the read position.  *)
THEOREM Cursors == TrackerSpec => []CursorsAgree
<1>1. TrackerInv => CursorsAgree
  BY DEF TrackerInv, GoodTracker, CursorsAgree
<1> QED BY <1>1, TrackerInvariance, PTL

(* issue_mitig() answers -1 exactly when nothing is held, so a row that    *)
(* was sampled is never mistaken for an idle mitigation slot.              *)
THEOREM NoPhantom == TrackerSpec => []NoPhantomRow
<1>1. TrackerInv => NoPhantomRow
  <2> SUFFICES ASSUME TrackerInv PROVE NoPhantomRow
    OBVIOUS
  <2>1. /\ tr.num_valid \in 0 .. Size
        /\ tr.head \in Slots
        /\ \A i \in 0 .. tr.num_valid - 1 : tr.tracker[SlotAt(tr, i)] \in RowAddrs
    BY DEF TrackerInv, GoodTracker, TrackerType
  <2>2. SlotAt(tr, 0) = tr.head
    BY <2>1, FullCircle DEF SlotAt
  <2>3. tr.num_valid > 0 => tr.tracker[tr.head] \in RowAddrs
    BY <2>1, <2>2, SizeAssumption
  <2>4. NoRow \notin RowAddrs
    BY RowsAssumption DEF NoRow
  <2> QED BY <2>1, <2>3, <2>4, SizeAssumption DEF NoPhantomRow, Victim
<1> QED BY <1>1, TrackerInvariance, PTL

-----------------------------------------------------------------------------
(* The rows held, as a sequence: its length and its elements.              *)
LEMMA HeldFacts ==
  ASSUME NEW u, GoodTracker(u)
  PROVE  /\ Held(u) \in Seq(RowAddrs)
         /\ Len(Held(u)) = u.num_valid
         /\ u.num_valid \in 0 .. Size
         /\ \A i \in 1 .. u.num_valid : Held(u)[i] = u.tracker[SlotAt(u, i - 1)]
<1>1. u.num_valid \in 0 .. Size
  BY DEF GoodTracker, TrackerType
<1>2. u.num_valid \in Nat
  BY <1>1, SizeAssumption
<1>3. ASSUME NEW i \in 1 .. u.num_valid
      PROVE  u.tracker[SlotAt(u, i - 1)] \in RowAddrs
  <2>1. i - 1 \in 0 .. u.num_valid - 1
    BY <1>2
  <2> QED BY <2>1 DEF GoodTracker
<1>4. Held(u) \in [1 .. u.num_valid -> RowAddrs]
  BY <1>3 DEF Held
<1>5. Held(u) \in Seq(RowAddrs)
  BY <1>2, <1>4, SeqDef
<1>6. Len(Held(u)) = u.num_valid
  <2>1. Len(Held(u)) \in Nat /\ DOMAIN Held(u) = 1 .. Len(Held(u))
    BY <1>5, LenProperties
  <2>2. DOMAIN Held(u) = 1 .. u.num_valid
    BY DEF Held
  <2> QED BY <1>2, <2>1, <2>2
<1>7. \A i \in 1 .. u.num_valid : Held(u)[i] = u.tracker[SlotAt(u, i - 1)]
  BY DEF Held
<1> QED BY <1>1, <1>5, <1>6, <1>7

(* Moving every row one place forward is Tail.                             *)
LEMMA HeldShift ==
  ASSUME NEW u, GoodTracker(u), u.num_valid > 0,
         NEW v, GoodTracker(v), v.num_valid = u.num_valid - 1,
         v.tracker = u.tracker,
         \A i \in 0 .. Size - 1 : SlotAt(v, i) = SlotAt(u, i + 1)
  PROVE  Held(u) # <<>> /\ Held(v) = Tail(Held(u))
<1>1. /\ Held(u) \in Seq(RowAddrs) /\ Held(v) \in Seq(RowAddrs)
      /\ Len(Held(u)) = u.num_valid /\ Len(Held(v)) = v.num_valid
      /\ u.num_valid \in 0 .. Size
      /\ \A i \in 1 .. u.num_valid : Held(u)[i] = u.tracker[SlotAt(u, i - 1)]
      /\ \A i \in 1 .. v.num_valid : Held(v)[i] = v.tracker[SlotAt(v, i - 1)]
  BY HeldFacts
<1>2. Held(u) # <<>>
  BY <1>1, EmptySeq
<1>3. /\ Tail(Held(u)) \in Seq(RowAddrs)
      /\ Len(Tail(Held(u))) = u.num_valid - 1
      /\ \A i \in 1 .. u.num_valid - 1 : Tail(Held(u))[i] = Held(u)[i + 1]
  BY <1>1, <1>2, HeadTailProperties
<1>4. ASSUME NEW i \in 1 .. v.num_valid
      PROVE  Held(v)[i] = Tail(Held(u))[i]
  <2>1. /\ i \in 1 .. u.num_valid - 1
        /\ i + 1 \in 1 .. u.num_valid
        /\ i - 1 \in 0 .. Size - 1
        /\ (i + 1) - 1 = (i - 1) + 1
    BY <1>1, SizeAssumption
  <2>2. Held(v)[i] = u.tracker[SlotAt(u, (i - 1) + 1)]
    BY <1>1, <2>1
  <2>3. Tail(Held(u))[i] = u.tracker[SlotAt(u, (i + 1) - 1)]
    BY <1>1, <1>3, <2>1
  <2> QED BY <2>1, <2>2, <2>3
<1> QED BY <1>1, <1>2, <1>3, <1>4, SeqEqual

(* Writing a row at the tail of a tracker with room is Append.             *)
LEMMA HeldAppend ==
  ASSUME NEW u, GoodTracker(u), u.num_valid < Size, NEW addr \in RowAddrs,
         NEW v, GoodTracker(v), v.num_valid = u.num_valid + 1,
         v.tracker = [u.tracker EXCEPT ![u.tail] = addr],
         \A i : SlotAt(v, i) = SlotAt(u, i),
         SlotAt(u, u.num_valid) = u.tail,
         \A i \in 0 .. u.num_valid - 1 : SlotAt(u, i) # u.tail
  PROVE  Held(v) = Append(Held(u), addr)
<1>1. /\ Held(u) \in Seq(RowAddrs) /\ Held(v) \in Seq(RowAddrs)
      /\ Len(Held(u)) = u.num_valid /\ Len(Held(v)) = v.num_valid
      /\ u.num_valid \in 0 .. Size
      /\ \A i \in 1 .. u.num_valid : Held(u)[i] = u.tracker[SlotAt(u, i - 1)]
      /\ \A i \in 1 .. v.num_valid : Held(v)[i] = v.tracker[SlotAt(v, i - 1)]
  BY HeldFacts
<1>2. /\ u.tail \in Slots
      /\ u.head \in Slots
      /\ u.tracker \in [Slots -> RowAddrs \cup {NoRow}]
  BY DEF GoodTracker, TrackerType
<1>3. /\ Append(Held(u), addr) \in Seq(RowAddrs)
      /\ Len(Append(Held(u), addr)) = u.num_valid + 1
      /\ \A i \in 1 .. u.num_valid : Append(Held(u), addr)[i] = Held(u)[i]
      /\ Append(Held(u), addr)[u.num_valid + 1] = addr
  BY <1>1, AppendProperties
<1>4. ASSUME NEW i \in 1 .. v.num_valid
      PROVE  Held(v)[i] = Append(Held(u), addr)[i]
  <2>1. Held(v)[i] = v.tracker[SlotAt(u, i - 1)]
    BY <1>1
  <2>2. CASE i = u.num_valid + 1
    <3>1. i - 1 = u.num_valid
      BY <1>1, <2>2
    <3> QED BY <1>2, <1>3, <2>1, <2>2, <3>1
  <2>3. CASE i # u.num_valid + 1
    <3>1. /\ i \in 1 .. u.num_valid
          /\ i - 1 \in 0 .. u.num_valid - 1
          /\ i - 1 \in 0 .. Size
      BY <1>1, <2>3, SizeAssumption
    <3>2. SlotAt(u, i - 1) \in Slots
      BY <1>2, <3>1, Wrap DEF SlotAt
    <3>3. v.tracker[SlotAt(u, i - 1)] = u.tracker[SlotAt(u, i - 1)]
      BY <1>2, <3>1, <3>2
    <3> QED BY <1>1, <1>3, <2>1, <3>1, <3>3
  <2> QED BY <2>2, <2>3
<1> DEFINE new == Append(Held(u), addr)
           old == Held(v)
<1>5. /\ old \in Seq(RowAddrs) /\ new \in Seq(RowAddrs)
      /\ Len(old) = Len(new)
      /\ \A i \in 1 .. Len(old) : old[i] = new[i]
  BY <1>1, <1>3, <1>4
<1> HIDE DEF new, old
<1>6. old = new
  BY <1>5, SeqEqual
<1> QED BY <1>6 DEF new, old

(* issue_mitig() is Mitigate, or a stutter when nothing is held.           *)
LEMMA MitigateStep == TrackerInv /\ issue_mitig => [Fifo!Next]_(Fifo!vars)
<1> SUFFICES ASSUME TrackerInv, issue_mitig PROVE [Fifo!Next]_(Fifo!vars)
  OBVIOUS
<1> DEFINE v == IssueMitig(tr)
<1>1. /\ GoodTracker(tr) /\ GoodTracker(v)
      /\ tr' = v
      /\ tr.num_valid \in 0 .. Size
      /\ tr.num_insert \in Nat /\ tr.num_evict \in Nat
      /\ v.num_insert = tr.num_insert
      /\ v.num_evict = tr.num_evict
      /\ v.tracker = tr.tracker
  BY IssueMitigFacts DEF TrackerInv, issue_mitig, GoodTracker, TrackerType
<1>2. CASE tr.num_valid = 0
  <2>1. v.num_valid = 0 /\ v.head = tr.head
    BY <1>1, <1>2, IssueMitigFacts
  <2>2. Held(v) = Held(tr)
    BY <1>1, <1>2, <2>1 DEF Held, SlotAt
  <2> QED BY <1>1, <1>2, <2>1, <2>2 DEF Fifo!vars, Contents, Returned
<1>3. CASE tr.num_valid > 0
  <2>1. /\ v.num_valid = tr.num_valid - 1
        /\ \A i \in 0 .. Size - 1 : SlotAt(v, i) = SlotAt(tr, i + 1)
    BY <1>1, <1>3, IssueMitigFacts
  <2>2. Held(tr) # <<>> /\ Held(v) = Tail(Held(tr))
    BY <1>1, <1>3, <2>1, HeldShift
  <2>3. Returned' = Returned + 1
    BY <1>1, <2>1, SizeAssumption DEF Returned
  <2>4. Fifo!Mitigate
    BY <1>1, <2>2, <2>3 DEF Fifo!Mitigate, Contents
  <2> QED BY <2>4 DEF Fifo!Next
<1> QED BY <1>1, <1>2, <1>3, SizeAssumption

(* insert() is Admit with room and AdmitAndLose without.                   *)
LEMMA InsertStep ==
  ASSUME NEW addr \in RowAddrs, TrackerInv, insert(addr)
  PROVE  Fifo!Next
<1> DEFINE w == MakeRoom(tr)
           v == Insert(tr, addr)
<1>1. /\ GoodTracker(tr) /\ GoodTracker(w) /\ GoodTracker(v)
      /\ tr' = v
      /\ tr.num_valid \in 0 .. Size
      /\ tr.num_insert \in Nat /\ tr.num_evict \in Nat
      /\ w.num_valid < Size
      /\ w.tracker = tr.tracker
      /\ w.tail = tr.tail
      /\ v.num_insert = tr.num_insert + 1
      /\ v.num_evict = w.num_evict
      /\ v.num_valid = w.num_valid + 1
      /\ v.tracker = [w.tracker EXCEPT ![w.tail] = addr]
      /\ \A i : SlotAt(v, i) = SlotAt(w, i)
      /\ SlotAt(w, w.num_valid) = w.tail
      /\ \A i \in 0 .. w.num_valid - 1 : SlotAt(w, i) # w.tail
  BY InsertFacts, MakeRoomFacts DEF TrackerInv, insert, GoodTracker, TrackerType
<1> HIDE DEF w, v
<1>2. Held(v) = Append(Held(w), addr)
  BY <1>1, HeldAppend
<1>3. Len(Held(tr)) = tr.num_valid
  BY <1>1, HeldFacts
<1>4. CASE tr.num_valid = Size
  <2>1. /\ w.num_valid = Size - 1
        /\ w.num_evict = tr.num_evict + 1
        /\ \A i \in 0 .. Size - 1 : SlotAt(w, i) = SlotAt(tr, i + 1)
    BY <1>1, <1>4, MakeRoomFacts DEF w
  <2>2. tr.num_valid > 0 /\ w.num_valid = tr.num_valid - 1
    BY <1>4, <2>1, SizeAssumption
  <2>3. Held(w) = Tail(Held(tr))
    BY <1>1, <2>1, <2>2, HeldShift
  <2>4. Returned' = Returned
    BY <1>1, <1>4, <2>1, SizeAssumption DEF Returned
  <2>5. Fifo!AdmitAndLose(addr)
    BY <1>1, <1>2, <1>3, <1>4, <2>1, <2>3, <2>4 DEF Fifo!AdmitAndLose, Contents
  <2> QED BY <2>5 DEF Fifo!Next
<1>5. CASE tr.num_valid # Size
  <2>1. w = tr
    BY <1>1, <1>5, MakeRoomFacts DEF w
  <2>2. Returned' = Returned
    BY <1>1, <2>1, SizeAssumption DEF Returned
  <2>3. Len(Contents) < Size
    BY <1>1, <1>3, <2>1 DEF Contents
  <2>4. Fifo!Admit(addr)
    BY <1>1, <1>2, <2>1, <2>2, <2>3 DEF Fifo!Admit, Contents
  <2> QED BY <2>4 DEF Fifo!Next
<1> QED BY <1>4, <1>5

(* The circular buffer of tracker.h implements the bounded FIFO queue.     *)
THEOREM Refinement == TrackerSpec => ImplementsFifo
<1>1. TrackerInit => Fifo!Init
  <2> SUFFICES ASSUME TrackerInit PROVE Fifo!Init
    OBVIOUS
  <2>1. tr.num_valid = 0 /\ tr.num_insert = 0 /\ tr.num_evict = 0
    BY DEF TrackerInit, NewTracker
  <2>2. GoodTracker(tr)
    BY NewTrackerGood DEF TrackerInit
  <2>3. Contents \in Seq(RowAddrs) /\ Len(Contents) = 0
    BY <2>1, <2>2, HeldFacts DEF Contents
  <2>4. Contents = <<>>
    BY <2>3, EmptySeq
  <2>5. Returned = 0
    BY <2>1 DEF Returned
  <2> QED BY <2>1, <2>4, <2>5 DEF Fifo!Init
<1>2. TrackerInv /\ [TrackerNext]_tr => [Fifo!Next]_(Fifo!vars)
  <2> SUFFICES ASSUME TrackerInv, [TrackerNext]_tr PROVE [Fifo!Next]_(Fifo!vars)
    OBVIOUS
  <2>1. CASE issue_mitig
    BY <2>1, MitigateStep
  <2>2. ASSUME NEW addr \in RowAddrs, insert(addr) PROVE [Fifo!Next]_(Fifo!vars)
    BY <2>2, InsertStep
  <2>3. CASE UNCHANGED tr
    BY <2>3 DEF Fifo!vars, Contents, Returned
  <2> QED BY <2>1, <2>2, <2>3 DEF TrackerNext
<1> QED BY <1>1, <1>2, TrackerInvariance, PTL DEF TrackerSpec, ImplementsFifo, Fifo!Spec

-----------------------------------------------------------------------------
(* The trackers of all banks                                               *)

(* Counting ACTs modulo the threshold.                                     *)
LEMMA WindowCount ==
  ASSUME NEW n \in Nat
  PROVE  /\ n % rfm_act_threshold \in 0 .. rfm_act_threshold - 1
         /\ (n + 1) % rfm_act_threshold
              = IF n % rfm_act_threshold = rfm_act_threshold - 1
                THEN 0 ELSE (n % rfm_act_threshold) + 1
<1> DEFINE K == rfm_act_threshold
           q == n \div K
           r == n % K
<1>1. K \in Nat \ {0}
  BY RFMAssumption
<1>2. q \in Nat /\ r \in 0 .. K - 1 /\ n = K * q + r
  BY <1>1
<1> HIDE DEF q, r
<1>3. CASE r = K - 1
  <2>1. n + 1 = K * (q + 1)
    BY <1>1, <1>2, <1>3
  <2>2. (K * (q + 1)) % K = 0
    BY <1>1, <1>2
  <2> QED BY <1>2, <1>3, <2>1, <2>2 DEF r
<1>4. CASE r # K - 1
  <2>1. n + 1 = K * q + (r + 1) /\ r + 1 \in 0 .. K - 1
    BY <1>1, <1>2, <1>4
  <2>2. (K * q + (r + 1)) % K = r + 1
    BY <1>1, <1>2, <2>1
  <2> QED BY <1>2, <1>4, <2>1, <2>2 DEF r
<1> QED BY <1>3, <1>4

Ages == [Slots -> Nat]

(* Every slot a tracker counts is a slot of the vector.                    *)
LEMMA SlotAtType ==
  ASSUME NEW u, GoodTracker(u), NEW i \in 0 .. Size
  PROVE  SlotAt(u, i) \in Slots
BY Wrap DEF GoodTracker, TrackerType, SlotAt

(* A mitigation slot moves every row one place on, which pays for a whole  *)
(* window.                                                                 *)
LEMMA IssueWaited ==
  ASSUME NEW u, GoodTracker(u), NEW a \in Ages,
         NEW m \in 0 .. rfm_act_threshold, Waited(u, a, m)
  PROVE  Waited(IssueMitig(u), a, 0)
<1> DEFINE v == IssueMitig(u)
<1>1. /\ u.num_valid \in 0 .. Size
      /\ u.num_valid = 0 => v.num_valid = 0
      /\ u.num_valid > 0 => v.num_valid = u.num_valid - 1
      /\ u.num_valid > 0 => \A i \in 0 .. Size - 1 : SlotAt(v, i) = SlotAt(u, i + 1)
  BY IssueMitigFacts DEF GoodTracker, TrackerType
<1> HIDE DEF v
<1> SUFFICES ASSUME NEW i \in 0 .. v.num_valid - 1
             PROVE  a[SlotAt(v, i)] <= (Size - 1 - i) * rfm_act_threshold + 0
  BY DEF Waited, v
<1>2. /\ u.num_valid > 0
      /\ i \in 0 .. Size - 1
      /\ i + 1 \in 0 .. u.num_valid - 1
      /\ i + 1 \in 0 .. Size
  BY <1>1, SizeAssumption
<1>3. a[SlotAt(u, i + 1)] <= (Size - 1 - (i + 1)) * rfm_act_threshold + m
  BY <1>2 DEF Waited
<1>4. a[SlotAt(u, i + 1)] \in Nat
  BY <1>2, SlotAtType DEF Ages
<1>5. (Size - 1 - (i + 1)) * rfm_act_threshold + m
        <= (Size - 1 - i) * rfm_act_threshold + 0
  <2>1. (Size - 1 - (i + 1)) * rfm_act_threshold
          = (Size - 1 - i) * rfm_act_threshold - rfm_act_threshold
    BY <1>2, SizeAssumption, RFMAssumption
  <2>2. (Size - 1 - i) * rfm_act_threshold \in Int
    BY <1>2, SizeAssumption, RFMAssumption
  <2> QED BY <2>1, <2>2, RFMAssumption
<1>6. /\ (Size - 1 - (i + 1)) * rfm_act_threshold + m \in Int
      /\ (Size - 1 - i) * rfm_act_threshold + 0 \in Int
  BY <1>2, SizeAssumption, RFMAssumption
<1>7. SlotAt(v, i) = SlotAt(u, i + 1)
  BY <1>1, <1>2
<1> QED BY <1>3, <1>4, <1>5, <1>6, <1>7

(* One more ACT ages every row by one.                                     *)
LEMMA GrowWaited ==
  ASSUME NEW u, GoodTracker(u), NEW a \in Ages, NEW m \in Nat, Waited(u, a, m)
  PROVE  Waited(u, [s \in Slots |-> a[s] + 1], m + 1)
<1> DEFINE g == [s \in Slots |-> a[s] + 1]
<1>1. u.num_valid \in 0 .. Size
  BY DEF GoodTracker, TrackerType
<1> SUFFICES ASSUME NEW i \in 0 .. u.num_valid - 1
             PROVE  g[SlotAt(u, i)] <= (Size - 1 - i) * rfm_act_threshold + (m + 1)
  BY DEF Waited
<1>2. i \in 0 .. Size
  BY <1>1, SizeAssumption
<1>3. SlotAt(u, i) \in Slots
  BY <1>2, SlotAtType
<1>4. g[SlotAt(u, i)] = a[SlotAt(u, i)] + 1 /\ a[SlotAt(u, i)] \in Nat
  BY <1>3 DEF Ages
<1>5. a[SlotAt(u, i)] <= (Size - 1 - i) * rfm_act_threshold + m
  BY DEF Waited
<1>6. (Size - 1 - i) * rfm_act_threshold \in Int
  BY <1>2, SizeAssumption, RFMAssumption
<1> QED BY <1>4, <1>5, <1>6

(* A sampled row joins with age 0; if it evicts the oldest row the others  *)
(* move one place on.                                                      *)
LEMMA InsertWaited ==
  ASSUME NEW u, GoodTracker(u), NEW a \in Ages, NEW m \in Nat,
         Waited(u, a, m), NEW row \in RowAddrs
  PROVE  LET v == Insert(u, row)
         IN  Waited(v, [a EXCEPT ![SlotAt(v, v.num_valid - 1)] = 0], m)
<1> DEFINE v == Insert(u, row)
           w == MakeRoom(u)
           z == SlotAt(v, v.num_valid - 1)
           e == [a EXCEPT ![z] = 0]
<1>1. /\ GoodTracker(w)
      /\ w.num_valid < Size
      /\ w.tail = u.tail
      /\ u.num_valid # Size => w = u
      /\ u.num_valid = Size =>
           /\ w.num_valid = Size - 1
           /\ \A i \in 0 .. Size - 1 : SlotAt(w, i) = SlotAt(u, i + 1)
  BY MakeRoomFacts
<1>2. /\ GoodTracker(v)
      /\ v.num_valid = w.num_valid + 1
      /\ \A i : SlotAt(v, i) = SlotAt(w, i)
      /\ SlotAt(w, w.num_valid) = u.tail
      /\ u.tail \in Slots
      /\ \A i \in 0 .. w.num_valid - 1 : SlotAt(w, i) # u.tail
  BY InsertFacts
<1>3. w.num_valid \in 0 .. Size - 1 /\ u.num_valid \in 0 .. Size
  BY <1>1, SizeAssumption DEF GoodTracker, TrackerType
<1> HIDE DEF w, v
<1>4. z = u.tail
  <2>1. v.num_valid - 1 = w.num_valid
    BY <1>2, <1>3
  <2> QED BY <1>2, <2>1
<1> HIDE DEF z
<1> SUFFICES ASSUME NEW i \in 0 .. v.num_valid - 1
             PROVE  e[SlotAt(v, i)] <= (Size - 1 - i) * rfm_act_threshold + m
  BY DEF Waited, z, v
<1>5. i \in 0 .. w.num_valid /\ i \in 0 .. Size - 1 /\ i \in 0 .. Size
  BY <1>2, <1>3, SizeAssumption
<1>6. /\ (Size - 1 - i) * rfm_act_threshold \in Int
      /\ (Size - 1 - i) * rfm_act_threshold >= 0
      /\ (Size - 1 - (i + 1)) * rfm_act_threshold \in Int
      /\ (Size - 1 - (i + 1)) * rfm_act_threshold
           <= (Size - 1 - i) * rfm_act_threshold
  <2>1. (Size - 1 - (i + 1)) * rfm_act_threshold
          = (Size - 1 - i) * rfm_act_threshold - rfm_act_threshold
    BY <1>5, SizeAssumption, RFMAssumption
  <2>2. (Size - 1 - i) * rfm_act_threshold \in Int
    BY <1>5, SizeAssumption, RFMAssumption
  <2>3. (Size - 1 - i) * rfm_act_threshold >= 0
    BY <1>5, SizeAssumption, RFMAssumption
  <2> QED BY <2>1, <2>2, <2>3, RFMAssumption
<1>7. CASE i = w.num_valid
  <2>1. e[SlotAt(v, i)] = 0
    BY <1>2, <1>4, <1>7 DEF Ages
  <2> QED BY <1>6, <2>1
<1>8. CASE i # w.num_valid
  <2>1. i \in 0 .. w.num_valid - 1
    BY <1>3, <1>5, <1>8
  <2>2. SlotAt(w, i) \in Slots
    BY <1>1, <1>5, SlotAtType
  <2>3. e[SlotAt(v, i)] = a[SlotAt(w, i)] /\ a[SlotAt(w, i)] \in Nat
    BY <1>2, <1>4, <2>1, <2>2 DEF Ages
  <2>4. CASE u.num_valid # Size
    <3>1. a[SlotAt(u, i)] <= (Size - 1 - i) * rfm_act_threshold + m
      BY <1>1, <2>1, <2>4 DEF Waited
    <3> QED BY <1>1, <2>3, <2>4, <3>1
  <2>5. CASE u.num_valid = Size
    <3>1. i + 1 \in 0 .. u.num_valid - 1
      BY <1>1, <1>5, <2>1, <2>5, SizeAssumption
    <3>2. a[SlotAt(u, i + 1)] <= (Size - 1 - (i + 1)) * rfm_act_threshold + m
      BY <3>1 DEF Waited
    <3>3. SlotAt(w, i) = SlotAt(u, i + 1)
      BY <1>1, <1>5, <2>5
    <3> QED BY <1>6, <2>3, <3>2, <3>3
  <2> QED BY <2>4, <2>5
<1> QED BY <1>7, <1>8

(* Forgetting the slots that hold nothing changes no row's age.            *)
LEMMA ForgetWaited ==
  ASSUME NEW u, GoodTracker(u), NEW a \in Ages, NEW m, Waited(u, a, m)
  PROVE  Forget(a, u) \in Ages /\ Waited(u, Forget(a, u), m)
<1>1. Forget(a, u) \in Ages
  BY DEF Forget, Ages
<1>2. ASSUME NEW i \in 0 .. u.num_valid - 1
      PROVE  Forget(a, u)[SlotAt(u, i)] = a[SlotAt(u, i)]
  <2>1. i \in 0 .. Size
    BY SizeAssumption DEF GoodTracker, TrackerType
  <2>2. SlotAt(u, i) \in Slots
    BY <2>1, SlotAtType
  <2>3. SlotAt(u, i) \in ValidSlots(u)
    BY DEF ValidSlots
  <2> QED BY <2>2, <2>3 DEF Forget
<1> QED BY <1>1, <1>2 DEF Waited

-----------------------------------------------------------------------------
(* The inductive invariant.  TardinessBound is not inductive: how long a   *)
(* row can still wait depends on its place in the queue and on how far the *)
(* running window is, which is AgeByPlace; and places only make sense when *)
(* the cursors of every tracker agree.                                     *)
IInv ==
  /\ TypeOK
  /\ \A b \in Banks : GoodTracker(mytracker[b])
  /\ AgeByPlace
  /\ IntervalPace

LEMMA InitInv == Init => IInv
<1> SUFFICES ASSUME Init PROVE IInv
  OBVIOUS
<1>1. GoodTracker(NewTracker) /\ NewTracker.num_valid = 0
  BY NewTrackerGood DEF NewTracker
<1>2. NewTracker \in TrackerType
  BY <1>1 DEF GoodTracker
<1>3. TypeOK
  BY <1>2 DEF Init, TypeOK, NoDecision
<1>4. \A b \in Banks : GoodTracker(mytracker[b])
  BY <1>1 DEF Init
<1>5. AgeByPlace
  BY <1>1 DEF Init, AgeByPlace, Waited
<1>6. IntervalPace
  BY RFMAssumption DEF Init, IntervalPace
<1> QED BY <1>3, <1>4, <1>5, <1>6 DEF IInv

(* Counting answers gives a number: there are finitely many banks.         *)
LEMMA AnswersType ==
  ASSUME NEW trackers, NEW S \in SUBSET Banks
  PROVE  Answers(trackers, S) \in Nat
<1>1. {b \in S : Victim(trackers[b]) # NoRow} \subseteq Banks
  OBVIOUS
<1>2. IsFiniteSet({b \in S : Victim(trackers[b]) # NoRow})
  BY <1>1, RFMAssumption, FS_Subset
<1> QED BY <1>2, FS_CardinalityType DEF Answers

(* After the refresh-interval part of access().                            *)
LEMMA IntervalFacts ==
  ASSUME IInv, NEW now \in Nat
  PROVE  LET mid == AfterInterval(now)
         IN /\ mid.trackers \in [Banks -> TrackerType]
            /\ mid.acts \in [Banks -> Nat]
            /\ mid.mitigs \in Nat
            /\ \A c \in Banks :
                 /\ GoodTracker(mid.trackers[c])
                 /\ Waited(mid.trackers[c], age[c], mid.acts[c] % rfm_act_threshold)
<1> DEFINE mid == AfterInterval(now)
<1>1. CASE IntervalOver(now)
  <2>1. /\ mid.trackers = [b \in Banks |-> IssueMitig(mytracker[b])]
        /\ mid.acts = [b \in Banks |-> 0]
        /\ mid.mitigs = Answers(mytracker, Banks)
    BY <1>1 DEF AfterInterval
  <2>2. mid.mitigs \in Nat
    BY <2>1, AnswersType
  <2> HIDE DEF mid
  <2>3. ASSUME NEW c \in Banks
        PROVE  /\ GoodTracker(mid.trackers[c])
               /\ Waited(mid.trackers[c], age[c], mid.acts[c] % rfm_act_threshold)
    <3>1. GoodTracker(mytracker[c]) /\ age[c] \in Ages
      BY DEF IInv, TypeOK, Ages
    <3>2. act_in_trefi_per_bank[c] \in Nat
      BY DEF IInv, TypeOK
    <3>3. act_in_trefi_per_bank[c] % rfm_act_threshold \in 0 .. rfm_act_threshold
      <4>1. act_in_trefi_per_bank[c] % rfm_act_threshold \in 0 .. rfm_act_threshold - 1
        BY <3>2, WindowCount
      <4> QED BY <4>1, RFMAssumption
    <3>4. Waited(mytracker[c], age[c], act_in_trefi_per_bank[c] % rfm_act_threshold)
      BY DEF IInv, AgeByPlace
    <3>5. Waited(IssueMitig(mytracker[c]), age[c], 0)
      BY <3>1, <3>3, <3>4, IssueWaited
    <3>6. 0 % rfm_act_threshold = 0
      BY RFMAssumption
    <3>7. mid.trackers[c] = IssueMitig(mytracker[c]) /\ mid.acts[c] = 0
      BY <2>1
    <3> QED BY <3>1, <3>5, <3>6, <3>7, IssueMitigFacts
  <2>4. mid.trackers \in [Banks -> TrackerType] /\ mid.acts \in [Banks -> Nat]
    <3>1. \A c \in Banks : IssueMitig(mytracker[c]) \in TrackerType
      BY <2>1, <2>3 DEF GoodTracker
    <3> QED BY <2>1, <3>1
  <2> QED BY <2>2, <2>3, <2>4 DEF mid
<1>2. CASE ~IntervalOver(now)
  <2>1. /\ mid.trackers = mytracker
        /\ mid.acts = act_in_trefi_per_bank
        /\ mid.mitigs = 0
    BY <1>2 DEF AfterInterval
  <2> HIDE DEF mid
  <2>2. \A c \in Banks :
          Waited(mid.trackers[c], age[c], mid.acts[c] % rfm_act_threshold)
    BY <2>1 DEF IInv, AgeByPlace
  <2> QED BY <2>1, <2>2 DEF IInv, TypeOK, mid
<1> QED BY <1>1, <1>2

(* The accessed bank: the RFM slot, if one is due, then the sampled row.   *)
LEMMA BankFacts ==
  ASSUME NEW u, GoodTracker(u), NEW a \in Ages, NEW k \in Nat,
         Waited(u, a, k % rfm_act_threshold),
         NEW row \in RowAddrs, NEW sampled \in BOOLEAN
  PROVE  LET n     == k + 1
             t     == AfterRfm(u, RfmDue(n), row, sampled)
             grown == [s \in Slots |-> a[s] + 1]
             fresh == IF sampled
                      THEN [grown EXCEPT ![SlotAt(t, t.num_valid - 1)] = 0]
                      ELSE grown
         IN /\ GoodTracker(t)
            /\ Forget(fresh, t) \in Ages
            /\ Waited(t, Forget(fresh, t), n % rfm_act_threshold)
<1> DEFINE n     == k + 1
           v     == IF RfmDue(n) THEN IssueMitig(u) ELSE u
           t     == AfterRfm(u, RfmDue(n), row, sampled)
           grown == [s \in Slots |-> a[s] + 1]
           fresh == IF sampled
                    THEN [grown EXCEPT ![SlotAt(t, t.num_valid - 1)] = 0]
                    ELSE grown
           m     == n % rfm_act_threshold
<1>1. /\ k % rfm_act_threshold \in 0 .. rfm_act_threshold - 1
      /\ m = IF k % rfm_act_threshold = rfm_act_threshold - 1
             THEN 0 ELSE (k % rfm_act_threshold) + 1
  BY WindowCount
<1>2. grown \in Ages
  BY DEF Ages
<1>3. m \in Nat /\ k % rfm_act_threshold \in Nat
  BY <1>1, RFMAssumption
<1>4. Waited(u, grown, (k % rfm_act_threshold) + 1)
  BY <1>3, GrowWaited
<1>5. GoodTracker(v) /\ Waited(v, grown, m)
  <2>1. CASE RfmDue(n)
    <3>1. m = 0
      BY <2>1 DEF RfmDue
    <3>2. (k % rfm_act_threshold) + 1 \in 0 .. rfm_act_threshold
      BY <1>1, RFMAssumption
    <3>3. Waited(IssueMitig(u), grown, 0)
      BY <1>2, <1>4, <3>2, IssueWaited
    <3> QED BY <2>1, <3>1, <3>3, IssueMitigFacts
  <2>2. CASE ~RfmDue(n)
    <3>1. m # 0
      BY <2>2 DEF RfmDue
    <3>2. m = (k % rfm_act_threshold) + 1
      BY <1>1, <3>1
    <3> QED BY <1>4, <2>2, <3>2
  <2> QED BY <2>1, <2>2
<1> HIDE DEF grown, m, n
<1>6. t = IF sampled THEN Insert(v, row) ELSE v
  BY DEF AfterRfm
<1> HIDE DEF v, t
<1>7. GoodTracker(t) /\ fresh \in Ages /\ Waited(t, fresh, m)
  <2>1. CASE sampled
    <3>1. t = Insert(v, row)
      BY <1>6, <2>1
    <3>2. GoodTracker(Insert(v, row))
      BY <1>5, InsertFacts
    <3>3. Waited(t, [grown EXCEPT ![SlotAt(t, t.num_valid - 1)] = 0], m)
      BY <1>2, <1>3, <1>5, <3>1, InsertWaited
    <3>4. fresh = [grown EXCEPT ![SlotAt(t, t.num_valid - 1)] = 0]
      BY <2>1
    <3>5. fresh \in Ages
      BY <1>2, <3>4 DEF Ages
    <3> QED BY <3>1, <3>2, <3>3, <3>4, <3>5
  <2>2. CASE ~sampled
    BY <1>2, <1>5, <1>6, <2>2
  <2> QED BY <2>1, <2>2
<1> HIDE DEF fresh
<1>8. Forget(fresh, t) \in Ages /\ Waited(t, Forget(fresh, t), m)
  BY <1>7, ForgetWaited
<1> QED BY <1>7, <1>8 DEF t, fresh, grown, m, n

LEMMA StepInv == IInv /\ [Next]_vars => IInv'
<1> SUFFICES ASSUME IInv, [Next]_vars PROVE IInv'
  OBVIOUS
<1>1. CASE UNCHANGED vars
  BY <1>1 DEF vars, IInv, TypeOK, AgeByPlace, Waited, IntervalPace, GoodTracker,
              TrackerType, SlotAt
<1>2. ASSUME NEW b \in Banks, NEW row \in RowAddrs, NEW now \in curTick .. MaxTick,
             NEW sampled \in BOOLEAN, access(b, row, now, sampled)
      PROVE  IInv'
  <2> DEFINE mid   == AfterInterval(now)
             k     == mid.acts[b]
             due   == RfmDue(k + 1)
             t     == AfterRfm(mid.trackers[b], due, row, sampled)
             grown == [s \in Slots |-> age[b][s] + 1]
             fresh == IF sampled
                      THEN [grown EXCEPT ![SlotAt(t, t.num_valid - 1)] = 0]
                      ELSE grown
             old   == AgesAfter(b, mid.trackers, t, sampled)
  <2>0. now \in Nat /\ curTick \in Nat /\ curTick <= now /\ last_reset \in Nat
    BY RFMAssumption DEF IInv, TypeOK
  <2>1. /\ mid.trackers \in [Banks -> TrackerType]
        /\ mid.acts \in [Banks -> Nat]
        /\ mid.mitigs \in Nat
        /\ \A c \in Banks :
             /\ GoodTracker(mid.trackers[c])
             /\ Waited(mid.trackers[c], age[c], mid.acts[c] % rfm_act_threshold)
    BY <2>0, IntervalFacts
  <2>2. /\ mytracker' = [mid.trackers EXCEPT ![b] = t]
        /\ act_in_trefi_per_bank' = [mid.acts EXCEPT ![b] = k + 1]
        /\ age' = old
        /\ curTick' = now
        /\ s_num_accesses' = s_num_accesses + 1
        /\ last_reset' = IF IntervalOver(now) THEN now ELSE RefPoint(now)
        /\ s_num_resets' = IF IntervalOver(now) THEN s_num_resets + 1 ELSE s_num_resets
        /\ decision' = IF due THEN [mitigate |-> TRUE, bank_delay |-> delay_ticks_tRFC]
                       ELSE NoDecision
        /\ s_rfms' = IF due THEN s_rfms + 1 ELSE s_rfms
        /\ s_mitigs' = s_mitigs + mid.mitigs
                         + (IF due THEN Answers(mid.trackers, {b}) ELSE 0)
    BY <1>2 DEF access
  <2>3. k \in Nat
    BY <2>1
  <2>4. age \in [Banks -> Ages]
    BY DEF IInv, TypeOK, Ages
  <2>5. /\ GoodTracker(t)
        /\ Forget(fresh, t) \in Ages
        /\ Waited(t, Forget(fresh, t), (k + 1) % rfm_act_threshold)
    BY <2>1, <2>3, <2>4, BankFacts
  <2>6. ASSUME NEW c \in Banks, c # b
        PROVE  /\ Forget(age[c], mid.trackers[c]) \in Ages
               /\ Waited(mid.trackers[c], Forget(age[c], mid.trackers[c]),
                         mid.acts[c] % rfm_act_threshold)
    BY <2>1, <2>4, ForgetWaited
  <2>7. old = [c \in Banks |-> IF c # b THEN Forget(age[c], mid.trackers[c])
                               ELSE Forget(fresh, t)]
    BY DEF AgesAfter
  <2>8. Answers(mid.trackers, {b}) \in Nat
    BY AnswersType
  <2> HIDE DEF mid, k, t, due, fresh, grown, old
  <2>9. old \in [Banks -> Ages]
    BY <2>5, <2>6, <2>7
  <2>10. \A c \in Banks : GoodTracker(mytracker'[c])
    BY <2>1, <2>2, <2>5
  <2>11. TypeOK'
    <3>1. mytracker' \in [Banks -> TrackerType]
      BY <2>1, <2>2, <2>5 DEF GoodTracker
    <3>2. act_in_trefi_per_bank' \in [Banks -> Nat]
      BY <2>1, <2>2, <2>3
    <3>3. age' \in [Banks -> [Slots -> Nat]]
      BY <2>2, <2>9 DEF Ages
    <3>4. last_reset' \in Nat /\ curTick' \in Nat
      BY <2>0, <2>2 DEF RefPoint
    <3>5. decision' \in [mitigate : BOOLEAN, bank_delay : {0, delay_ticks_tRFC}]
      BY <2>2 DEF NoDecision
    <3>6. /\ s_num_accesses' \in Nat /\ s_rfms' \in Nat
          /\ s_mitigs' \in Nat /\ s_num_resets' \in Nat
      BY <2>1, <2>2, <2>8 DEF IInv, TypeOK
    <3> QED BY <3>1, <3>2, <3>3, <3>4, <3>5, <3>6 DEF TypeOK
  <2>12. AgeByPlace'
    <3>1. ASSUME NEW c \in Banks
          PROVE  Waited(mytracker'[c], age'[c],
                        act_in_trefi_per_bank'[c] % rfm_act_threshold)
      <4>1. CASE c = b
        <5>1. /\ mytracker'[c] = t /\ age'[c] = Forget(fresh, t)
              /\ act_in_trefi_per_bank'[c] = k + 1
          BY <2>1, <2>2, <2>7, <4>1
        <5> QED BY <2>5, <5>1
      <4>2. CASE c # b
        <5>1. /\ mytracker'[c] = mid.trackers[c]
              /\ age'[c] = Forget(age[c], mid.trackers[c])
              /\ act_in_trefi_per_bank'[c] = mid.acts[c]
          BY <2>1, <2>2, <2>7, <4>2
        <5> QED BY <2>6, <4>2, <5>1
      <4> QED BY <4>1, <4>2
    <3> QED BY <3>1 DEF AgeByPlace, Waited, SlotAt
  <2>13. IntervalPace'
    <3>1. s_num_resets \in Nat /\ s_num_resets * TREFI \in Nat
      BY RFMAssumption DEF IInv, TypeOK
    <3>2. RefPoint(now) \in Nat /\ last_reset <= RefPoint(now) /\ RefPoint(now) <= now
      BY <2>0 DEF RefPoint, IInv, IntervalPace
    <3>3. s_num_resets * TREFI <= RefPoint(now)
      BY <2>0, <3>1, <3>2 DEF IInv, IntervalPace
    <3>4. CASE IntervalOver(now)
      <4>1. (s_num_resets + 1) * TREFI = s_num_resets * TREFI + TREFI
        BY <3>1, RFMAssumption
      <4>2. RefPoint(now) + TREFI <= now
        BY <2>0, <3>2, <3>4, RFMAssumption DEF IntervalOver
      <4> QED BY <2>0, <2>2, <3>1, <3>2, <3>3, <3>4, <4>1, <4>2, RFMAssumption
                 DEF IntervalPace
    <3>5. CASE ~IntervalOver(now)
      BY <2>2, <3>2, <3>3, <3>5 DEF IntervalPace
    <3> QED BY <3>4, <3>5
  <2> QED BY <2>10, <2>11, <2>12, <2>13 DEF IInv, GoodTracker, TrackerType, SlotAt
<1> QED BY <1>1, <1>2 DEF Next

LEMMA Invariance == Spec => []IInv
BY InitInv, StepInv, PTL DEF Spec

(* Type correctness.                                                       *)
THEOREM TypeCorrect == Spec => []TypeOK
<1>1. IInv => TypeOK
  BY DEF IInv
<1> QED BY <1>1, Invariance, PTL

(* PrIDE's tardiness: with a tracker of Size rows and an RFM every         *)
(* rfm_act_threshold ACTs, a sampled row sees at most                      *)
(* Size * rfm_act_threshold - 1 further ACTs of its bank while it waits.   *)
THEOREM Tardiness == Spec => []TardinessBound
<1>1. IInv => TardinessBound
  <2> SUFFICES ASSUME IInv, NEW b \in Banks, NEW i \in 0 .. mytracker[b].num_valid - 1
               PROVE  age[b][SlotAt(mytracker[b], i)] <= Size * rfm_act_threshold - 1
    BY DEF TardinessBound, ValidSlots, get_tardy
  <2> DEFINE m == act_in_trefi_per_bank[b] % rfm_act_threshold
             x == age[b][SlotAt(mytracker[b], i)]
  <2>1. act_in_trefi_per_bank[b] \in Nat /\ GoodTracker(mytracker[b])
    BY DEF IInv, TypeOK
  <2>2. m \in 0 .. rfm_act_threshold - 1
    BY <2>1, WindowCount
  <2>3. x <= (Size - 1 - i) * rfm_act_threshold + m
    BY DEF IInv, AgeByPlace, Waited
  <2>4. i \in 0 .. Size - 1 /\ i \in 0 .. Size
    BY <2>1, SizeAssumption DEF GoodTracker, TrackerType
  <2>5. x \in Nat
    BY <2>1, <2>4, SlotAtType DEF IInv, TypeOK
  <2> HIDE DEF m, x
  <2>6. (Size - 1 - i) * rfm_act_threshold
          = Size * rfm_act_threshold - rfm_act_threshold - i * rfm_act_threshold
    BY <2>4, SizeAssumption, RFMAssumption
  <2>7. i * rfm_act_threshold >= 0 /\ i * rfm_act_threshold \in Int
        /\ Size * rfm_act_threshold \in Int
    BY <2>4, SizeAssumption, RFMAssumption
  <2>8. x <= Size * rfm_act_threshold - 1
    BY <2>2, <2>3, <2>5, <2>6, <2>7, RFMAssumption
  <2> QED BY <2>8 DEF x
<1> QED BY <1>1, Invariance, PTL

(* Refresh intervals are never counted faster than time passes.            *)
THEOREM Intervals == Spec => []IntervalPace
<1>1. IInv => IntervalPace
  BY DEF IInv
<1> QED BY <1>1, Invariance, PTL

(* What an RFM slot and a sampled row do to the counters of a tracker.     *)
LEMMA RfmCounts ==
  ASSUME NEW u, GoodTracker(u), NEW row \in RowAddrs,
         NEW due \in BOOLEAN, NEW sampled \in BOOLEAN
  PROVE  LET w == AfterRfm(u, due, row, sampled)
         IN /\ w.num_remove >= u.num_remove
            /\ w.num_insert = (IF sampled THEN u.num_insert + 1 ELSE u.num_insert)
            /\ ~sampled => w.num_valid <= u.num_valid
<1> DEFINE v == IF due THEN IssueMitig(u) ELSE u
           w == AfterRfm(u, due, row, sampled)
<1>1. u.num_remove \in Nat /\ u.num_insert \in Nat /\ u.num_valid \in 0 .. Size
  BY DEF GoodTracker, TrackerType
<1>2. /\ GoodTracker(v)
      /\ v.num_remove >= u.num_remove
      /\ v.num_insert = u.num_insert
      /\ v.num_valid <= u.num_valid
  <2>1. CASE due
    BY <1>1, <2>1, IssueMitigFacts, SizeAssumption
  <2>2. CASE ~due
    BY <1>1, <2>2, SizeAssumption
  <2> QED BY <2>1, <2>2
<1>3. w = IF sampled THEN Insert(v, row) ELSE v
  BY DEF AfterRfm
<1> HIDE DEF v, w
<1>4. CASE sampled
  <2>1. /\ Insert(v, row).num_remove = v.num_remove
        /\ Insert(v, row).num_insert = v.num_insert + 1
    BY <1>2, InsertFacts
  <2> QED BY <1>2, <1>3, <1>4, <2>1 DEF w
<1>5. CASE ~sampled
  BY <1>2, <1>3, <1>5 DEF w
<1> QED BY <1>4, <1>5

(* An access that ends an interval serves every bank: each tracker's slots *)
(* go up, and a tracker that got no new row gives one up if it had any.    *)
LEMMA IntervalServes ==
  ASSUME IInv, NEW b \in Banks, NEW row \in RowAddrs, NEW now \in Nat,
         NEW sampled \in BOOLEAN, access(b, row, now, sampled),
         s_num_resets' # s_num_resets, NEW c \in Banks
  PROVE  /\ rh_mitigation = "RFM"
         /\ mytracker'[c].num_remove > mytracker[c].num_remove
         /\ mytracker[c].num_valid > 0 /\ mytracker[c].num_insert = mytracker'[c].num_insert
              => mytracker'[c].num_valid < mytracker[c].num_valid
<1> DEFINE u == IssueMitig(mytracker[c])
           due == RfmDue(AfterInterval(now).acts[b] + 1)
           t == AfterRfm(AfterInterval(now).trackers[b], due, row, sampled)
<1>1. IntervalOver(now)
  BY DEF access
<1>2. AfterInterval(now).trackers = [e \in Banks |-> IssueMitig(mytracker[e])]
  BY <1>1 DEF AfterInterval
<1>3. mytracker' = [AfterInterval(now).trackers EXCEPT ![b] = t]
  BY DEF access
<1>4. due \in BOOLEAN
  BY Zenon DEF RfmDue
<1> HIDE DEF t, due
<1>5. GoodTracker(mytracker[c])
  BY DEF IInv
<1>6. /\ mytracker[c].num_remove \in Nat /\ mytracker[c].num_insert \in Nat
      /\ mytracker[c].num_valid \in 0 .. Size
  BY <1>5 DEF GoodTracker, TrackerType
<1>7. /\ GoodTracker(u)
      /\ u.num_remove = mytracker[c].num_remove + 1
      /\ u.num_insert = mytracker[c].num_insert
      /\ u.num_valid \in 0 .. Size
      /\ mytracker[c].num_valid > 0 => u.num_valid = mytracker[c].num_valid - 1
  BY <1>5, IssueMitigFacts DEF GoodTracker, TrackerType
<1> HIDE DEF u
<1>8. CASE c = b
  <2>1. mytracker'[c] = AfterRfm(u, due, row, sampled)
    BY <1>2, <1>3, <1>8 DEF t, u
  <2> DEFINE w == AfterRfm(u, due, row, sampled)
  <2>2. /\ w.num_remove >= u.num_remove
        /\ w.num_insert = (IF sampled THEN u.num_insert + 1 ELSE u.num_insert)
        /\ ~sampled => w.num_valid <= u.num_valid
        /\ w.num_valid \in 0 .. Size /\ w.num_remove \in Nat
    <3>1. GoodTracker(w)
      <4>1. GoodTracker(IF due THEN IssueMitig(u) ELSE u)
        BY <1>7, IssueMitigFacts
      <4> QED BY <4>1, InsertFacts DEF AfterRfm
    <3> QED BY <1>4, <1>7, <3>1, RfmCounts DEF GoodTracker, TrackerType
  <2> HIDE DEF w
  <2>3. mytracker'[c] = w
    BY <2>1 DEF w
  <2> QED BY <1>1, <1>6, <1>7, <2>2, <2>3, SizeAssumption DEF IntervalOver
<1>9. CASE c # b
  <2>1. mytracker'[c] = u
    BY <1>2, <1>3, <1>9 DEF u
  <2> QED BY <1>1, <1>6, <1>7, <2>1, SizeAssumption DEF IntervalOver
<1> QED BY <1>8, <1>9

(* A refresh interval is answered for all banks at once, by the one access *)
(* that notices its end, whatever RFM and sampled row that access also     *)
(* brings to its own bank.                                                 *)
THEOREM EveryBankServed == Spec => IntervalServesEveryBank
<1> DEFINE Served ==
      s_num_resets' # s_num_resets =>
        /\ rh_mitigation = "RFM"
        /\ \A b \in Banks :
             /\ mytracker'[b].num_remove > mytracker[b].num_remove
             /\ mytracker[b].num_valid > 0 /\ mytracker[b].num_insert = mytracker'[b].num_insert
                  => mytracker'[b].num_valid < mytracker[b].num_valid
<1>1. IInv /\ [Next]_vars => [Served]_vars
  <2> SUFFICES ASSUME IInv, Next PROVE Served
    OBVIOUS
  <2>1. PICK b \in Banks, row \in RowAddrs, now \in curTick .. MaxTick, sampled \in BOOLEAN :
          access(b, row, now, sampled)
    BY DEF Next
  <2>2. now \in Nat
    BY RFMAssumption DEF IInv, TypeOK
  <2>3. rh_mitigation = "RFM" \/ s_num_resets' = s_num_resets
    BY <2>1 DEF access, IntervalOver
  <2> QED BY <2>1, <2>2, <2>3, IntervalServes
<1>2. Spec => [][Served]_vars
  BY <1>1, Invariance, PTL DEF Spec
<1> QED BY <1>2 DEF IntervalServesEveryBank

(* A sampled row pushes one out only where no slot came before it.         *)
LEMMA RfmLosses ==
  ASSUME NEW u, GoodTracker(u), NEW row \in RowAddrs,
         NEW due \in BOOLEAN, NEW sampled \in BOOLEAN
  PROVE  LET w == AfterRfm(u, due, row, sampled)
         IN /\ ~due => w.num_remove = u.num_remove
            /\ due \/ u.num_valid < Size => w.num_evict = u.num_evict
<1> DEFINE v == IF due THEN IssueMitig(u) ELSE u
           w == AfterRfm(u, due, row, sampled)
<1>1. u.num_valid \in 0 .. Size
  BY DEF GoodTracker, TrackerType
<1>2. /\ GoodTracker(v) /\ v.num_evict = u.num_evict
      /\ ~due => v.num_remove = u.num_remove
      /\ due \/ u.num_valid < Size => v.num_valid < Size
  <2>1. CASE due
    BY <1>1, <2>1, IssueMitigFacts, SizeAssumption
  <2>2. CASE ~due
    BY <2>2
  <2> QED BY <2>1, <2>2
<1>3. w = IF sampled THEN Insert(v, row) ELSE v
  BY DEF AfterRfm
<1> HIDE DEF v, w
<1>4. CASE sampled
  <2>1. /\ Insert(v, row).num_remove = v.num_remove
        /\ Insert(v, row).num_evict = MakeRoom(v).num_evict
    BY <1>2, InsertFacts
  <2>2. v.num_valid < Size => MakeRoom(v) = v
    <3> SUFFICES ASSUME v.num_valid < Size PROVE MakeRoom(v) = v
      OBVIOUS
    <3>1. v.num_valid # Size
      BY SizeAssumption
    <3> QED BY <3>1 DEF MakeRoom
  <2> QED BY <1>2, <1>3, <1>4, <2>1, <2>2 DEF w
<1>5. CASE ~sampled
  BY <1>2, <1>3, <1>5 DEF w
<1> QED BY <1>4, <1>5

LEMMA SlotSavesRow ==
  ASSUME IInv, NEW b \in Banks, NEW row \in RowAddrs, NEW now \in Nat,
         NEW sampled \in BOOLEAN, access(b, row, now, sampled), NEW c \in Banks,
         mytracker'[c].num_remove # mytracker[c].num_remove
  PROVE  mytracker'[c].num_evict = mytracker[c].num_evict
<1> DEFINE T == AfterInterval(now).trackers
           due == RfmDue(AfterInterval(now).acts[b] + 1)
           t == AfterRfm(T[b], due, row, sampled)
<1>1. mytracker' = [T EXCEPT ![b] = t]
  BY DEF access
<1>2. due \in BOOLEAN
  BY Zenon DEF RfmDue
<1> HIDE DEF t, due
<1>3. GoodTracker(mytracker[c]) /\ mytracker[c].num_valid \in 0 .. Size
      /\ mytracker \in [Banks -> TrackerType]
  BY DEF IInv, TypeOK, GoodTracker, TrackerType
<1>4. /\ c \in DOMAIN T /\ GoodTracker(T[c]) /\ T[c].num_evict = mytracker[c].num_evict
      /\ IF IntervalOver(now) THEN T[c].num_valid < Size
         ELSE T[c].num_remove = mytracker[c].num_remove
  <2>1. CASE IntervalOver(now)
    <3>1. T = [e \in Banks |-> IssueMitig(mytracker[e])]
      BY <2>1 DEF AfterInterval
    <3> QED BY <1>3, <2>1, <3>1, IssueMitigFacts, SizeAssumption
  <2>2. CASE ~IntervalOver(now)
    <3>1. T = mytracker
      BY <2>2 DEF AfterInterval
    <3> QED BY <1>3, <2>2, <3>1
  <2> QED BY <2>1, <2>2
<1> HIDE DEF T
<1>5. CASE c # b
  <2>1. mytracker'[c] = T[c]
    BY <1>1, <1>4, <1>5
  <2> QED BY <1>4, <2>1
<1>6. CASE c = b
  <2> DEFINE w == AfterRfm(T[c], due, row, sampled)
  <2>1. mytracker'[c] = w
    BY <1>1, <1>4, <1>6 DEF t
  <2>2. /\ ~due => w.num_remove = T[c].num_remove
        /\ due \/ T[c].num_valid < Size => w.num_evict = T[c].num_evict
    BY <1>2, <1>4, RfmLosses
  <2> HIDE DEF w
  <2>3. due \/ IntervalOver(now)
    BY <1>4, <2>1, <2>2
  <2> QED BY <1>4, <2>1, <2>2, <2>3
<1> QED BY <1>5, <1>6

(* The slot comes before the sample: a tracker that gets a mitigation slot *)
(* in an access, by an RFM or at the end of an interval, evicts no row in  *)
(* that access, for every size of the tracker and number of banks.         *)
THEOREM SlotFirst == Spec => NoLossBesideSlot
<1> DEFINE Saved ==
      \A b \in Banks : mytracker'[b].num_remove # mytracker[b].num_remove =>
                         mytracker'[b].num_evict = mytracker[b].num_evict
<1>1. IInv /\ [Next]_vars => [Saved]_vars
  <2> SUFFICES ASSUME IInv, Next PROVE Saved
    OBVIOUS
  <2>1. PICK b \in Banks, row \in RowAddrs, now \in curTick .. MaxTick, sampled \in BOOLEAN :
          access(b, row, now, sampled)
    BY DEF Next
  <2>2. now \in Nat
    BY RFMAssumption DEF IInv, TypeOK
  <2> QED BY <2>1, <2>2, SlotSavesRow
<1>2. Spec => [][Saved]_vars
  BY <1>1, Invariance, PTL DEF Spec
<1> QED BY <1>2 DEF NoLossBesideSlot

-----------------------------------------------------------------------------
(* Sums over the banks                                                     *)

LEMMA UnitsMember ==
  ASSUME NEW f \in [Banks -> Nat], NEW u
  PROVE  u \in Units(f, Banks) <=> \E c \in Banks : \E n \in 1 .. f[c] : u = <<c, n>>
<1>1. \A c \in Banks : u \in {c} \X (1 .. f[c]) <=> \E n \in 1 .. f[c] : u = <<c, n>>
  OBVIOUS
<1> QED BY <1>1 DEF Units

(* One unit more for every bank of D.                                      *)
Raised(f, D) == [c \in Banks |-> IF c \in D THEN f[c] + 1 ELSE f[c]]

LEMMA UnitsRaised ==
  ASSUME NEW f \in [Banks -> Nat], NEW D \in SUBSET Banks,
         IsFiniteSet(Units(f, Banks)) \/ IsFiniteSet(Units(Raised(f, D), Banks))
  PROVE  /\ IsFiniteSet(Units(f, Banks)) /\ IsFiniteSet(Units(Raised(f, D), Banks))
         /\ Total(f, Banks) \in Nat
         /\ Total(Raised(f, D), Banks) = Total(f, Banks) + Cardinality(D)
<1> DEFINE g == Raised(f, D)
           h == [c \in D |-> <<c, f[c] + 1>>]
           X == {<<c, f[c] + 1>> : c \in D}
<1>1. g \in [Banks -> Nat] /\ \A c \in Banks : g[c] = IF c \in D THEN f[c] + 1 ELSE f[c]
  BY DEF Raised
<1> HIDE DEF g
<1>2. \A u : u \in Units(f, Banks) <=> \E c \in Banks : \E n \in 1 .. f[c] : u = <<c, n>>
  BY UnitsMember
<1>3. \A u : u \in Units(g, Banks) <=> \E c \in Banks : \E n \in 1 .. g[c] : u = <<c, n>>
  BY <1>1, UnitsMember
<1>4. ASSUME NEW u PROVE u \in Units(g, Banks) <=> u \in Units(f, Banks) \/ u \in X
  <2>1. ASSUME NEW c \in Banks, NEW n \in 1 .. g[c], u = <<c, n>>
        PROVE  u \in Units(f, Banks) \/ u \in X
    <3>1. CASE n \in 1 .. f[c]
      BY <3>1, <2>1, <1>2
    <3>2. CASE n \notin 1 .. f[c]
      <4>1. c \in D /\ n = f[c] + 1
        BY <3>2, <1>1
      <4> QED BY <4>1, <2>1
    <3> QED BY <3>1, <3>2
  <2>2. ASSUME NEW c \in Banks, NEW n \in 1 .. f[c], u = <<c, n>>
        PROVE  u \in Units(g, Banks)
    <3>1. n \in 1 .. g[c]
      BY <1>1
    <3> QED BY <3>1, <2>2, <1>3
  <2>3. ASSUME NEW c \in D, u = <<c, f[c] + 1>> PROVE u \in Units(g, Banks)
    <3>1. f[c] + 1 \in 1 .. g[c] /\ c \in Banks
      BY <1>1
    <3> QED BY <3>1, <2>3, <1>3
  <2>4. u \in Units(g, Banks) => u \in Units(f, Banks) \/ u \in X
    BY <2>1, <1>3
  <2>5. u \in Units(f, Banks) => u \in Units(g, Banks)
    BY <2>2, <1>2
  <2>6. u \in X => u \in Units(g, Banks)
    BY <2>3
  <2> QED BY <2>4, <2>5, <2>6
<1>5. Units(f, Banks) \cap X = {}
  <2> SUFFICES ASSUME NEW u \in X, NEW c \in Banks, NEW n \in 1 .. f[c], u = <<c, n>>
               PROVE  FALSE
    BY <1>2
  <2>1. PICK e \in D : u = <<e, f[e] + 1>>
    OBVIOUS
  <2>2. c = e /\ n = f[e] + 1
    BY <2>1
  <2> QED BY <2>2
<1>6. IsFiniteSet(D)
  BY RFMAssumption, FS_Subset
<1>7. IsFiniteSet(X) /\ Cardinality(X) = Cardinality(D)
  <2>1. h \in [D -> X]
    OBVIOUS
  <2>2. \A c, e \in D : h[c] = h[e] => c = e
    OBVIOUS
  <2>3. \A u \in X : \E c \in D : h[c] = u
    OBVIOUS
  <2> HIDE DEF h, X
  <2>4. h \in Injection(D, X)
    BY <2>1, <2>2 DEF Injection, IsInjective
  <2>5. h \in Surjection(D, X)
    BY <2>1, <2>3 DEF Surjection
  <2>6. ExistsBijection(D, X)
    BY <2>4, <2>5 DEF ExistsBijection, Bijection
  <2> QED BY <1>6, <2>6, FS_Bijection
<1> HIDE DEF X
<1>8. Units(g, Banks) = Units(f, Banks) \cup X
  BY <1>4
<1>9. IsFiniteSet(Units(f, Banks))
  <2>1. CASE IsFiniteSet(Units(g, Banks))
    BY <1>8, <2>1, FS_Subset
  <2> QED BY <2>1 DEF g
<1>10. /\ IsFiniteSet(Units(f, Banks) \cup X)
       /\ Cardinality(Units(f, Banks) \cup X)
            = Cardinality(Units(f, Banks)) + Cardinality(X) - Cardinality({})
  BY <1>5, <1>7, <1>9, FS_Union
<1>11. Cardinality(Units(f, Banks)) \in Nat /\ Cardinality(D) \in Nat
  BY <1>6, <1>9, FS_CardinalityType
<1>12. /\ IsFiniteSet(Units(g, Banks))
       /\ Total(g, Banks) = Total(f, Banks) + Cardinality(D)
  BY <1>7, <1>8, <1>10, <1>11, FS_EmptySet DEF Total
<1> QED BY <1>9, <1>11, <1>12 DEF Total, g

(* Clearing one bank's number takes its units away.                        *)
LEMMA UnitsCleared ==
  ASSUME NEW f \in [Banks -> Nat], IsFiniteSet(Units(f, Banks)), NEW e \in Banks,
         NEW g, g = [f EXCEPT ![e] = 0]
  PROVE  /\ IsFiniteSet(Units(g, Banks)) /\ Total(g, Banks) \in Nat
         /\ Total(f, Banks) = Total(g, Banks) + f[e]
<1> DEFINE X == {e} \X (1 .. f[e])
<1>1. /\ g \in [Banks -> Nat] /\ g[e] = 0 /\ f[e] \in Nat
      /\ \A c \in Banks : c # e => g[c] = f[c]
  OBVIOUS
<1>2. \A u : u \in Units(f, Banks) <=> \E c \in Banks : \E n \in 1 .. f[c] : u = <<c, n>>
  BY UnitsMember
<1>3. \A u : u \in Units(g, Banks) <=> \E c \in Banks : \E n \in 1 .. g[c] : u = <<c, n>>
  BY <1>1, UnitsMember
<1>4. \A u : u \in X <=> \E n \in 1 .. f[e] : u = <<e, n>>
  OBVIOUS
<1> HIDE DEF X
<1>5. ASSUME NEW u
      PROVE  /\ u \in Units(f, Banks) <=> u \in Units(g, Banks) \/ u \in X
             /\ ~ (u \in Units(g, Banks) /\ u \in X)
  <2>1. u \in Units(g, Banks)
          <=> \E c \in Banks : c # e /\ \E n \in 1 .. f[c] : u = <<c, n>>
    <3>1. \A n : n \notin 1 .. g[e]
      BY <1>1
    <3>2. \A c \in Banks : c # e => 1 .. g[c] = 1 .. f[c]
      BY <1>1
    <3>3. ASSUME NEW c \in Banks
          PROVE  (\E n \in 1 .. g[c] : u = <<c, n>>)
                   <=> c # e /\ \E n \in 1 .. f[c] : u = <<c, n>>
      <4>1. CASE c = e
        BY <3>1, <4>1
      <4>2. CASE c # e
        BY <3>2, <4>2
      <4> QED BY <4>1, <4>2
    <3> QED BY ONLY <1>3, <3>3
  <2>2. ASSUME u \in Units(f, Banks) PROVE u \in Units(g, Banks) \/ u \in X
    <3>1. PICK c \in Banks : \E n \in 1 .. f[c] : u = <<c, n>>
      BY <1>2, <2>2
    <3>2. CASE c = e
      BY <1>4, <3>1, <3>2
    <3>3. CASE c # e
      BY <2>1, <3>1, <3>3
    <3> QED BY <3>2, <3>3
  <2>3. ASSUME u \in X PROVE u \in Units(f, Banks) /\ u \notin Units(g, Banks)
    <3>1. PICK n \in 1 .. f[e] : u = <<e, n>>
      BY <1>4, <2>3
    <3>2. u \in Units(f, Banks)
      BY <1>2, <3>1
    <3>3. \A c \in Banks : \A m \in 1 .. f[c] : c # e => u # <<c, m>>
      BY <3>1
    <3> QED BY <2>1, <3>2, <3>3
  <2>4. u \in Units(g, Banks) => u \in Units(f, Banks)
    BY <1>2, <2>1
  <2> QED BY <2>2, <2>3, <2>4
<1>6. Units(f, Banks) = Units(g, Banks) \cup X /\ Units(g, Banks) \cap X = {}
  BY <1>5
<1>7. IsFiniteSet(Units(g, Banks)) /\ IsFiniteSet(X)
  BY <1>6, FS_Subset
<1>8. Cardinality(X) = f[e]
  <2>1. IsFiniteSet(1 .. f[e]) /\ Cardinality(1 .. f[e]) = f[e]
    <3>1. \A n \in Nat : IsFiniteSet(1 .. n) /\ Cardinality(1 .. n) = n
      BY FS_Interval
    <3> QED BY <1>1, <3>1
  <2>2. IsFiniteSet({e}) /\ Cardinality({e}) = 1
    BY FS_Singleton
  <2>3. Cardinality({e} \X (1 .. f[e])) = Cardinality({e}) * Cardinality(1 .. f[e])
    BY <2>1, <2>2, FS_Product, Zenon
  <2> QED BY <1>1, <2>1, <2>2, <2>3 DEF X
<1>9. Cardinality(Units(g, Banks) \cup X)
        = Cardinality(Units(g, Banks)) + Cardinality(X) - Cardinality({})
  BY <1>6, <1>7, FS_Union
<1>10. Cardinality(Units(g, Banks)) \in Nat
  BY <1>7, FS_CardinalityType
<1>11. Cardinality(Units(f, Banks)) = Cardinality(Units(g, Banks)) + f[e]
  <2>1. Cardinality({}) = 0
    BY FS_EmptySet
  <2> QED BY <1>1, <1>6, <1>8, <1>9, <1>10, <2>1
<1> QED BY <1>7, <1>10, <1>11 DEF Total

LEMMA UnitsNone ==
  ASSUME NEW f, f = [c \in Banks |-> 0]
  PROVE  IsFiniteSet(Units(f, Banks)) /\ Total(f, Banks) = 0
<1>1. f \in [Banks -> Nat] /\ \A c \in Banks : 1 .. f[c] = {}
  OBVIOUS
<1>2. Units(f, Banks) = {}
  BY <1>1, UnitsMember
<1> QED BY <1>2, FS_EmptySet DEF Total

-----------------------------------------------------------------------------
(* The books over all banks: every row that was inserted was mitigated,    *)
(* was evicted or is held, and the trackers saw slots mitigation slots.    *)
Balance(trackers, mitigs, slots) ==
  /\ IsFiniteSet(Units(Inserted(trackers), Banks))
  /\ IsFiniteSet(Units(Kept(trackers), Banks))
  /\ IsFiniteSet(Units(Offered(trackers), Banks))
  /\ Total(Inserted(trackers), Banks) = mitigs + Total(Kept(trackers), Banks)
  /\ Total(Offered(trackers), Banks) = slots

(* A tracker answers a mitigation slot with a row if it holds one.         *)
LEMMA VictimHeld ==
  ASSUME NEW u, GoodTracker(u)
  PROVE  Victim(u) # NoRow <=> u.num_valid > 0
<1>1. CASE u.num_valid > 0
  <2>1. u.head \in Slots /\ 0 \in 0 .. u.num_valid - 1
    BY <1>1 DEF GoodTracker, TrackerType
  <2>2. SlotAt(u, 0) = u.head
    BY <2>1, FullCircle DEF SlotAt
  <2>3. u.tracker[u.head] \in RowAddrs
    BY <2>1, <2>2 DEF GoodTracker
  <2> QED BY <1>1, <2>3, RowsAssumption DEF Victim, NoRow
<1>2. CASE ~ (u.num_valid > 0)
  BY <1>2 DEF Victim
<1> QED BY <1>1, <1>2

(* Mitigation slots for the banks of D.                                    *)
LEMMA ServeBalance ==
  ASSUME NEW T, \A c \in Banks : GoodTracker(T[c]), NEW D \in SUBSET Banks,
         NEW U, U = [c \in Banks |-> IF c \in D THEN IssueMitig(T[c]) ELSE T[c]],
         NEW m \in Nat, NEW s \in Nat, Balance(T, m, s)
  PROVE  Balance(U, m + Answers(T, D), s + Cardinality(D))
<1> DEFINE A == {c \in D : Victim(T[c]) # NoRow}
<1>1. \A c \in Banks :
        /\ T[c].num_insert \in Nat /\ T[c].num_evict \in Nat
        /\ T[c].num_remove \in Nat /\ T[c].num_valid \in Nat
  BY SizeAssumption DEF GoodTracker, TrackerType
<1>2. ASSUME NEW c \in D
      PROVE  /\ U[c].num_insert = T[c].num_insert
             /\ U[c].num_remove = T[c].num_remove + 1
             /\ U[c].num_evict = T[c].num_evict
             /\ U[c].num_valid = IF T[c].num_valid > 0 THEN T[c].num_valid - 1 ELSE 0
  <2>1. U[c] = IssueMitig(T[c]) /\ GoodTracker(T[c]) /\ c \in Banks
    OBVIOUS
  <2> QED BY <1>1, <2>1, IssueMitigFacts
<1>3. \A c \in Banks : c \notin D => U[c] = T[c]
  OBVIOUS
<1>4. ASSUME NEW c \in D PROVE c \in A <=> T[c].num_valid > 0
  BY VictimHeld
<1> HIDE DEF A
<1>5. Inserted(U) = Inserted(T)
  BY <1>2, <1>3 DEF Inserted
<1>6. Offered(U) = Raised(Offered(T), D) /\ Offered(T) \in [Banks -> Nat]
  BY <1>1, <1>2, <1>3 DEF Offered, Raised
<1>7. Kept(T) = Raised(Kept(U), A) /\ Kept(U) \in [Banks -> Nat] /\ A \in SUBSET Banks
  <2>1. A \in SUBSET D
    BY DEF A
  <2>2. ASSUME NEW c \in Banks
        PROVE  /\ Kept(U)[c] \in Nat
               /\ Kept(T)[c] = IF c \in A THEN Kept(U)[c] + 1 ELSE Kept(U)[c]
    <3>1. CASE c \in D
      BY <1>1, <1>2, <1>4, <3>1 DEF Kept
    <3>2. CASE c \notin D
      BY <1>1, <1>3, <2>1, <3>2 DEF Kept
    <3> QED BY <3>1, <3>2
  <2> QED BY <2>1, <2>2 DEF Kept, Raised
<1>8. /\ IsFiniteSet(Units(Offered(U), Banks))
      /\ Total(Offered(U), Banks) = Total(Offered(T), Banks) + Cardinality(D)
  BY <1>6, UnitsRaised DEF Balance
<1>9. /\ IsFiniteSet(Units(Kept(U), Banks)) /\ Total(Kept(U), Banks) \in Nat
      /\ Total(Kept(T), Banks) = Total(Kept(U), Banks) + Cardinality(A)
  BY <1>7, UnitsRaised DEF Balance
<1>10. Answers(T, D) = Cardinality(A) /\ Answers(T, D) \in Nat
  BY AnswersType DEF Answers, A
<1>11. m + Total(Kept(T), Banks) = m + Answers(T, D) + Total(Kept(U), Banks)
  BY <1>9, <1>10
<1> QED BY <1>5, <1>8, <1>9, <1>11 DEF Balance

(* A sampled row for bank b.                                               *)
LEMMA SampleBalance ==
  ASSUME NEW T, \A c \in Banks : GoodTracker(T[c]),
         NEW b \in Banks, NEW row \in RowAddrs,
         NEW U, U[b] = Insert(T[b], row), \A c \in Banks : c # b => U[c] = T[c],
         NEW m \in Nat, NEW s \in Nat, Balance(T, m, s)
  PROVE  Balance(U, m, s)
<1>1. \A c \in Banks :
        /\ T[c].num_insert \in Nat /\ T[c].num_evict \in Nat
        /\ T[c].num_remove \in Nat /\ T[c].num_valid \in Nat
  BY SizeAssumption DEF GoodTracker, TrackerType
<1>2. U[b] = Insert(T[b], row) /\ \A c \in Banks : c # b => U[c] = T[c]
  OBVIOUS
<1>3. /\ U[b].num_insert = T[b].num_insert + 1
      /\ U[b].num_remove = T[b].num_remove
      /\ U[b].num_evict + U[b].num_valid = T[b].num_evict + T[b].num_valid + 1
  <2>1. /\ U[b].num_insert = T[b].num_insert + 1
        /\ U[b].num_remove = T[b].num_remove
        /\ U[b].num_evict = MakeRoom(T[b]).num_evict
        /\ U[b].num_valid = MakeRoom(T[b]).num_valid + 1
    <3>1. GoodTracker(T[b])
      OBVIOUS
    <3>2. /\ Insert(T[b], row).num_insert = T[b].num_insert + 1
          /\ Insert(T[b], row).num_remove = T[b].num_remove
          /\ Insert(T[b], row).num_evict = MakeRoom(T[b]).num_evict
          /\ Insert(T[b], row).num_valid = MakeRoom(T[b]).num_valid + 1
      BY <3>1, InsertFacts
    <3> QED BY <1>2, <3>2
  <2>2. MakeRoom(T[b]).num_evict + MakeRoom(T[b]).num_valid
          = T[b].num_evict + T[b].num_valid
    <3>1. CASE T[b].num_valid # Size
      BY <3>1, MakeRoomFacts
    <3>2. CASE T[b].num_valid = Size
      BY <1>1, <3>2, MakeRoomFacts, SizeAssumption
    <3> QED BY <3>1, <3>2
  <2>3. MakeRoom(T[b]).num_evict \in Nat /\ MakeRoom(T[b]).num_valid \in Nat
    BY MakeRoomFacts, SizeAssumption DEF GoodTracker, TrackerType
  <2> QED BY <1>1, <2>1, <2>2, <2>3
<1>4. Offered(U) = Offered(T)
  BY <1>2, <1>3 DEF Offered
<1>5. Inserted(U) = Raised(Inserted(T), {b}) /\ Inserted(T) \in [Banks -> Nat]
  BY <1>1, <1>2, <1>3 DEF Inserted, Raised
<1>6. Kept(U) = Raised(Kept(T), {b}) /\ Kept(T) \in [Banks -> Nat]
  BY <1>1, <1>2, <1>3 DEF Kept, Raised
<1>7. {b} \in SUBSET Banks /\ Cardinality({b}) = 1
  BY FS_Singleton
<1>8. /\ IsFiniteSet(Units(Inserted(U), Banks)) /\ Total(Inserted(T), Banks) \in Nat
      /\ Total(Inserted(U), Banks) = Total(Inserted(T), Banks) + 1
  BY <1>5, <1>7, UnitsRaised DEF Balance
<1>9. /\ IsFiniteSet(Units(Kept(U), Banks)) /\ Total(Kept(T), Banks) \in Nat
      /\ Total(Kept(U), Banks) = Total(Kept(T), Banks) + 1
  BY <1>6, <1>7, UnitsRaised DEF Balance
<1> QED BY <1>4, <1>8, <1>9 DEF Balance

(* How many ACTs of its running RFM window each bank has seen.             *)
Running(acts) == [c \in Banks |-> acts[c] % rfm_act_threshold]

(* The books with what they rest on: the last conjunct pays for the next   *)
(* RFM with the ACTs of the running windows, which reset() throws away.    *)
Books ==
  /\ Balance(mytracker, s_mitigs, s_num_resets * Cardinality(Banks) + s_rfms)
  /\ IsFiniteSet(Units(Running(act_in_trefi_per_bank), Banks))
  /\ s_rfms * rfm_act_threshold + Total(Running(act_in_trefi_per_bank), Banks)
       <= s_num_accesses

LEMMA AccessBalance ==
  ASSUME IInv, Books, NEW b \in Banks, NEW row \in RowAddrs, NEW now \in Nat,
         NEW sampled \in BOOLEAN, access(b, row, now, sampled)
  PROVE  Balance(mytracker', s_mitigs', s_num_resets' * Cardinality(Banks) + s_rfms')
<1> DEFINE mid == AfterInterval(now)
           T   == mid.trackers
           due == RfmDue(mid.acts[b] + 1)
           N   == Cardinality(Banks)
           s0  == s_num_resets * N + s_rfms
           s1  == s_num_resets' * N + s_rfms
           U   == IF due THEN [c \in Banks |-> IF c \in {b} THEN IssueMitig(T[c]) ELSE T[c]]
                  ELSE T
           m1  == s_mitigs + mid.mitigs
<1>1. /\ mytracker' = [T EXCEPT ![b] = AfterRfm(T[b], due, row, sampled)]
      /\ s_num_resets' = (IF IntervalOver(now) THEN s_num_resets + 1 ELSE s_num_resets)
      /\ s_rfms' = (IF due THEN s_rfms + 1 ELSE s_rfms)
      /\ s_mitigs' = m1 + (IF due THEN Answers(T, {b}) ELSE 0)
  BY DEF access
<1>2. /\ T \in [Banks -> TrackerType] /\ mid.mitigs \in Nat
      /\ \A c \in Banks : GoodTracker(T[c])
  BY IntervalFacts
<1>3. /\ N \in Nat /\ s_num_resets \in Nat /\ s_rfms \in Nat /\ s_mitigs \in Nat
      /\ s_num_resets * N \in Nat
  BY RFMAssumption, FS_CardinalityType DEF IInv, TypeOK
<1>4. s0 \in Nat /\ s1 \in Nat /\ m1 \in Nat
      /\ s1 = IF IntervalOver(now) THEN s0 + N ELSE s0
  <2>1. (s_num_resets + 1) * N = s_num_resets * N + N
    BY <1>3
  <2> HIDE DEF N
  <2> QED BY <1>1, <1>2, <1>3, <2>1
<1>5. Balance(T, m1, s1)
  <2>1. CASE IntervalOver(now)
    <3>1. /\ T = [c \in Banks |-> IssueMitig(mytracker[c])]
          /\ mid.mitigs = Answers(mytracker, Banks)
      BY <2>1 DEF AfterInterval
    <3>2. T = [c \in Banks |-> IF c \in Banks THEN IssueMitig(mytracker[c]) ELSE mytracker[c]]
      BY <3>1
    <3>3. \A c \in Banks : GoodTracker(mytracker[c])
      BY DEF IInv
    <3>4. Balance(mytracker, s_mitigs, s0)
      BY DEF Books
    <3> HIDE DEF T, mid, s0, s1
    <3>5. Balance(T, s_mitigs + Answers(mytracker, Banks), s0 + N)
      BY <1>3, <1>4, <3>2, <3>3, <3>4, ServeBalance
    <3> QED BY <1>4, <2>1, <3>1, <3>5
  <2>2. CASE ~ IntervalOver(now)
    <3>1. T = mytracker /\ mid.mitigs = 0
      BY <2>2 DEF AfterInterval
    <3>2. m1 = s_mitigs /\ s1 = s0
      BY <1>3, <1>4, <2>2, <3>1
    <3> QED BY <3>1, <3>2 DEF Books
  <2> QED BY <2>1, <2>2
<1> HIDE DEF T, mid, s0, s1, m1, due
<1>6. /\ U \in [Banks -> TrackerType] /\ \A c \in Banks : GoodTracker(U[c])
      /\ U[b] = IF due THEN IssueMitig(T[b]) ELSE T[b]
      /\ \A c \in Banks : c # b => U[c] = T[c]
  <2>1. ASSUME NEW c \in Banks
        PROVE  GoodTracker(IssueMitig(T[c])) /\ IssueMitig(T[c]) \in TrackerType
    BY <1>2, IssueMitigFacts DEF GoodTracker
  <2> QED BY <1>2, <2>1
<1>7. Balance(U, s_mitigs', s1 + (IF due THEN 1 ELSE 0))
  <2>1. CASE due
    <3>1. {b} \in SUBSET Banks /\ Cardinality({b}) = 1
      BY FS_Singleton
    <3>2. U = [c \in Banks |-> IF c \in {b} THEN IssueMitig(T[c]) ELSE T[c]]
      BY <2>1
    <3> HIDE DEF U
    <3>3. Balance(U, m1 + Answers(T, {b}), s1 + Cardinality({b}))
      BY <1>2, <1>4, <1>5, <3>1, <3>2, ServeBalance
    <3> QED BY <1>1, <2>1, <3>1, <3>3
  <2>2. CASE ~ due
    BY <1>1, <1>4, <1>5, <2>2
  <2> QED BY <2>1, <2>2
<1>8. /\ s_mitigs' \in Nat
      /\ s1 + (IF due THEN 1 ELSE 0) \in Nat
      /\ s1 + (IF due THEN 1 ELSE 0) = s_num_resets' * N + s_rfms'
  <2>1. Answers(T, {b}) \in Nat
    BY AnswersType
  <2>2. s_num_resets' * N \in Nat
    BY <1>1, <1>3
  <2>3. s1 = s_num_resets' * N + s_rfms
    BY DEF s1
  <2> HIDE DEF N
  <2> QED BY <1>1, <1>3, <1>4, <2>1, <2>2, <2>3
<1> HIDE DEF U, N
<1>9. Balance(mytracker', s_mitigs', s1 + (IF due THEN 1 ELSE 0))
  <2>1. CASE sampled
    <3>1. AfterRfm(T[b], due, row, sampled) = Insert(U[b], row)
      BY <1>6, <2>1 DEF AfterRfm
    <3>2. /\ mytracker'[b] = Insert(U[b], row)
          /\ \A c \in Banks : c # b => mytracker'[c] = U[c]
      BY <1>1, <1>2, <1>6, <3>1
    <3>3. \A c \in Banks : GoodTracker(U[c])
      BY <1>6
    <3> QED BY <1>7, <1>8, <3>2, <3>3, SampleBalance
  <2>2. CASE ~ sampled
    <3>1. AfterRfm(T[b], due, row, sampled) = U[b]
      BY <1>6, <2>2 DEF AfterRfm
    <3>2. mytracker' = U
      BY <1>1, <1>2, <1>6, <3>1
    <3> QED BY <1>7, <3>2
  <2> QED BY <2>1, <2>2
<1> QED BY <1>8, <1>9 DEF N

(* RFMs are paid for with the ACTs of their window.                        *)
LEMMA AccessPace ==
  ASSUME IInv, Books, NEW b \in Banks, NEW row \in RowAddrs, NEW now \in Nat,
         NEW sampled \in BOOLEAN, access(b, row, now, sampled)
  PROVE  /\ IsFiniteSet(Units(Running(act_in_trefi_per_bank'), Banks))
         /\ s_rfms' * rfm_act_threshold + Total(Running(act_in_trefi_per_bank'), Banks)
              <= s_num_accesses'
<1> DEFINE A   == AfterInterval(now).acts
           k   == A[b]
           K   == rfm_act_threshold
           due == RfmDue(k + 1)
           f   == Running(A)
           g   == Running(act_in_trefi_per_bank')
           R   == Running(act_in_trefi_per_bank)
<1>1. /\ act_in_trefi_per_bank' = [A EXCEPT ![b] = k + 1]
      /\ s_rfms' = (IF due THEN s_rfms + 1 ELSE s_rfms)
      /\ s_num_accesses' = s_num_accesses + 1
  BY DEF access
<1>2. A \in [Banks -> Nat] /\ k \in Nat /\ K \in Nat \ {0}
  BY IntervalFacts, RFMAssumption
<1>3. s_rfms \in Nat /\ s_num_accesses \in Nat /\ s_rfms * K \in Nat
  BY <1>2 DEF IInv, TypeOK
<1>4. f \in [Banks -> Nat] /\ R \in [Banks -> Nat]
  <2>1. \A c \in Banks : A[c] % K \in Nat
    BY <1>2
  <2>2. \A c \in Banks : act_in_trefi_per_bank[c] % K \in Nat
    BY <1>2 DEF IInv, TypeOK
  <2> QED BY <2>1, <2>2 DEF Running
<1>5. Total(R, Banks) \in Nat
  BY FS_CardinalityType DEF Books, Total
<1>6. /\ IsFiniteSet(Units(f, Banks)) /\ Total(f, Banks) \in Nat
      /\ Total(f, Banks) <= Total(R, Banks)
  <2>1. CASE IntervalOver(now)
    <3>1. A = [c \in Banks |-> 0]
      BY <2>1 DEF AfterInterval
    <3>2. 0 % K = 0
      BY <1>2
    <3>3. f = [c \in Banks |-> 0]
      BY <3>1, <3>2 DEF Running
    <3> HIDE DEF f, R
    <3>4. IsFiniteSet(Units(f, Banks)) /\ Total(f, Banks) = 0
      BY <3>3, UnitsNone
    <3> QED BY <1>5, <3>4
  <2>2. CASE ~ IntervalOver(now)
    <3>1. A = act_in_trefi_per_bank
      BY <2>2 DEF AfterInterval
    <3>2. f = R
      BY <3>1
    <3>3. IsFiniteSet(Units(R, Banks))
      BY DEF Books
    <3> HIDE DEF f, R
    <3> QED BY <1>5, <3>2, <3>3
  <2> QED BY <2>1, <2>2
<1>7. s_rfms * K + Total(f, Banks) <= s_num_accesses
  BY <1>3, <1>5, <1>6 DEF Books
<1>8. /\ k % K \in 0 .. K - 1
      /\ (k + 1) % K = IF k % K = K - 1 THEN 0 ELSE (k % K) + 1
      /\ due <=> (k + 1) % K = 0
      /\ f[b] = k % K
      /\ g = [f EXCEPT ![b] = (k + 1) % K]
  <2>1. /\ k % K \in 0 .. K - 1
        /\ (k + 1) % K = IF k % K = K - 1 THEN 0 ELSE (k % K) + 1
    BY <1>2, WindowCount
  <2>2. (due <=> (k + 1) % K = 0) /\ f[b] = k % K
    BY DEF RfmDue, Running
  <2>3. \A c \in Banks : act_in_trefi_per_bank'[c] = IF c = b THEN k + 1 ELSE A[c]
    BY <1>1, <1>2
  <2> HIDE DEF k, A
  <2>4. g = [f EXCEPT ![b] = (k + 1) % K]
    BY <2>3 DEF Running
  <2> QED BY <2>1, <2>2, <2>4
<1> HIDE DEF A, k, due, f, g
<1>9. CASE due
  <2>1. (k + 1) % K = 0 /\ k % K = K - 1
    <3>1. (k % K) + 1 # 0
      BY <1>2, <1>8
    <3> QED BY <1>8, <1>9, <3>1
  <2>0. f[b] = K - 1 /\ g = [f EXCEPT ![b] = 0]
    BY <1>8, <2>1
  <2>2. /\ IsFiniteSet(Units(g, Banks)) /\ Total(g, Banks) \in Nat
        /\ Total(f, Banks) = Total(g, Banks) + f[b]
    BY <1>4, <1>6, <2>0, UnitsCleared
  <2>3. (s_rfms + 1) * K = s_rfms * K + K
    BY <1>2, <1>3
  <2>4. s_rfms' * K + Total(g, Banks) <= s_num_accesses'
    BY <1>1, <1>2, <1>3, <1>7, <1>9, <2>0, <2>2, <2>3
  <2> QED BY <2>2, <2>4 DEF g
<1>10. CASE ~ due
  <2>1. g = Raised(f, {b})
    <3>1. (k + 1) % K = f[b] + 1
      BY <1>2, <1>8, <1>10
    <3> QED BY <1>4, <1>8, <3>1 DEF Raised
  <2>2. {b} \in SUBSET Banks /\ Cardinality({b}) = 1
    BY FS_Singleton
  <2>3. IsFiniteSet(Units(g, Banks)) /\ Total(g, Banks) = Total(f, Banks) + 1
    BY <1>4, <1>6, <2>1, <2>2, UnitsRaised
  <2>4. s_rfms' * K + Total(g, Banks) <= s_num_accesses'
    BY <1>1, <1>3, <1>6, <1>7, <1>10, <2>3
  <2> QED BY <2>3, <2>4 DEF g
<1> QED BY <1>9, <1>10

LEMMA BooksInv == Spec => []Books
<1>1. Init => Books
  <2> SUFFICES ASSUME Init PROVE Books
    OBVIOUS
  <2> DEFINE Z == [c \in Banks |-> 0]
  <2>1. IsFiniteSet(Units(Z, Banks)) /\ Total(Z, Banks) = 0
    BY UnitsNone
  <2>2. Inserted(mytracker) = Z /\ Kept(mytracker) = Z /\ Offered(mytracker) = Z
    BY DEF Init, NewTracker, Inserted, Kept, Offered
  <2>3. 0 % rfm_act_threshold = 0
    BY RFMAssumption
  <2>4. Running(act_in_trefi_per_bank) = Z
    BY <2>3 DEF Init, Running
  <2> HIDE DEF Z
  <2>5. 0 * Cardinality(Banks) = 0 /\ 0 * rfm_act_threshold = 0
    <3>1. Cardinality(Banks) \in Nat /\ rfm_act_threshold \in Nat
      BY RFMAssumption, FS_CardinalityType
    <3>2. \A n \in Nat : 0 * n = 0
      OBVIOUS
    <3> QED BY <3>1, <3>2
  <2> QED BY <2>1, <2>2, <2>4, <2>5 DEF Init, Books, Balance
<1>2. IInv /\ Books /\ [Next]_vars => Books'
  <2> SUFFICES ASSUME IInv, Books, [Next]_vars PROVE Books'
    OBVIOUS
  <2>1. CASE UNCHANGED vars
    BY <2>1 DEF vars, Books, Balance, Inserted, Kept, Offered, Running
  <2>2. CASE Next
    <3>1. PICK b \in Banks, row \in RowAddrs, now \in curTick .. MaxTick, sampled \in BOOLEAN :
            access(b, row, now, sampled)
      BY <2>2 DEF Next
    <3>2. now \in Nat
      BY RFMAssumption DEF IInv, TypeOK
    <3>3. Balance(mytracker', s_mitigs', s_num_resets' * Cardinality(Banks) + s_rfms')
      BY <3>1, <3>2, AccessBalance
    <3>4. /\ IsFiniteSet(Units(Running(act_in_trefi_per_bank'), Banks))
          /\ s_rfms' * rfm_act_threshold + Total(Running(act_in_trefi_per_bank'), Banks)
               <= s_num_accesses'
      BY <3>1, <3>2, AccessPace
    <3> QED BY <3>3, <3>4 DEF Books, Balance, Inserted, Kept, Offered, Running
  <2> QED BY <2>1, <2>2
<1> QED BY <1>1, <1>2, Invariance, PTL DEF Spec

(* The books balance for every number of banks, tracker size and           *)
(* threshold: no sampled row disappears, s_mitigs counts rows and never    *)
(* empty slots, the slots are one per bank and interval and one per RFM,   *)
(* and RFMs never come faster than one per rfm_act_threshold ACTs.         *)
THEOREM RowsAccountedFor == Spec => []EveryRowAccountedFor
<1>1. IInv /\ Books => EveryRowAccountedFor
  <2> SUFFICES ASSUME IInv, Books PROVE EveryRowAccountedFor
    OBVIOUS
  <2>1. s_rfms * rfm_act_threshold \in Nat /\ s_num_accesses \in Nat
    BY RFMAssumption DEF IInv, TypeOK
  <2>2. Total(Running(act_in_trefi_per_bank), Banks) \in Nat
    BY FS_CardinalityType DEF Books, Total
  <2>3. s_rfms * rfm_act_threshold <= s_num_accesses
    BY <2>1, <2>2 DEF Books
  <2> QED BY <2>3 DEF Books, Balance, EveryRowAccountedFor
<1> QED BY <1>1, Invariance, BooksInv, PTL
=============================================================================
