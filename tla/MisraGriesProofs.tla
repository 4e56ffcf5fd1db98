-------------------------- MODULE MisraGriesProofs --------------------------
(***************************************************************************)
(* Proofs about the Misra_Gries detector, for every table size, threshold  *)
(* and set of rows.  The three paths of access() change a row's estimate   *)
(* in the same way, by one for the accessed row and by nothing for the     *)
(* others, except that a spill raises the estimate of all rows without an  *)
(* entry; the invariants follow from that.  What is said of sums, of all   *)
(* counts or of the multiples of the threshold below them, is proved by    *)
(* counting the units they are made of.                                    *)
(***************************************************************************)
EXTENDS MisraGries, FiniteSetTheorems, WellFoundedInduction, TLAPS

(* A non-empty set of numbers has a least element.                         *)
LEMMA LeastExists ==
  ASSUME NEW S \in SUBSET Nat, S # {}
  PROVE  \E e \in S : \A f \in S : e <= f
<1>. DEFINE Less == {ss \in Nat \X Nat : ss[1] < ss[2]}
<1>0. IsWellFoundedOn(Less, Nat)
  BY NatLessThanWellFounded, Zenon DEF OpToRel
<1>. HIDE DEF Less
<1>1. PICK e \in S : \A f \in S : ~(<<f, e>> \in Less)
  BY <1>0, WFMin, Zenon
<1>2. \A f \in S : ~(f < e)
  BY <1>1 DEF Less
<1>. QED  BY <1>2

(* The scan of access() for an entry to take over finds one, if there is   *)
(* any.                                                                    *)
LEMMA FirstFound ==
  ASSUME NEW t \in TableType, Replaceable(t) # {}
  PROVE  /\ FirstReplaceable(t) \in Replaceable(t)
         /\ FirstReplaceable(t) \in Entries
<1>1. Replaceable(t) \in SUBSET Nat
  BY DetectorAssumption DEF Replaceable, Entries
<1>2. \E e \in Replaceable(t) : \A f \in Replaceable(t) : e <= f
  BY <1>1, LeastExists
<1>. QED  BY <1>2 DEF FirstReplaceable, First, Replaceable

-----------------------------------------------------------------------------
(* Counting one activation more crosses a multiple of the threshold only   *)
(* when Flags says so.                                                     *)
LEMMA CrossesThreshold ==
  ASSUME NEW c \in Nat
  PROVE  (c + 1) \div threshold = c \div threshold + One(Flags(c + 1))
<1>. DEFINE q == c \div threshold  m == c % threshold
<1>1. q \in Nat /\ m \in 0 .. threshold - 1 /\ c = threshold * q + m
  BY DetectorAssumption
<1>. HIDE DEF q, m
<1>2. CASE m + 1 = threshold
  <2>1. c + 1 = threshold * (q + 1) + 0
    BY <1>1, <1>2, DetectorAssumption
  <2>2. (c + 1) \div threshold = q + 1 /\ (c + 1) % threshold = 0
    BY <2>1, <1>1, DetectorAssumption
  <2>. QED  BY <2>2 DEF q, One, Flags
<1>3. CASE m + 1 < threshold
  <2>1. c + 1 = threshold * q + (m + 1)
    BY <1>1, DetectorAssumption
  <2>2. (c + 1) \div threshold = q /\ (c + 1) % threshold = m + 1
    BY <2>1, <1>1, <1>3, DetectorAssumption
  <2>. QED  BY <2>2, <1>1 DEF q, One, Flags
<1>. QED  BY <1>1, <1>2, <1>3, DetectorAssumption

LEMMA DivMonotone ==
  ASSUME NEW a \in Nat, NEW b \in Nat, a <= b
  PROVE  a \div threshold <= b \div threshold
<1>. DEFINE p == a \div threshold  q == b \div threshold
<1>1. /\ p \in Nat /\ threshold * p <= a
      /\ q \in Nat /\ b < threshold * (q + 1)
  BY DetectorAssumption
<1>. HIDE DEF p, q
<1>2. threshold * p < threshold * (q + 1)
  BY <1>1, DetectorAssumption
<1>3. p < q + 1
  BY <1>1, <1>2, DetectorAssumption
<1>. QED  BY <1>1, <1>3 DEF p, q

LEMMA DivSmall ==
  ASSUME NEW a \in Nat, a < threshold
  PROVE  a \div threshold = 0
BY DetectorAssumption

-----------------------------------------------------------------------------
LEMMA NewTableGood ==
  GoodTable(NewTable) /\ \A r \in Rows : Estimate(NewTable, r) = 0
BY DetectorAssumption
   DEF GoodTable, NewTable, TableType, Unused, Entries, Lookup, Estimate

LEMMA EstimateType ==
  ASSUME NEW t, GoodTable(t), NEW r \in Rows
  PROVE  Estimate(t, r) \in Nat
<1>1. Lookup(t, r) => t.rowHasEntry[r] \in Entries
  BY DEF GoodTable, TableType, Entries, Lookup
<1>. QED  BY <1>1 DEF GoodTable, TableType, Estimate

(* A hit counts for the row's own entry and for no other row.              *)
LEMMA HitFacts ==
  ASSUME NEW t, GoodTable(t), NEW row \in Rows, Lookup(t, row)
  PROVE  LET u == Hit(t, row) IN
         /\ GoodTable(u)
         /\ u.spill_counter = t.spill_counter
         /\ \A r \in Rows : Lookup(u, r) <=> Lookup(t, r)
         /\ Estimate(u, row) = Estimate(t, row) + 1
         /\ \A r \in Rows \ {row} : Estimate(u, r) = Estimate(t, r)
<1>. DEFINE u == Hit(t, row)  e == t.rowHasEntry[row]
<1>1. e \in Entries
  BY DEF GoodTable, TableType, Entries, Lookup
<1>2. /\ u.rowHasEntry = t.rowHasEntry
      /\ u.spill_counter = t.spill_counter
      /\ u.entries = [t.entries EXCEPT ![e].count = @ + 1]
      /\ u \in TableType
  BY <1>1 DEF GoodTable, TableType, Hit
<1>3. GoodTable(u)
  BY <1>1, <1>2 DEF GoodTable, TableType, Lookup
<1>4. \A r \in Rows : Lookup(u, r) <=> Lookup(t, r)
  BY <1>2 DEF Lookup
<1>5. Estimate(u, row) = Estimate(t, row) + 1
  BY <1>1, <1>2 DEF Lookup, Estimate, GoodTable, TableType
<1>6. ASSUME NEW r \in Rows \ {row}
      PROVE  Estimate(u, r) = Estimate(t, r)
  <2>1. CASE Lookup(t, r)
    <3>1. t.rowHasEntry[r] \in Entries /\ t.rowHasEntry[r] # e
      BY <2>1 DEF GoodTable, TableType, Entries, Lookup
    <3>. QED  BY <3>1, <2>1, <1>1, <1>2, <1>4 DEF Estimate, GoodTable, TableType
  <2>2. CASE ~Lookup(t, r)
    BY <2>2, <1>2, <1>4 DEF Estimate
  <2>. QED  BY <2>1, <2>2
<1>. QED  BY <1>2, <1>3, <1>4, <1>5, <1>6

(* An installation gives the row the spill counter's count plus one, and   *)
(* the row it displaces had exactly the spill counter's count.             *)
LEMMA InstallFacts ==
  ASSUME NEW t, GoodTable(t), NEW row \in Rows, ~Lookup(t, row),
         Replaceable(t) # {}
  PROVE  LET u == Install(t, row) IN
         /\ GoodTable(u)
         /\ u.spill_counter = t.spill_counter
         /\ Lookup(u, row)
         /\ \A r \in Rows \ {row} : Lookup(u, r) => Lookup(t, r)
         /\ Estimate(u, row) = Estimate(t, row) + 1
         /\ \A r \in Rows \ {row} : Estimate(u, r) = Estimate(t, r)
<1>. DEFINE u == Install(t, row)  e == FirstReplaceable(t)  old == t.entries[e]
<1>1. t \in TableType
  BY DEF GoodTable
<1>2. e \in Entries /\ old.count = t.spill_counter
  BY <1>1, FirstFound DEF Replaceable
<1>. HIDE DEF e
<1>. DEFINE E == [t.entries EXCEPT ![e] = [valid |-> TRUE, addr |-> row,
                                          count |-> t.spill_counter + 1]]
            R == [r \in Rows |-> IF r = row THEN e
                                 ELSE IF old.valid /\ r = old.addr THEN 0
                                 ELSE t.rowHasEntry[r]]
<1>3. u = [t EXCEPT !.entries = E, !.rowHasEntry = R]
  BY <1>1, <1>2 DEF TableType, Install, e
<1>4. E \in [Entries -> [valid : BOOLEAN, addr : Rows, count : Nat]]
  BY <1>1, <1>2 DEF TableType
<1>5. R \in [Rows -> 0 .. numEntries]
  BY <1>1, <1>2, DetectorAssumption DEF TableType, Entries
<1>6. u \in TableType /\ u.spill_counter = t.spill_counter /\ u.entries = E /\ u.rowHasEntry = R
  <2>. HIDE DEF u, E, R
  <2>. QED  BY <1>1, <1>3, <1>4, <1>5 DEF TableType
<1>. HIDE DEF u
<1>7. \A r \in Rows \ {row} :
         IF Lookup(t, r) /\ t.rowHasEntry[r] # e
         THEN u.rowHasEntry[r] = t.rowHasEntry[r]
         ELSE u.rowHasEntry[r] = 0
  BY <1>1, <1>2, <1>6 DEF GoodTable, Lookup, TableType
<1>8. u.rowHasEntry[row] = e /\ e # 0
  BY <1>2, <1>6 DEF Entries
<1>9. \A r \in Rows : Lookup(u, r) => LET entry == u.entries[u.rowHasEntry[r]]
                                     IN  entry.valid /\ entry.addr = r
  <2>. SUFFICES ASSUME NEW r \in Rows, Lookup(u, r)
                PROVE  u.entries[u.rowHasEntry[r]].valid /\ u.entries[u.rowHasEntry[r]].addr = r
    OBVIOUS
  <2>1. CASE r = row
    BY <2>1, <1>1, <1>2, <1>6, <1>8 DEF TableType
  <2>2. CASE r # row
    <3>1. Lookup(t, r) /\ t.rowHasEntry[r] # e /\ u.rowHasEntry[r] = t.rowHasEntry[r]
      BY <2>2, <1>7 DEF Lookup
    <3>. QED  BY <3>1, <1>1, <1>2, <1>6 DEF GoodTable, TableType, Lookup, Entries
  <2>. QED  BY <2>1, <2>2
<1>10. \A f \in Entries :
         /\ u.entries[f].valid => u.rowHasEntry[u.entries[f].addr] = f
         /\ u.entries[f].count >= u.spill_counter
         /\ ~u.entries[f].valid => u.entries[f].count = 0 /\ u.spill_counter = 0
  <2>. SUFFICES ASSUME NEW f \in Entries
                PROVE  /\ u.entries[f].valid => u.rowHasEntry[u.entries[f].addr] = f
                       /\ u.entries[f].count >= u.spill_counter
                       /\ ~u.entries[f].valid => u.entries[f].count = 0 /\ u.spill_counter = 0
    OBVIOUS
  <2>1. CASE f = e
    BY <2>1, <1>1, <1>2, <1>6, <1>8 DEF TableType
  <2>2. CASE f # e
    <3>1. u.entries[f] = t.entries[f]
      BY <2>2, <1>1, <1>2, <1>6 DEF TableType
    <3>2. ASSUME t.entries[f].valid
          PROVE  u.rowHasEntry[t.entries[f].addr] = f
      <4>1. t.rowHasEntry[t.entries[f].addr] = f /\ f # 0 /\ t.entries[f].addr \in Rows
        BY <3>2, <1>1, DetectorAssumption DEF GoodTable, TableType, Entries
      <4>2. t.entries[f].addr # row
        BY <4>1 DEF Lookup
      <4>. QED  BY <4>1, <4>2, <2>2, <1>7 DEF Lookup
    <3>3. /\ t.entries[f].count >= t.spill_counter
          /\ ~t.entries[f].valid => t.entries[f].count = 0 /\ t.spill_counter = 0
      BY DEF GoodTable
    <3>4. u.entries[f].valid => u.rowHasEntry[u.entries[f].addr] = f
      BY <3>1, <3>2, Zenon
    <3>. QED  BY <3>1, <3>3, <3>4, <1>6
  <2>. QED  BY <2>1, <2>2
<1>11. GoodTable(u)
  BY <1>6, <1>9, <1>10 DEF GoodTable
<1>12. \A r \in Rows \ {row} : Estimate(u, r) = Estimate(t, r)
  <2>. SUFFICES ASSUME NEW r \in Rows \ {row}
                PROVE  Estimate(u, r) = Estimate(t, r)
    OBVIOUS
  <2>1. CASE Lookup(t, r) /\ t.rowHasEntry[r] # e
    <3>1. t.rowHasEntry[r] \in Entries
      BY <2>1, <1>1 DEF TableType, Lookup, Entries
    <3>. QED  BY <3>1, <2>1, <1>1, <1>2, <1>6, <1>7 DEF Estimate, Lookup, TableType
  <2>2. CASE ~(Lookup(t, r) /\ t.rowHasEntry[r] # e)
    BY <2>2, <1>2, <1>6, <1>7 DEF Estimate, Lookup
  <2>. QED  BY <2>1, <2>2
<1>13. Estimate(u, row) = Estimate(t, row) + 1
  BY <1>1, <1>2, <1>6, <1>8 DEF Estimate, Lookup, TableType
<1>14. \A r \in Rows \ {row} : Lookup(u, r) => Lookup(t, r)
  BY <1>7 DEF Lookup
<1>15. Lookup(u, row)
  BY <1>8 DEF Lookup
<1>. QED  BY <1>6, <1>11, <1>12, <1>13, <1>14, <1>15 DEF u

(* A spill finds every entry valid and above the spill counter.            *)
LEMMA SpillFacts ==
  ASSUME NEW t, GoodTable(t), Replaceable(t) = {}
  PROVE  LET u == Spill(t) IN
         /\ GoodTable(u)
         /\ u.spill_counter = t.spill_counter + 1
         /\ \A r \in Rows : /\ Lookup(u, r) <=> Lookup(t, r)
                            /\ Estimate(u, r) = IF Lookup(t, r) THEN Estimate(t, r)
                                                 ELSE t.spill_counter + 1
<1>. DEFINE u == Spill(t)
<1>1. /\ u.entries = t.entries /\ u.rowHasEntry = t.rowHasEntry
      /\ u.spill_counter = t.spill_counter + 1 /\ u \in TableType
  BY DEF GoodTable, TableType, Spill
<1>2. \A e \in Entries : t.entries[e].valid /\ t.entries[e].count >= t.spill_counter + 1
  BY DEF GoodTable, TableType, Replaceable
<1>3. GoodTable(u)
  BY <1>1, <1>2 DEF GoodTable, Lookup
<1>. QED  BY <1>1, <1>3 DEF Lookup, Estimate

-----------------------------------------------------------------------------
(* A row with an entry was flagged for every multiple of the threshold     *)
(* that its estimate has passed, as long as no row can enter the table     *)
(* above the threshold.                                                    *)
FlaggedInTable ==
  d.spill_counter < threshold =>
    \A r \in Rows : Lookup(d, r) => Estimate(d, r) \div threshold <= detections[r]

(* The inductive invariant.                                                *)
IInv == TypeOK /\ GoodTable(d) /\ EstimateBrackets /\ FlaggedInTable

LEMMA InitInv == Init => IInv
<1>. SUFFICES ASSUME Init PROVE IInv
  OBVIOUS
<1>1. TypeOK /\ GoodTable(d)
  BY NewTableGood DEF Init, TypeOK, GoodTable
<1>2. EstimateBrackets
  BY NewTableGood DEF Init, EstimateBrackets, NewTable
<1>3. FlaggedInTable
  BY DEF Init, FlaggedInTable, NewTable, Lookup
<1>. QED  BY <1>1, <1>2, <1>3 DEF IInv

LEMMA ResetInv == IInv /\ reset => IInv'
<1>. SUFFICES ASSUME IInv, reset PROVE IInv'
  OBVIOUS
<1>0. d' = NewTable /\ truth' = [r \in Rows |-> 0] /\ detections' = [r \in Rows |-> 0]
  BY DEF reset
<1>1. GoodTable(d')
  BY <1>0, NewTableGood
<1>2. TypeOK'
  BY <1>0, <1>1 DEF reset, IInv, TypeOK, GoodTable, TableType
<1>3. EstimateBrackets'
  BY <1>0, NewTableGood DEF EstimateBrackets, NewTable
<1>4. FlaggedInTable'
  BY <1>0 DEF FlaggedInTable, NewTable, Lookup
<1>. QED  BY <1>1, <1>2, <1>3, <1>4 DEF IInv

LEMMA AccessInv ==
  ASSUME IInv, NEW row \in Rows, access(row)
  PROVE  IInv'
<1>0. /\ d' = Access(d, row)
      /\ truth' = [truth EXCEPT ![row] = @ + 1]
      /\ detections' = [detections EXCEPT ![row] = @ + One(Detects(d, row))]
      /\ truth \in [Rows -> Nat] /\ detections \in [Rows -> Nat]
      /\ GoodTable(d) /\ d.spill_counter \in Nat
  BY DEF access, IInv, TypeOK, TableType
<1>1. One(Detects(d, row)) \in Nat
  BY DEF One
<1>2. \A r \in Rows : Estimate(d, r) \in Nat
  BY <1>0, EstimateType
<1>3. ASSUME GoodTable(d') PROVE TypeOK'
  <2>1. d' \in TableType
    BY <1>3 DEF GoodTable
  <2>. QED  BY <2>1, <1>0, <1>1 DEF IInv, TypeOK, access, One
\* A hit and an installation count for the row and leave the others alone.
<1>4. ASSUME GoodTable(d'), d'.spill_counter = d.spill_counter, Lookup(d', row),
             \A r \in Rows \ {row} : Lookup(d', r) => Lookup(d, r),
             Estimate(d', row) = Estimate(d, row) + 1,
             \A r \in Rows \ {row} : Estimate(d', r) = Estimate(d, r)
      PROVE  EstimateBrackets' /\ FlaggedInTable'
  <2>1. EstimateBrackets'
    BY <1>0, <1>2, <1>4 DEF IInv, EstimateBrackets
  <2>2. ASSUME d.spill_counter < threshold
        PROVE  Estimate(d', row) \div threshold <= detections'[row]
    <3>1. Detects(d, row) <=> Flags(Estimate(d, row) + 1)
      BY <1>0, <1>4 DEF Detects, Estimate
    <3>2. (Estimate(d, row) + 1) \div threshold
            = Estimate(d, row) \div threshold + One(Detects(d, row))
      BY <3>1, <1>2, CrossesThreshold DEF One
    <3>3. Estimate(d, row) \div threshold <= detections[row]
      <4>1. CASE Lookup(d, row)
        BY <4>1, <2>2 DEF IInv, FlaggedInTable
      <4>2. CASE ~Lookup(d, row)
        BY <4>2, <2>2, <1>0, DivSmall DEF Estimate
      <4>. QED  BY <4>1, <4>2
    <3>4. Estimate(d, row) \div threshold \in Nat
      BY <1>2, DetectorAssumption
    <3>. QED  BY <3>2, <3>3, <3>4, <1>0, <1>1, <1>4
  <2>3. FlaggedInTable'
    <3>. SUFFICES ASSUME d'.spill_counter < threshold, NEW r \in Rows, Lookup(d', r)
                  PROVE  Estimate(d', r) \div threshold <= detections'[r]
      BY DEF FlaggedInTable
    <3>1. CASE r = row
      BY <3>1, <2>2, <1>4
    <3>2. CASE r # row
      BY <3>2, <1>0, <1>4 DEF IInv, FlaggedInTable
    <3>. QED  BY <3>1, <3>2
  <2>. QED  BY <2>1, <2>3
<1>5. CASE Lookup(d, row)
  <2>1. d' = Hit(d, row)
    BY <1>0, <1>5 DEF Access
  <2>2. /\ GoodTable(d') /\ d'.spill_counter = d.spill_counter /\ Lookup(d', row)
        /\ \A r \in Rows \ {row} : Lookup(d', r) => Lookup(d, r)
        /\ Estimate(d', row) = Estimate(d, row) + 1
        /\ \A r \in Rows \ {row} : Estimate(d', r) = Estimate(d, r)
    <3>1. LET u == Hit(d, row) IN
          /\ GoodTable(u) /\ u.spill_counter = d.spill_counter /\ Lookup(u, row)
          /\ \A r \in Rows \ {row} : Lookup(u, r) => Lookup(d, r)
          /\ Estimate(u, row) = Estimate(d, row) + 1
          /\ \A r \in Rows \ {row} : Estimate(u, r) = Estimate(d, r)
      BY <1>0, <1>5, HitFacts
    <3>. QED  BY <3>1, <2>1, Zenon
  <2>. QED  BY <2>2, <1>3, <1>4 DEF IInv
<1>6. CASE ~Lookup(d, row) /\ Replaceable(d) # {}
  <2>1. d' = Install(d, row)
    BY <1>0, <1>6 DEF Access
  <2>2. /\ GoodTable(d') /\ d'.spill_counter = d.spill_counter /\ Lookup(d', row)
        /\ \A r \in Rows \ {row} : Lookup(d', r) => Lookup(d, r)
        /\ Estimate(d', row) = Estimate(d, row) + 1
        /\ \A r \in Rows \ {row} : Estimate(d', r) = Estimate(d, r)
    <3>1. LET u == Install(d, row) IN
          /\ GoodTable(u) /\ u.spill_counter = d.spill_counter /\ Lookup(u, row)
          /\ \A r \in Rows \ {row} : Lookup(u, r) => Lookup(d, r)
          /\ Estimate(u, row) = Estimate(d, row) + 1
          /\ \A r \in Rows \ {row} : Estimate(u, r) = Estimate(d, r)
      BY <1>0, <1>6, InstallFacts
    <3>. QED  BY <3>1, <2>1, Zenon
  <2>. QED  BY <2>2, <1>3, <1>4 DEF IInv
<1>7. CASE ~Lookup(d, row) /\ Replaceable(d) = {}
  <2>1. d' = Spill(d)
    BY <1>0, <1>7 DEF Access
  <2>2. /\ GoodTable(d') /\ d'.spill_counter = d.spill_counter + 1
        /\ \A r \in Rows : /\ Lookup(d', r) <=> Lookup(d, r)
                           /\ Estimate(d', r) = IF Lookup(d, r) THEN Estimate(d, r)
                                                ELSE d.spill_counter + 1
    BY <2>1, <1>0, <1>7, SpillFacts
  <2>3. \A r \in Rows : ~Lookup(d, r) => Estimate(d, r) = d.spill_counter
    BY DEF Estimate
  <2>4. EstimateBrackets'
    BY <2>2, <2>3, <1>0, <1>2, <1>7 DEF IInv, EstimateBrackets
  <2>5. FlaggedInTable'
    BY <2>2, <1>0, <1>1, <1>7, DetectorAssumption DEF IInv, FlaggedInTable
  <2>. QED  BY <2>2, <2>4, <2>5, <1>3 DEF IInv
<1>. QED  BY <1>5, <1>6, <1>7

LEMMA Invariance == Spec => []IInv
<1>1. IInv /\ [Next]_vars => IInv'
  <2>. SUFFICES ASSUME IInv, [Next]_vars PROVE IInv'
    OBVIOUS
  <2>1. CASE reset
    BY <2>1, ResetInv
  <2>2. ASSUME NEW row \in Rows, access(row) PROVE IInv'
    BY <2>2, AccessInv
  <2>3. CASE UNCHANGED vars
    BY <2>3 DEF vars, IInv, TypeOK, EstimateBrackets, FlaggedInTable
  <2>. QED  BY <2>1, <2>2, <2>3 DEF Next
<1>. QED  BY <1>1, InitInv, PTL DEF Spec

(* Every field of the detector's table and every statistic keeps its type. *)
THEOREM TypeCorrect == Spec => []TypeOK
<1>1. IInv => TypeOK
  BY DEF IInv
<1>. QED  BY <1>1, Invariance, PTL

(* None of the assertions in Misra_Gries::access() can fail.               *)
THEOREM Assertions == Spec => []AssertsHold
<1>1. IInv => AssertsHold
  <2>. SUFFICES ASSUME IInv, NEW row \in Rows PROVE AccessAsserts(d, row)
    BY DEF AssertsHold
  <2>1. \A e \in Entries : ~d.entries[e].valid => e \in Replaceable(d)
    BY DEF IInv, GoodTable, Replaceable
  <2>2. \A e \in Entries : ~(e < e)
    BY DetectorAssumption DEF Entries
  <2>. QED  BY <2>1, <2>2 DEF AccessAsserts, IInv, GoodTable
<1>. QED  BY <1>1, Invariance, PTL

(* The estimate brackets the activations of every row.                     *)
THEOREM Brackets == Spec => []EstimateBrackets
<1>1. IInv => EstimateBrackets
  BY DEF IInv
<1>. QED  BY <1>1, Invariance, PTL

(* As long as the spill counter is below the threshold, no row has         *)
(* received threshold activations more than it was flagged for.            *)
THEOREM Aggressors == Spec => []NoMissedAggressor
<1>1. IInv => NoMissedAggressor
  <2>. SUFFICES ASSUME IInv, d.spill_counter < threshold, NEW r \in Rows
                PROVE  truth[r] \div threshold <= detections[r]
    BY DEF NoMissedAggressor
  <2>1. /\ truth[r] \in Nat /\ detections[r] \in Nat /\ GoodTable(d)
        /\ d.spill_counter \in Nat
    BY DEF IInv, TypeOK, TableType
  <2>2. Estimate(d, r) \in Nat /\ truth[r] <= Estimate(d, r)
    BY <2>1, EstimateType DEF IInv, EstimateBrackets
  <2>3. truth[r] \div threshold <= Estimate(d, r) \div threshold
    BY <2>1, <2>2, DivMonotone
  <2>4. Estimate(d, r) \div threshold <= detections[r]
    <3>1. CASE Lookup(d, r)
      BY <3>1 DEF IInv, FlaggedInTable
    <3>2. CASE ~Lookup(d, r)
      BY <3>2, <2>1, DivSmall DEF Estimate
    <3>. QED  BY <3>1, <3>2
  <2>5. /\ truth[r] \div threshold \in Int
        /\ Estimate(d, r) \div threshold \in Int
    BY <2>1, <2>2, DetectorAssumption
  <2>. QED  BY <2>1, <2>3, <2>4, <2>5
<1>. QED  BY <1>1, Invariance, PTL

-----------------------------------------------------------------------------
LEMMA UnitsMember ==
  ASSUME NEW S, NEW f \in [S -> Nat], NEW u
  PROVE  u \in Units(f, S) <=> \E x \in S : \E n \in 1 .. f[x] : u = <<x, n>>
<1>1. \A x \in S : u \in {x} \X (1 .. f[x]) <=> \E n \in 1 .. f[x] : u = <<x, n>>
  OBVIOUS
<1>. QED  BY <1>1 DEF Units

(* Raising one value by one adds one unit.                                 *)
LEMMA UnitsStep ==
  ASSUME NEW S, NEW f \in [S -> Nat], IsFiniteSet(Units(f, S)), NEW e \in S,
         NEW g, g = [f EXCEPT ![e] = @ + 1]
  PROVE  IsFiniteSet(Units(g, S)) /\ Total(g, S) = Total(f, S) + 1
<1>. DEFINE c == <<e, f[e] + 1>>
<1>1. /\ g \in [S -> Nat] /\ g[e] = f[e] + 1 /\ f[e] \in Nat
      /\ \A x \in S : x # e => g[x] = f[x]
  OBVIOUS
<1>2. c \notin Units(f, S)
  <2>. SUFFICES ASSUME NEW x \in S, NEW n \in 1 .. f[x], c = <<x, n>> PROVE FALSE
    BY UnitsMember
  <2>1. x = e /\ n = f[e] + 1
    OBVIOUS
  <2>. QED  BY <2>1, <1>1
<1>3. ASSUME NEW u PROVE u \in Units(g, S) <=> u \in Units(f, S) \cup {c}
  <2>1. ASSUME NEW x \in S, NEW n \in 1 .. g[x], u = <<x, n>>
        PROVE  u \in Units(f, S) \cup {c}
    <3>1. CASE n \in 1 .. f[x]
      BY <3>1, <2>1, UnitsMember
    <3>2. CASE n \notin 1 .. f[x]
      <4>1. x = e /\ n = f[e] + 1
        BY <3>2, <1>1
      <4>. QED  BY <4>1, <2>1
    <3>. QED  BY <3>1, <3>2
  <2>2. ASSUME NEW x \in S, NEW n \in 1 .. f[x], u = <<x, n>>
        PROVE  u \in Units(g, S)
    <3>1. n \in 1 .. g[x]
      BY <1>1
    <3>. QED  BY <3>1, <2>2, <1>1, UnitsMember
  <2>3. c \in Units(g, S)
    <3>1. f[e] + 1 \in 1 .. g[e]
      BY <1>1
    <3>. QED  BY <3>1, <1>1, UnitsMember
  <2>4. u \in Units(g, S) <=> \E x \in S : \E n \in 1 .. g[x] : u = <<x, n>>
    <3>1. g \in [S -> Nat]
      BY <1>1
    <3>. HIDE DEF c
    <3>. QED  BY ONLY <3>1, UnitsMember
  <2>5. u \in Units(f, S) <=> \E x \in S : \E n \in 1 .. f[x] : u = <<x, n>>
    BY UnitsMember
  <2>6. u \in Units(g, S) => u \in Units(f, S) \cup {c}
    BY <2>1, <2>4
  <2>7. u \in Units(f, S) => u \in Units(g, S)
    BY <2>2, <2>5
  <2>. QED  BY <2>3, <2>6, <2>7
<1>. HIDE DEF c
<1>4. Units(g, S) = Units(f, S) \cup {c}
  BY <1>3
<1>5. /\ IsFiniteSet(Units(f, S) \cup {c})
      /\ Cardinality(Units(f, S) \cup {c}) = Cardinality(Units(f, S)) + 1
  BY <1>2, FS_AddElement
<1>. QED  BY <1>4, <1>5 DEF Total

LEMMA UnitsZero ==
  ASSUME NEW S
  PROVE  LET f == [x \in S |-> 0]
         IN  Units(f, S) = {} /\ IsFiniteSet(Units(f, S)) /\ Total(f, S) = 0
<1>. DEFINE f == [x \in S |-> 0]
<1>1. f \in [S -> Nat] /\ \A x \in S : f[x] = 0
  OBVIOUS
<1>. HIDE DEF f
<1>2. Units(f, S) = {}
  BY <1>1, UnitsMember
<1>. QED  BY <1>2, FS_EmptySet DEF Total, f

(* Numbers written as a multiple of the threshold and a remainder.         *)
LEMMA MultipleAndRest ==
  ASSUME NEW k \in Nat, NEW l \in Nat, NEW i \in 0 .. threshold - 1,
         NEW j \in 0 .. threshold - 1, k * threshold + i = l * threshold + j
  PROVE  k = l /\ i = j
<1>1. threshold \in Nat \ {0} /\ i \in Nat /\ j \in Nat /\ i < threshold /\ j < threshold
  BY DetectorAssumption
<1>2. ASSUME NEW a \in Nat, NEW b \in Nat, NEW m \in Nat, NEW n \in Nat, a < b,
             m < threshold, a * threshold + m = b * threshold + n
      PROVE  FALSE
  <2>1. (a + 1) * threshold <= b * threshold
    BY <1>1, <1>2
  <2>2. (a + 1) * threshold = a * threshold + threshold
    BY <1>1
  <2>3. a * threshold \in Nat /\ b * threshold \in Nat
    BY <1>1
  <2>. QED  BY <1>1, <1>2, <2>1, <2>2, <2>3
<1>3. ~(k < l)
  BY <1>1, <1>2
<1>4. ~(l < k)
  BY <1>1, <1>2
<1>5. k = l
  BY <1>3, <1>4
<1>6. k * threshold \in Nat
  BY <1>1
<1>. QED  BY <1>1, <1>5, <1>6

(* How often each entry has passed a multiple of the threshold.            *)
Quotients(c) == [e \in Entries |-> c[e] \div threshold]

(* Each multiple of the threshold below a count stands for threshold units *)
(* of it.                                                                  *)
LEMMA QuotientsFew ==
  ASSUME NEW c \in [Entries -> Nat], IsFiniteSet(Units(c, Entries))
  PROVE  /\ IsFiniteSet(Units(Quotients(c), Entries))
         /\ Total(Quotients(c), Entries) \in Nat /\ Total(c, Entries) \in Nat
         /\ Total(Quotients(c), Entries) * threshold <= Total(c, Entries)
<1>. DEFINE q == Quotients(c)
            U == Units(q, Entries)
            I == 0 .. threshold - 1
            F == [w \in U \X I |-> <<w[1][1], (w[1][2] - 1) * threshold + w[2] + 1>>]
<1>0. threshold \in Nat \ {0}
  BY DetectorAssumption
<1>1. q \in [Entries -> Nat] /\ \A e \in Entries : q[e] * threshold <= c[e] /\ q[e] <= c[e]
  <2>1. ASSUME NEW e \in Entries
        PROVE  c[e] \div threshold \in Nat /\ (c[e] \div threshold) * threshold <= c[e]
    BY <1>0
  <2>2. ASSUME NEW e \in Entries PROVE c[e] \div threshold <= c[e]
    <3>. DEFINE k == c[e] \div threshold
    <3>1. k \in Nat /\ k * threshold <= c[e] /\ c[e] \in Nat
      BY <2>1
    <3>. HIDE DEF k
    <3>2. k <= k * threshold
      BY <3>1, <1>0
    <3>3. k * threshold \in Nat
      BY <3>1, <1>0
    <3>4. k <= c[e]
      BY <3>1, <3>2, <3>3
    <3>. QED  BY <3>4 DEF k
  <2>. QED  BY <2>1, <2>2 DEF Quotients
<1>. HIDE DEF q
\* A unit of the quotients, and a unit of the counts for each remainder.
<1>2. ASSUME NEW u \in U
      PROVE  /\ u[1] \in Entries /\ u[2] \in 1 .. q[u[1]] /\ u = <<u[1], u[2]>>
             /\ u \in Units(c, Entries)
             /\ \A j \in I : <<u[1], (u[2] - 1) * threshold + j + 1>> \in Units(c, Entries)
  <2>1. PICK e \in Entries : \E n \in 1 .. q[e] : u = <<e, n>>
    BY <1>1, UnitsMember
  <2>0. PICK n \in 1 .. q[e] : u = <<e, n>>
    BY <2>1
  <2>2. q[e] \in Nat /\ n \in Nat /\ n >= 1 /\ n <= q[e] /\ n \in 1 .. c[e]
    BY <1>1
  <2>3. ASSUME NEW j \in I
        PROVE  (n - 1) * threshold + j + 1 \in 1 .. c[e]
    <3>1. n * threshold <= q[e] * threshold
      BY <2>2, <1>0
    <3>2. (n - 1) * threshold + threshold = n * threshold /\ (n - 1) * threshold \in Nat
      BY <2>2, <1>0
    <3>3. q[e] * threshold <= c[e] /\ q[e] * threshold \in Nat /\ n * threshold \in Nat
      BY <2>2, <1>0, <1>1
    <3>. QED  BY <3>1, <3>2, <3>3, <1>0
  <2>4. u[1] = e /\ u[2] = n
    BY <2>0
  <2>5. \A j \in I : <<e, (n - 1) * threshold + j + 1>> \in Units(c, Entries)
    BY <2>3, UnitsMember
  <2>6. u \in Units(c, Entries)
    BY <2>0, <2>2, UnitsMember
  <2>. QED  BY <2>0, <2>4, <2>5, <2>6
<1>3. IsFiniteSet(U) /\ Cardinality(U) \in Nat
  <2>1. U \in SUBSET Units(c, Entries)
    BY <1>2
  <2>. QED  BY <2>1, FS_Subset, FS_CardinalityType
<1>4. IsFiniteSet(I) /\ Cardinality(I) = threshold
  BY <1>0, FS_Interval
<1>5. IsFiniteSet(U \X I) /\ Cardinality(U \X I) = Cardinality(U) * threshold
  BY <1>3, <1>4, FS_Product
<1>6. ASSUME NEW v \in U, NEW w \in U, NEW i \in I, NEW j \in I, v[1] = w[1],
             (v[2] - 1) * threshold + i + 1 = (w[2] - 1) * threshold + j + 1
      PROVE  v = w /\ i = j
  <2>1. /\ v[2] - 1 \in Nat /\ w[2] - 1 \in Nat /\ v[2] \in Nat /\ w[2] \in Nat
        /\ v = <<v[1], v[2]>> /\ w = <<w[1], w[2]>>
    <3>1. q[v[1]] \in Nat /\ q[w[1]] \in Nat
      BY <1>1, <1>2
    <3>. QED  BY <3>1, <1>2
  <2>2. (v[2] - 1) * threshold \in Nat /\ (w[2] - 1) * threshold \in Nat
    BY <2>1, <1>0
  <2>3. (v[2] - 1) * threshold + i = (w[2] - 1) * threshold + j
    BY <2>2, <1>0, <1>6
  <2>4. v[2] - 1 = w[2] - 1 /\ i = j
    BY <2>1, <2>3, MultipleAndRest
  <2>. QED  BY <2>1, <2>4, <1>6
<1>. HIDE DEF U, I
<1>7. F \in [U \X I -> Units(c, Entries)]
  BY <1>2
<1>8. ASSUME NEW v \in U \X I, NEW w \in U \X I, F[v] = F[w]
      PROVE  v = w
  <2>1. /\ v[1] \in U /\ v[2] \in I /\ v = <<v[1], v[2]>>
        /\ w[1] \in U /\ w[2] \in I /\ w = <<w[1], w[2]>>
    OBVIOUS
  <2>2. /\ F[v] = <<v[1][1], (v[1][2] - 1) * threshold + v[2] + 1>>
        /\ F[w] = <<w[1][1], (w[1][2] - 1) * threshold + w[2] + 1>>
    OBVIOUS
  <2>3. /\ v[1][1] = w[1][1]
        /\ (v[1][2] - 1) * threshold + v[2] + 1 = (w[1][2] - 1) * threshold + w[2] + 1
    BY <1>8, <2>2
  <2>4. v[1] = w[1] /\ v[2] = w[2]
    BY <1>6, <2>1, <2>3
  <2>. QED  BY <2>1, <2>4
<1>. HIDE DEF F
<1>9. F \in Injection(U \X I, Units(c, Entries))
  BY <1>7, <1>8 DEF Injection, IsInjective
<1>10. Cardinality(U \X I) <= Cardinality(Units(c, Entries))
  BY <1>9, FS_Injection
<1>11. Total(c, Entries) \in Nat
  BY FS_CardinalityType DEF Total
<1>. QED  BY <1>3, <1>5, <1>10, <1>11 DEF Total, U, q

-----------------------------------------------------------------------------
(* One access counts in one entry, at whose multiples of the threshold the *)
(* row is flagged, or in the spill counter.                                *)
LEMMA AccessCounts ==
  ASSUME NEW t \in TableType, NEW row \in Rows
  PROVE  LET u == Access(t, row)
             c == [e \in Entries |-> t.entries[e].count]
             k == [e \in Entries |-> u.entries[e].count]
         IN \/ /\ u.spill_counter = t.spill_counter
               /\ \E e \in Entries : /\ k = [c EXCEPT ![e] = @ + 1]
                                     /\ Detects(t, row) <=> Flags(c[e] + 1)
            \/ u.spill_counter = t.spill_counter + 1 /\ k = c /\ ~Detects(t, row)
<1>. DEFINE u == Access(t, row)
            c == [e \in Entries |-> t.entries[e].count]
            k == [e \in Entries |-> u.entries[e].count]
<1>1. ASSUME NEW e \in Entries, u.rowHasEntry[row] = e,
             u.entries[e].count = t.entries[e].count + 1,
             \A f \in Entries : f # e => u.entries[f] = t.entries[f]
      PROVE  k = [c EXCEPT ![e] = @ + 1] /\ (Detects(t, row) <=> Flags(c[e] + 1))
  <2>1. k = [c EXCEPT ![e] = @ + 1]
    BY <1>1
  <2>2. e # 0 /\ c[e] = t.entries[e].count
    BY DetectorAssumption DEF Entries
  <2>. QED  BY <2>1, <2>2, <1>1 DEF Detects, Lookup
<1>2. CASE Lookup(t, row)
  <2>. DEFINE e == t.rowHasEntry[row]
  <2>1. e \in Entries
    BY <1>2 DEF TableType, Lookup, Entries
  <2>2. /\ u.rowHasEntry = t.rowHasEntry /\ u.spill_counter = t.spill_counter
        /\ u.entries = [t.entries EXCEPT ![e].count = @ + 1]
    BY <1>2 DEF Access, Hit, TableType
  <2>3. u.entries[e].count = t.entries[e].count + 1 /\ u.rowHasEntry[row] = e
        /\ \A f \in Entries : f # e => u.entries[f] = t.entries[f]
    BY <2>1, <2>2 DEF TableType
  <2>. HIDE DEF u, c, k, e
  <2>4. k = [c EXCEPT ![e] = @ + 1] /\ (Detects(t, row) <=> Flags(c[e] + 1))
    BY <1>1, <2>1, <2>3
  <2>. QED  BY <2>1, <2>2, <2>4 DEF u, c, k
<1>3. CASE ~Lookup(t, row) /\ Replaceable(t) # {}
  <2>. DEFINE e == FirstReplaceable(t)
  <2>1. e \in Entries
    BY <1>3, FirstFound
  <2>2. /\ u.spill_counter = t.spill_counter /\ u.rowHasEntry[row] = e
        /\ u.entries = [t.entries EXCEPT ![e] = [valid |-> TRUE, addr |-> row,
                                                 count |-> @.count + 1]]
    BY <1>3 DEF Access, Install, TableType
  <2>. HIDE DEF u, c, k, e
  <2>3. u.entries[e].count = t.entries[e].count + 1
        /\ \A f \in Entries : f # e => u.entries[f] = t.entries[f]
    BY <2>1, <2>2 DEF TableType
  <2>4. k = [c EXCEPT ![e] = @ + 1] /\ (Detects(t, row) <=> Flags(c[e] + 1))
    BY <1>1, <2>1, <2>2, <2>3
  <2>. QED  BY <2>1, <2>2, <2>4 DEF u, c, k
<1>4. CASE ~Lookup(t, row) /\ Replaceable(t) = {}
  <2>1. /\ u.entries = t.entries /\ u.rowHasEntry = t.rowHasEntry
        /\ u.spill_counter = t.spill_counter + 1
    BY <1>4 DEF Access, Spill, TableType
  <2>2. ~Detects(t, row)
    BY <1>4, <2>1 DEF Detects, Lookup
  <2>. QED  BY <2>1, <2>2
<1>. QED  BY <1>2, <1>3, <1>4

(* The books of the detector: every activation of the window is counted    *)
(* once, and every flagging of earlier windows was paid for by activations *)
(* of those windows.                                                       *)
Books ==
  /\ IsFiniteSet(Units(truth, Rows)) /\ IsFiniteSet(Units(counts, Entries))
  /\ acts = d.spill_counter + Total(counts, Entries)
  /\ acts <= MAX_ACTS
  /\ (s_aggressors - Total(Quotients(counts), Entries)) * threshold
       + Total(counts, Entries) <= s_num_access

LEMMA CountsType == TypeOK => counts \in [Entries -> Nat] /\ d.spill_counter \in Nat
BY DEF TypeOK, TableType, counts

(* An empty table balances if the flaggings so far are paid for.           *)
LEMMA EmptyBooks ==
  ASSUME d = NewTable, truth = [r \in Rows |-> 0],
         s_aggressors \in Nat, s_num_access \in Nat,
         s_aggressors * threshold <= s_num_access
  PROVE  Books
<1>1. counts = [e \in Entries |-> 0] /\ d.spill_counter = 0
  BY DEF counts, NewTable, Unused
<1>2. Quotients(counts) = [e \in Entries |-> 0]
  BY <1>1, DivSmall, DetectorAssumption DEF Quotients
<1>3. /\ IsFiniteSet(Units(counts, Entries)) /\ Total(counts, Entries) = 0
      /\ Total(Quotients(counts), Entries) = 0
  BY <1>1, <1>2, UnitsZero
<1>4. IsFiniteSet(Units(truth, Rows)) /\ acts = 0
  BY UnitsZero DEF acts
<1>5. (s_aggressors - 0) * threshold + 0 = s_aggressors * threshold
  BY DetectorAssumption
<1>. QED  BY <1>1, <1>3, <1>4, <1>5, MisraGriesAssumption DEF Books

(* The flaggings so far never exceed what the activations so far pay for.  *)
LEMMA BooksPay ==
  ASSUME TypeOK, Books
  PROVE  s_aggressors * threshold <= s_num_access
<1>. DEFINE Q == Total(Quotients(counts), Entries)
            C == Total(counts, Entries)
<1>1. Q \in Nat /\ C \in Nat /\ Q * threshold <= C
  BY CountsType, QuotientsFew DEF Books
<1>2. (s_aggressors - Q) * threshold + C <= s_num_access
  BY DEF Books
<1>3. s_aggressors \in Nat /\ s_num_access \in Nat /\ threshold \in Nat
  BY DetectorAssumption DEF TypeOK
<1>. HIDE DEF Q, C
<1>4. (s_aggressors - Q) * threshold = s_aggressors * threshold - Q * threshold
  BY <1>1, <1>3
<1>5. s_aggressors * threshold \in Nat /\ Q * threshold \in Nat
  BY <1>1, <1>3
<1>. QED  BY <1>1, <1>2, <1>3, <1>4, <1>5

LEMMA AccessBooks ==
  ASSUME TypeOK, Books, NEW row \in Rows, access(row)
  PROVE  Books'
<1>. DEFINE Q == Total(Quotients(counts), Entries)
            C == Total(counts, Entries)
            S == d.spill_counter
<1>1. /\ counts \in [Entries -> Nat] /\ S \in Nat /\ truth \in [Rows -> Nat]
      /\ IsFiniteSet(Units(truth, Rows)) /\ IsFiniteSet(Units(counts, Entries))
      /\ acts = S + C /\ acts < MAX_ACTS /\ MAX_ACTS \in Nat
      /\ (s_aggressors - Q) * threshold + C <= s_num_access
      /\ s_aggressors \in Nat /\ s_num_access \in Nat /\ threshold \in Nat \ {0}
  BY CountsType, MisraGriesAssumption, DetectorAssumption DEF Books, TypeOK, access
<1>2. /\ d' = Access(d, row) /\ truth' = [truth EXCEPT ![row] = @ + 1]
      /\ s_num_access' = s_num_access + 1
      /\ s_aggressors' = s_aggressors + One(Detects(d, row))
  BY DEF access
<1>3. Q \in Nat /\ C \in Nat /\ IsFiniteSet(Units(Quotients(counts), Entries))
  BY <1>1, QuotientsFew
<1>4. IsFiniteSet(Units(truth', Rows)) /\ acts' = acts + 1
  BY <1>1, <1>2, UnitsStep DEF acts
<1>5. /\ counts = [e \in Entries |-> d.entries[e].count]
      /\ counts' = [e \in Entries |-> d'.entries[e].count]
      /\ d \in TableType
  BY DEF counts, TypeOK
<1>6. \/ /\ d'.spill_counter = S
         /\ \E e \in Entries : /\ counts' = [counts EXCEPT ![e] = @ + 1]
                               /\ Detects(d, row) <=> Flags(counts[e] + 1)
      \/ d'.spill_counter = S + 1 /\ counts' = counts /\ ~Detects(d, row)
  <2>1. LET u == Access(d, row)
            c == [e \in Entries |-> d.entries[e].count]
            k == [e \in Entries |-> u.entries[e].count]
        IN \/ /\ u.spill_counter = d.spill_counter
              /\ \E e \in Entries : /\ k = [c EXCEPT ![e] = @ + 1]
                                    /\ Detects(d, row) <=> Flags(c[e] + 1)
           \/ u.spill_counter = d.spill_counter + 1 /\ k = c /\ ~Detects(d, row)
    BY <1>5, AccessCounts
  <2>. QED  BY <2>1, <1>2, <1>5, Zenon
<1>7. CASE d'.spill_counter = S + 1 /\ counts' = counts /\ ~Detects(d, row)
  <2>1. Total(counts', Entries) = C /\ Total(Quotients(counts'), Entries) = Q
    BY <1>7
  <2>2. s_aggressors' = s_aggressors
    BY <1>1, <1>2, <1>7 DEF One
  <2>. HIDE DEF Q, C
  <2>3. (s_aggressors - Q) * threshold + C <= s_num_access + 1
    <3>1. (s_aggressors - Q) * threshold \in Int
      BY <1>1, <1>3
    <3>. QED  BY <3>1, <1>1, <1>3
  <2>4. acts' = (S + 1) + C /\ acts' <= MAX_ACTS
    BY <1>1, <1>3, <1>4
  <2>. QED  BY <2>1, <2>2, <2>3, <2>4, <1>1, <1>2, <1>4, <1>7 DEF Books
<1>8. ASSUME d'.spill_counter = S, NEW e \in Entries,
             counts' = [counts EXCEPT ![e] = @ + 1],
             Detects(d, row) <=> Flags(counts[e] + 1)
      PROVE  Books'
  <2>1. Total(counts', Entries) = C + 1 /\ IsFiniteSet(Units(counts', Entries))
    BY <1>1, <1>8, UnitsStep
  <2>2. /\ Quotients(counts) \in [Entries -> Nat]
        /\ Quotients(counts') = IF Detects(d, row)
                                THEN [Quotients(counts) EXCEPT ![e] = @ + 1]
                                ELSE Quotients(counts)
    <3>1. \A f \in Entries : counts[f] \div threshold \in Nat
      BY <1>1
    <3>2. (counts[e] + 1) \div threshold = counts[e] \div threshold + One(Detects(d, row))
      BY <1>1, <1>8, CrossesThreshold DEF One
    <3>3. \A f \in Entries : counts'[f] = IF f = e THEN counts[e] + 1 ELSE counts[f]
      BY <1>1, <1>8
    <3>. QED  BY <3>1, <3>2, <3>3 DEF Quotients, One
  <2>3. Total(Quotients(counts'), Entries) = Q + One(Detects(d, row))
    <3>1. CASE Detects(d, row)
      BY <3>1, <2>2, <1>3, UnitsStep DEF One
    <3>2. CASE ~Detects(d, row)
      BY <3>2, <2>2, <1>3 DEF One
    <3>. QED  BY <3>1, <3>2
  <2>. HIDE DEF Q, C
  <2>4. s_aggressors' - (Q + One(Detects(d, row))) = s_aggressors - Q
    BY <1>1, <1>2, <1>3 DEF One
  <2>5. (s_aggressors - Q) * threshold + (C + 1) <= s_num_access + 1
    <3>1. (s_aggressors - Q) * threshold \in Int
      BY <1>1, <1>3
    <3>. QED  BY <3>1, <1>1, <1>3
  <2>6. acts' = S + (C + 1) /\ acts' <= MAX_ACTS
    BY <1>1, <1>3, <1>4
  <2>. QED  BY <2>1, <2>3, <2>4, <2>5, <2>6, <1>2, <1>4, <1>8 DEF Books
<1>. QED  BY <1>6, <1>7, <1>8

LEMMA BooksBalance == Spec => []Books
<1>1. Init => Books
  <2>1. 0 * threshold <= 0
    BY DetectorAssumption
  <2>. QED  BY <2>1, EmptyBooks DEF Init
<1>2. TypeOK /\ Books /\ [Next]_vars => Books'
  <2>. SUFFICES ASSUME TypeOK, Books, [Next]_vars PROVE Books'
    OBVIOUS
  <2>1. CASE reset
    <3>1. s_aggressors * threshold <= s_num_access
      BY BooksPay
    <3>2. /\ d' = NewTable /\ truth' = [r \in Rows |-> 0]
          /\ s_aggressors' = s_aggressors /\ s_num_access' = s_num_access
          /\ s_aggressors \in Nat /\ s_num_access \in Nat
      BY <2>1 DEF reset, TypeOK
    <3>3. (/\ d = NewTable /\ truth = [r \in Rows |-> 0]
           /\ s_aggressors \in Nat /\ s_num_access \in Nat
           /\ s_aggressors * threshold <= s_num_access)'
      BY <3>1, <3>2
    <3>. QED  BY <3>3, EmptyBooks, PTL
  <2>2. ASSUME NEW row \in Rows, access(row) PROVE Books'
    BY <2>2, AccessBooks
  <2>3. CASE UNCHANGED vars
    BY <2>3 DEF vars, Books, acts, counts
  <2>. QED  BY <2>1, <2>2, <2>3 DEF Next
<1>3. IInv => TypeOK
  BY DEF IInv
<1>. QED  BY <1>1, <1>2, <1>3, Invariance, PTL DEF Spec

(* No count is below the spill counter, so that numEntries + 1 spill       *)
(* counters fit in the activations of the window.                          *)
LEMMA SpillFits ==
  ASSUME GoodTable(d), IsFiniteSet(Units(counts, Entries))
  PROVE  numEntries * d.spill_counter <= Total(counts, Entries)
<1>. DEFINE S == d.spill_counter
            B == Entries \X (1 .. S)
<1>1. /\ counts \in [Entries -> Nat] /\ S \in Nat /\ numEntries \in Nat
      /\ \A e \in Entries : counts[e] >= S
  BY DetectorAssumption DEF GoodTable, TableType, counts
<1>2. B \in SUBSET Units(counts, Entries)
  <2>. SUFFICES ASSUME NEW e \in Entries, NEW n \in 1 .. S
                PROVE  <<e, n>> \in Units(counts, Entries)
    OBVIOUS
  <2>1. n \in 1 .. counts[e]
    BY <1>1
  <2>. QED  BY <2>1, <1>1, UnitsMember
<1>3. Cardinality(B) = numEntries * S
  <2>1. IsFiniteSet(Entries) /\ Cardinality(Entries) = numEntries
    BY <1>1, FS_Interval DEF Entries
  <2>2. IsFiniteSet(1 .. S) /\ Cardinality(1 .. S) = S
    <3>1. \A n \in Nat : IsFiniteSet(1 .. n) /\ Cardinality(1 .. n) = n
      BY FS_Interval
    <3>. QED  BY <3>1, <1>1
  <2>. QED  BY <2>1, <2>2, FS_Product
<1>. HIDE DEF B
<1>. QED  BY <1>2, <1>3, FS_Subset DEF Total

(* A table of MAX_ACTS \div threshold entries, as MemCtrl makes it, is     *)
(* large enough: the spill counter stays below the threshold, on which     *)
(* Aggressors depends, and no more than one row is flagged per threshold   *)
(* activations.                                                            *)
THEOREM LargeEnough == Spec => []SizedForThreshold
<1>1. IInv /\ Books => SizedForThreshold
  <2>. SUFFICES ASSUME IInv, Books PROVE SizedForThreshold
    OBVIOUS
  <2>1. acts = d.spill_counter + Total(counts, Entries)
    BY DEF Books
  <2>2. s_aggressors * threshold <= s_num_access
    BY BooksPay DEF IInv
  <2>3. ASSUME numEntries = MAX_ACTS \div threshold
        PROVE  d.spill_counter < threshold
    <3>. DEFINE S == d.spill_counter
                C == Total(counts, Entries)
    <3>1. /\ S \in Nat /\ C \in Nat /\ numEntries * S <= C /\ S + C <= MAX_ACTS
      BY <2>1, CountsType, SpillFits, QuotientsFew DEF IInv, Books
    <3>2. /\ threshold \in Nat \ {0} /\ numEntries \in Nat /\ MAX_ACTS \in Nat
          /\ MAX_ACTS < threshold * (numEntries + 1)
      BY <2>3, DetectorAssumption, MisraGriesAssumption
    <3>. HIDE DEF S, C
    <3>. SUFFICES ASSUME threshold <= S PROVE FALSE
      BY <3>1, <3>2 DEF S
    <3>3. threshold * (numEntries + 1) <= S * (numEntries + 1)
      BY <3>1, <3>2
    <3>4. S * (numEntries + 1) = numEntries * S + S
      BY <3>1, <3>2
    <3>5. numEntries * S \in Nat /\ threshold * (numEntries + 1) \in Nat
      BY <3>1, <3>2
    <3>. QED  BY <3>1, <3>2, <3>3, <3>4, <3>5
  <2>. QED  BY <2>1, <2>2, <2>3 DEF SizedForThreshold
<1>. QED  BY <1>1, Invariance, BooksBalance, PTL
=============================================================================
