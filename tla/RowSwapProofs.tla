---------------------------- MODULE RowSwapProofs ----------------------------
(***************************************************************************)
(* Randomized row swap for every set of rows, every threshold and every    *)
(* choice of rand().  Each piece of insertTuple() (a tuple installed, a    *)
(* tuple pointed to a new row, a tuple evicted) keeps rows and tuples in   *)
(* step and disturbs no locked row but the one it is given.  That the RIT  *)
(* is large enough is counted on the detector: every flagging leaves one   *)
(* more multiple of the threshold below the entries' counts, and there are *)
(* at most MAX_ACTS \div threshold of those.                               *)
(***************************************************************************)
EXTENDS RowSwap, FiniteSetTheorems, WellFoundedInduction, TLAPS

TupleType == [valid : BOOLEAN, locked : BOOLEAN, origRowID : Rows, remappedRowID : Rows]

RITType == [tuples       : [Tuples -> TupleType],
            rowHasEntry  : [Rows -> 0 .. numTuples],
            valid_tuples : 0 .. numTuples]

Valid(rit) == {i \in Tuples : rit.tuples[i].valid}

Locked(rit) == {i \in Tuples : rit.tuples[i].valid /\ rit.tuples[i].locked}

\* A row's reference leads to a valid tuple that holds the row, and a valid
\* tuple holds two rows that refer to it.
Linked(rit) ==
  /\ \A r \in Rows : Swapped(rit, r) =>
       /\ TupleOf(rit, r).valid
       /\ TupleOf(rit, r).origRowID = r \/ TupleOf(rit, r).remappedRowID = r
  /\ \A i \in Tuples : rit.tuples[i].valid =>
       /\ rit.tuples[i].origRowID # rit.tuples[i].remappedRowID
       /\ rit.rowHasEntry[rit.tuples[i].origRowID] = i
       /\ rit.rowHasEntry[rit.tuples[i].remappedRowID] = i

GoodRIT(rit) ==
  /\ rit \in RITType
  /\ Linked(rit)
  /\ rit.valid_tuples = Cardinality(Valid(rit))

LockedRow(rit, r) == Swapped(rit, r) /\ TupleOf(rit, r).locked

-----------------------------------------------------------------------------
\* A scan over a non-empty set of numbers stops at one of them.
LEMMA FirstIn ==
  ASSUME NEW S \in SUBSET Nat, S # {} PROVE First(S) \in S
<1> DEFINE Less == {ss \in Nat \X Nat : ss[1] < ss[2]}
<1>1. IsWellFoundedOn(Less, Nat)
  BY NatLessThanWellFounded, Zenon DEF OpToRel
<1> HIDE DEF Less
<1>2. PICK e \in S : \A f \in S : ~(<<f, e>> \in Less)
  BY <1>1, WFMin, Zenon
<1>3. \A f \in S : ~(f < e)
  BY <1>2 DEF Less
<1>4. \A f \in S : e <= f
  BY <1>3
<1> QED BY <1>4 DEF First

LEMMA TuplesFinite ==
  /\ Tuples \subseteq Nat /\ 0 \notin Tuples
  /\ IsFiniteSet(Tuples) /\ Cardinality(Tuples) = numTuples
<1>1. numTuples \in Nat /\ numTuples > 0
  BY RowSwapAssumption, DetectorAssumption DEF maxValidTuples
<1>2. IsFiniteSet(1 .. numTuples) /\ Cardinality(1 .. numTuples) = numTuples
  BY <1>1, FS_Interval
<1> QED BY <1>1, <1>2 DEF Tuples

LEMMA TupleSets ==
  ASSUME NEW rit
  PROVE  /\ IsFiniteSet(Valid(rit)) /\ IsFiniteSet(Locked(rit))
         /\ Cardinality(Valid(rit)) \in 0 .. numTuples
         /\ Cardinality(Locked(rit)) \in Nat
         /\ Cardinality(Locked(rit)) <= Cardinality(Valid(rit))
<1>1. Valid(rit) \subseteq Tuples /\ Locked(rit) \subseteq Valid(rit)
  BY DEF Valid, Locked
<1>2. IsFiniteSet(Valid(rit)) /\ Cardinality(Valid(rit)) <= numTuples
  BY <1>1, TuplesFinite, FS_Subset
<1>3. IsFiniteSet(Locked(rit)) /\ Cardinality(Locked(rit)) <= Cardinality(Valid(rit))
  BY <1>1, <1>2, FS_Subset
<1>4. Cardinality(Valid(rit)) \in Nat /\ Cardinality(Locked(rit)) \in Nat
  BY <1>2, <1>3, FS_CardinalityType
<1> QED BY <1>2, <1>3, <1>4, RowSwapAssumption

\* The partner of a swapped row is another swapped row, whose partner it is.
LEMMA Partner ==
  ASSUME NEW rit, GoodRIT(rit), NEW r \in Rows
  PROVE  LET a == getRemappedAddr(rit, r)
         IN /\ a \in Rows
            /\ getRemappedAddr(rit, a) = r
            /\ IF Swapped(rit, r)
               THEN /\ a # r /\ rit.rowHasEntry[a] = rit.rowHasEntry[r]
                    /\ rit.rowHasEntry[r] \in Tuples
                    /\ TupleOf(rit, r).valid
                    /\ \/ TupleOf(rit, r).origRowID = r /\ TupleOf(rit, r).remappedRowID = a
                       \/ TupleOf(rit, r).origRowID = a /\ TupleOf(rit, r).remappedRowID = r
               ELSE a = r
<1> DEFINE a == getRemappedAddr(rit, r)
           i == rit.rowHasEntry[r]
<1>1. CASE ~Swapped(rit, r)
  BY <1>1 DEF getRemappedAddr
<1>2. CASE Swapped(rit, r)
  <2>1. i \in Tuples /\ rit.tuples[i] \in TupleType
    BY <1>2, RowSwapAssumption DEF GoodRIT, RITType, Swapped, Tuples
  <2>2. /\ rit.tuples[i].valid
        /\ rit.tuples[i].origRowID = r \/ rit.tuples[i].remappedRowID = r
    BY <1>2 DEF GoodRIT, Linked, TupleOf
  <2>3. /\ rit.tuples[i].origRowID # rit.tuples[i].remappedRowID
        /\ rit.rowHasEntry[rit.tuples[i].origRowID] = i
        /\ rit.rowHasEntry[rit.tuples[i].remappedRowID] = i
        /\ rit.tuples[i].origRowID \in Rows /\ rit.tuples[i].remappedRowID \in Rows
    BY <2>1, <2>2 DEF GoodRIT, Linked, TupleType
  <2>4. /\ a \in Rows /\ a # r /\ rit.rowHasEntry[a] = i
        /\ \/ rit.tuples[i].origRowID = r /\ rit.tuples[i].remappedRowID = a
           \/ rit.tuples[i].origRowID = a /\ rit.tuples[i].remappedRowID = r
    BY <1>2, <2>2, <2>3 DEF getRemappedAddr, TupleOf
  <2>5. getRemappedAddr(rit, a) = r
    <3> HIDE DEF a
    <3> QED BY <1>2, <2>3, <2>4 DEF getRemappedAddr, TupleOf, Swapped
  <2> QED BY <1>2, <2>1, <2>2, <2>4, <2>5 DEF TupleOf
<1> QED BY <1>1, <1>2

-----------------------------------------------------------------------------
\* What the pieces of insertTuple() leave alone: the locked rows other than
\* those in S stay locked and swapped with the same row.
Undisturbed(rit, z, S) ==
  \A r \in Rows \ S : LockedRow(rit, r) =>
    LockedRow(z, r) /\ getRemappedAddr(z, r) = getRemappedAddr(rit, r)

\* InstallTuple() on an RIT that is not full.
LEMMA InstallGood ==
  ASSUME NEW rit, GoodRIT(rit), NEW x \in Rows, NEW y \in Rows, x # y,
         ~Swapped(rit, x), ~Swapped(rit, y), rit.valid_tuples < numTuples
  PROVE  LET z == InstallTuple(rit, x, y)
         IN /\ GoodRIT(z)
            /\ z.valid_tuples = rit.valid_tuples + 1
            /\ LockedRow(z, x) /\ LockedRow(z, y) /\ getRemappedAddr(z, x) = y
            /\ Undisturbed(rit, z, {})
            /\ Cardinality(Locked(z)) <= Cardinality(Locked(rit)) + 1
<1> DEFINE free == {j \in Tuples : ~rit.tuples[j].valid}
           i == First(free)
           tup == [valid |-> TRUE, locked |-> TRUE, origRowID |-> x, remappedRowID |-> y]
           T == [rit.tuples EXCEPT ![i] = tup]
           H == [rit.rowHasEntry EXCEPT ![x] = i, ![y] = i]
           z == InstallTuple(rit, x, y)
<1>1. free # {}
  <2>1. SUFFICES ASSUME free = {} PROVE FALSE
    OBVIOUS
  <2>2. Valid(rit) = Tuples
    BY <2>1 DEF Valid
  <2> QED BY <2>2, TuplesFinite, RowSwapAssumption DEF GoodRIT
<1>2. i \in Tuples /\ i \notin Valid(rit) /\ i \in 0 .. numTuples /\ i # 0
  <2>1. i \in free
    BY <1>1, TuplesFinite, FirstIn
  <2> HIDE DEF i
  <2> QED BY <2>1, RowSwapAssumption DEF Valid, Tuples
<1>3. z = [tuples |-> T, rowHasEntry |-> H, valid_tuples |-> rit.valid_tuples + 1]
  BY <1>1 DEF InstallTuple
<1> HIDE DEF i, z
<1>4. /\ rit.tuples \in [Tuples -> TupleType] /\ rit.rowHasEntry \in [Rows -> 0 .. numTuples]
      /\ rit.valid_tuples \in 0 .. numTuples /\ numTuples \in Nat
  BY RowSwapAssumption DEF GoodRIT, RITType
<1>5. tup \in TupleType /\ tup.valid /\ tup.locked /\ tup.origRowID = x /\ tup.remappedRowID = y
  BY DEF TupleType
<1> HIDE DEF tup
<1>6. /\ z \in RITType
      /\ z.tuples = T /\ z.rowHasEntry = H /\ z.valid_tuples = rit.valid_tuples + 1
  <2>1. /\ T \in [Tuples -> TupleType] /\ H \in [Rows -> 0 .. numTuples]
        /\ rit.valid_tuples + 1 \in 0 .. numTuples
    BY <1>2, <1>4, <1>5
  <2> HIDE DEF T, H
  <2> QED BY <1>3, <2>1 DEF RITType
<1>7. /\ z.tuples[i] = tup
      /\ \A j \in Tuples : j # i => z.tuples[j] = rit.tuples[j]
      /\ z.rowHasEntry[x] = i /\ z.rowHasEntry[y] = i
      /\ \A r \in Rows : r # x /\ r # y => z.rowHasEntry[r] = rit.rowHasEntry[r]
  BY <1>2, <1>4, <1>6
<1> HIDE DEF T, H
\* A row that refers to a tuple refers to another one than the free tuple.
<1>8. ASSUME NEW r \in Rows, Swapped(rit, r)
      PROVE  /\ r # x /\ r # y
             /\ rit.rowHasEntry[r] \in Tuples /\ rit.rowHasEntry[r] # i
             /\ z.rowHasEntry[r] = rit.rowHasEntry[r]
             /\ z.tuples[z.rowHasEntry[r]] = rit.tuples[rit.rowHasEntry[r]]
  <2>1. r # x /\ r # y
    BY <1>8
  <2>2. rit.rowHasEntry[r] \in Tuples
    BY <1>4, <1>8 DEF Swapped, Tuples
  <2>3. rit.rowHasEntry[r] # i
    BY <1>2, <1>8, <2>2 DEF GoodRIT, Linked, TupleOf, Valid
  <2> QED BY <1>7, <2>1, <2>2, <2>3
<1>9. ASSUME NEW r \in Rows, Swapped(z, r)
      PROVE  /\ TupleOf(z, r).valid
             /\ TupleOf(z, r).origRowID = r \/ TupleOf(z, r).remappedRowID = r
  <2>1. CASE r = x \/ r = y
    BY <1>5, <1>7, <2>1 DEF TupleOf
  <2>2. CASE r # x /\ r # y
    <3>1. Swapped(rit, r)
      BY <1>7, <1>9, <2>2 DEF Swapped
    <3> QED BY <1>8, <3>1 DEF GoodRIT, Linked, TupleOf
  <2> QED BY <2>1, <2>2
<1>10. ASSUME NEW j \in Tuples, z.tuples[j].valid
       PROVE  /\ z.tuples[j].origRowID # z.tuples[j].remappedRowID
              /\ z.rowHasEntry[z.tuples[j].origRowID] = j
              /\ z.rowHasEntry[z.tuples[j].remappedRowID] = j
  <2>1. CASE j = i
    BY <1>5, <1>7, <2>1
  <2>2. CASE j # i
    <3>1. z.tuples[j] = rit.tuples[j] /\ rit.tuples[j] \in TupleType
      BY <1>4, <1>7, <2>2
    <3>2. /\ rit.tuples[j].origRowID # rit.tuples[j].remappedRowID
          /\ rit.rowHasEntry[rit.tuples[j].origRowID] = j
          /\ rit.rowHasEntry[rit.tuples[j].remappedRowID] = j
          /\ rit.tuples[j].origRowID \in Rows /\ rit.tuples[j].remappedRowID \in Rows
      BY <1>10, <3>1 DEF GoodRIT, Linked, TupleType
    <3>3. Swapped(rit, rit.tuples[j].origRowID) /\ Swapped(rit, rit.tuples[j].remappedRowID)
      BY <3>2, TuplesFinite DEF Swapped
    <3>4. /\ z.rowHasEntry[rit.tuples[j].origRowID] = j
          /\ z.rowHasEntry[rit.tuples[j].remappedRowID] = j
      BY <1>8, <3>2, <3>3
    <3> QED BY <3>1, <3>2, <3>4
  <2> QED BY <2>1, <2>2
<1>11. Linked(z)
  BY <1>9, <1>10 DEF Linked
<1>12. Valid(z) = Valid(rit) \cup {i} /\ Locked(z) = Locked(rit) \cup {i}
  BY <1>2, <1>5, <1>7 DEF Valid, Locked
<1>13. /\ Cardinality(Valid(z)) = Cardinality(Valid(rit)) + 1
       /\ Cardinality(Locked(z)) <= Cardinality(Locked(rit)) + 1
  <2>1. i \notin Locked(rit)
    BY <1>2 DEF Valid, Locked
  <2>2. Cardinality(Valid(rit) \cup {i}) = Cardinality(Valid(rit)) + 1
    BY <1>2, TupleSets, FS_AddElement
  <2>3. Cardinality(Locked(rit) \cup {i}) = Cardinality(Locked(rit)) + 1
    BY <2>1, TupleSets, FS_AddElement
  <2>4. Cardinality(Locked(rit)) \in Nat
    BY TupleSets
  <2> QED BY <1>12, <2>2, <2>3, <2>4
<1>14. GoodRIT(z)
  BY <1>6, <1>11, <1>13 DEF GoodRIT
<1>15. LockedRow(z, x) /\ LockedRow(z, y) /\ getRemappedAddr(z, x) = y
  BY <1>2, <1>5, <1>7 DEF LockedRow, Swapped, TupleOf, getRemappedAddr
<1>16. Undisturbed(rit, z, {})
  BY <1>8 DEF Undisturbed, LockedRow, Swapped, TupleOf, getRemappedAddr
<1> QED BY <1>6, <1>13, <1>14, <1>15, <1>16 DEF z

\* Repoint() takes x's partner a out of the tuple and puts y in.
LEMMA RepointGood ==
  ASSUME NEW rit, GoodRIT(rit), NEW x \in Rows, NEW y \in Rows, x # y,
         Swapped(rit, x), ~Swapped(rit, y)
  PROVE  LET z == Repoint(rit, x, y)
             a == getRemappedAddr(rit, x)
         IN /\ GoodRIT(z)
            /\ z.valid_tuples = rit.valid_tuples
            /\ LockedRow(z, x) /\ getRemappedAddr(z, x) = y
            /\ ~Swapped(z, a)
            /\ Undisturbed(rit, z, {x, a})
            /\ Cardinality(Locked(z)) <= Cardinality(Locked(rit)) + 1
<1> DEFINE i == rit.rowHasEntry[x]
           a == getRemappedAddr(rit, x)
           pair == IF rit.tuples[i].origRowID = x
                   THEN [rit.tuples[i] EXCEPT !.locked = TRUE, !.remappedRowID = y]
                   ELSE [rit.tuples[i] EXCEPT !.locked = TRUE, !.origRowID = y]
           T == [rit.tuples EXCEPT ![i] = pair]
           H == [rit.rowHasEntry EXCEPT ![a] = 0, ![y] = i]
           z == Repoint(rit, x, y)
<1>1. /\ rit.tuples \in [Tuples -> TupleType] /\ rit.rowHasEntry \in [Rows -> 0 .. numTuples]
      /\ rit.valid_tuples \in 0 .. numTuples /\ numTuples \in Nat /\ rit \in RITType
  BY RowSwapAssumption DEF GoodRIT, RITType
<1>2. /\ a \in Rows /\ a # x /\ rit.rowHasEntry[a] = i /\ i \in Tuples
      /\ rit.tuples[i].valid
      /\ \/ rit.tuples[i].origRowID = x /\ rit.tuples[i].remappedRowID = a
         \/ rit.tuples[i].origRowID = a /\ rit.tuples[i].remappedRowID = x
  BY Partner DEF TupleOf
<1>3. a # y /\ i # 0 /\ i \in 0 .. numTuples
  BY <1>1, <1>2, TuplesFinite DEF Swapped, Tuples
<1>4. z = [rit EXCEPT !.tuples = T, !.rowHasEntry = H]
  BY <1>1 DEF Repoint, RITType
<1> HIDE DEF z, a
<1>5. /\ pair \in TupleType /\ pair.valid /\ pair.locked
      /\ \/ pair.origRowID = x /\ pair.remappedRowID = y
         \/ pair.origRowID = y /\ pair.remappedRowID = x
  BY <1>1, <1>2 DEF TupleType
<1> HIDE DEF pair
<1>6. /\ z \in RITType
      /\ z.tuples = T /\ z.rowHasEntry = H /\ z.valid_tuples = rit.valid_tuples
  <2>1. T \in [Tuples -> TupleType] /\ H \in [Rows -> 0 .. numTuples]
    BY <1>1, <1>2, <1>3, <1>5
  <2> HIDE DEF T, H
  <2> QED BY <1>1, <1>4, <2>1 DEF RITType
<1>7. /\ z.tuples[i] = pair
      /\ \A j \in Tuples : j # i => z.tuples[j] = rit.tuples[j]
      /\ z.rowHasEntry[x] = i /\ z.rowHasEntry[y] = i /\ z.rowHasEntry[a] = 0
      /\ \A r \in Rows : r # a /\ r # y => z.rowHasEntry[r] = rit.rowHasEntry[r]
  BY <1>1, <1>2, <1>3, <1>6
<1> HIDE DEF T, H, i
\* The other rows that are swapped refer to other tuples.
<1>8. ASSUME NEW r \in Rows, Swapped(rit, r), r # x, r # a
      PROVE  /\ r # y
             /\ rit.rowHasEntry[r] \in Tuples /\ rit.rowHasEntry[r] # i
             /\ z.rowHasEntry[r] = rit.rowHasEntry[r]
             /\ z.tuples[z.rowHasEntry[r]] = rit.tuples[rit.rowHasEntry[r]]
  <2>1. r # y
    BY <1>8
  <2>2. rit.rowHasEntry[r] \in Tuples
    BY <1>1, <1>8 DEF Swapped, Tuples
  <2>3. rit.rowHasEntry[r] # i
    BY <1>2, <1>8, <2>2 DEF GoodRIT, Linked, TupleOf
  <2> QED BY <1>7, <1>8, <2>1, <2>2, <2>3
<1>9. ASSUME NEW r \in Rows, Swapped(z, r)
      PROVE  /\ TupleOf(z, r).valid
             /\ TupleOf(z, r).origRowID = r \/ TupleOf(z, r).remappedRowID = r
  <2>1. CASE r = x \/ r = y
    BY <1>5, <1>7, <2>1 DEF TupleOf
  <2>2. CASE r # x /\ r # y
    <3>1. Swapped(rit, r) /\ r # a
      BY <1>7, <1>9, <2>2 DEF Swapped
    <3> QED BY <1>8, <2>2, <3>1 DEF GoodRIT, Linked, TupleOf
  <2> QED BY <2>1, <2>2
<1>10. ASSUME NEW j \in Tuples, z.tuples[j].valid
       PROVE  /\ z.tuples[j].origRowID # z.tuples[j].remappedRowID
              /\ z.rowHasEntry[z.tuples[j].origRowID] = j
              /\ z.rowHasEntry[z.tuples[j].remappedRowID] = j
  <2>1. CASE j = i
    BY <1>5, <1>7, <2>1
  <2>2. CASE j # i
    <3>1. z.tuples[j] = rit.tuples[j] /\ rit.tuples[j] \in TupleType
      BY <1>1, <1>7, <2>2
    <3>2. /\ rit.tuples[j].origRowID # rit.tuples[j].remappedRowID
          /\ rit.rowHasEntry[rit.tuples[j].origRowID] = j
          /\ rit.rowHasEntry[rit.tuples[j].remappedRowID] = j
          /\ rit.tuples[j].origRowID \in Rows /\ rit.tuples[j].remappedRowID \in Rows
      BY <1>10, <3>1 DEF GoodRIT, Linked, TupleType
    <3>3. /\ Swapped(rit, rit.tuples[j].origRowID) /\ Swapped(rit, rit.tuples[j].remappedRowID)
          /\ rit.tuples[j].origRowID \notin {x, a}
          /\ rit.tuples[j].remappedRowID \notin {x, a}
      BY <1>2, <2>2, <3>2, TuplesFinite DEF Swapped, i
    <3>4. /\ z.rowHasEntry[rit.tuples[j].origRowID] = j
          /\ z.rowHasEntry[rit.tuples[j].remappedRowID] = j
      BY <1>8, <3>2, <3>3
    <3> QED BY <3>1, <3>2, <3>4
  <2> QED BY <2>1, <2>2
<1>11. Linked(z)
  BY <1>9, <1>10 DEF Linked
<1>12. Valid(z) = Valid(rit) /\ Locked(z) = Locked(rit) \cup {i}
  BY <1>2, <1>5, <1>7 DEF Valid, Locked
<1>13. Cardinality(Locked(z)) <= Cardinality(Locked(rit)) + 1
  BY <1>12, TupleSets, FS_AddElement
<1>14. GoodRIT(z)
  BY <1>6, <1>11, <1>12 DEF GoodRIT
<1>15. LockedRow(z, x) /\ getRemappedAddr(z, x) = y /\ ~Swapped(z, a)
  BY <1>3, <1>5, <1>7 DEF LockedRow, Swapped, TupleOf, getRemappedAddr
<1>16. Undisturbed(rit, z, {x, a})
  BY <1>8 DEF Undisturbed, LockedRow, Swapped, TupleOf, getRemappedAddr
<1> QED BY <1>6, <1>13, <1>14, <1>15, <1>16 DEF z, a

\* The eviction at the end of insertTuple() takes an unlocked tuple, and finds
\* one if there are more tuples than locked ones.
LEMMA EvictGood ==
  ASSUME NEW rit, GoodRIT(rit), rit.valid_tuples <= maxValidTuples + 1,
         Cardinality(Locked(rit)) <= maxValidTuples
  PROVE  LET z == Evict(rit)
         IN /\ GoodRIT(z)
            /\ z.valid_tuples <= maxValidTuples
            /\ Undisturbed(rit, z, {})
            /\ Cardinality(Locked(z)) <= Cardinality(Locked(rit))
<1> DEFINE i == First(Evictable(rit))
           o == rit.tuples[i].origRowID
           m == rit.tuples[i].remappedRowID
           T == [rit.tuples EXCEPT ![i] = NoTuple]
           H == [rit.rowHasEntry EXCEPT ![o] = 0, ![m] = 0]
           z == Evict(rit)
<1>1. /\ rit.tuples \in [Tuples -> TupleType] /\ rit.rowHasEntry \in [Rows -> 0 .. numTuples]
      /\ rit.valid_tuples \in 0 .. numTuples /\ numTuples \in Nat /\ rit \in RITType
      /\ maxValidTuples \in Nat
      /\ rit.valid_tuples = Cardinality(Valid(rit))
  BY RowSwapAssumption, DetectorAssumption DEF GoodRIT, RITType, maxValidTuples
<1>2. CASE ~Overfull(rit)
  <2>1. z = rit /\ rit.valid_tuples <= maxValidTuples
    BY <1>1, <1>2 DEF Evict, Overfull
  <2> QED BY <2>1, TupleSets DEF Undisturbed
<1>3. CASE Overfull(rit)
  <2>1. Evictable(rit) # {}
    <3> SUFFICES ASSUME Evictable(rit) = {} PROVE FALSE
      OBVIOUS
    <3>1. Valid(rit) = Locked(rit)
      BY DEF Evictable, Valid, Locked
    <3> QED BY <1>1, <1>3, <3>1 DEF Overfull
  <2>2. i \in Evictable(rit)
    <3>1. Evictable(rit) \in SUBSET Nat
      BY TuplesFinite DEF Evictable
    <3> QED BY <2>1, <3>1, FirstIn
  <2>3. z = [tuples |-> T, rowHasEntry |-> H, valid_tuples |-> rit.valid_tuples - 1]
    BY <1>3, <2>1 DEF Evict, ClearReferences
  <2> HIDE DEF i, z
  <2>4. /\ i \in Tuples /\ rit.tuples[i].valid /\ ~rit.tuples[i].locked
        /\ o \in Rows /\ m \in Rows /\ o # m /\ i # 0
        /\ rit.rowHasEntry[o] = i /\ rit.rowHasEntry[m] = i
    BY <1>1, <2>2, TuplesFinite DEF Evictable, GoodRIT, Linked, TupleType
  <2> HIDE DEF o, m
  <2>5. NoTuple \in TupleType /\ ~NoTuple.valid
    BY DetectorAssumption DEF NoTuple, TupleType
  <2>6. /\ z \in RITType
        /\ z.tuples = T /\ z.rowHasEntry = H /\ z.valid_tuples = rit.valid_tuples - 1
    <3>1. /\ T \in [Tuples -> TupleType] /\ H \in [Rows -> 0 .. numTuples]
          /\ rit.valid_tuples - 1 \in 0 .. numTuples
      BY <1>1, <1>3, <2>4, <2>5 DEF Overfull
    <3> HIDE DEF T, H
    <3> QED BY <2>3, <3>1 DEF RITType
  <2>7. /\ ~z.tuples[i].valid
        /\ \A j \in Tuples : j # i => z.tuples[j] = rit.tuples[j]
        /\ z.rowHasEntry[o] = 0 /\ z.rowHasEntry[m] = 0
        /\ \A r \in Rows : r # o /\ r # m => z.rowHasEntry[r] = rit.rowHasEntry[r]
    BY <1>1, <2>4, <2>5, <2>6
  <2> HIDE DEF T, H
  \* Exactly o and m referred to the tuple.
  <2>8. ASSUME NEW r \in Rows, Swapped(rit, r), rit.rowHasEntry[r] # i
        PROVE  /\ r # o /\ r # m
               /\ rit.rowHasEntry[r] \in Tuples
               /\ z.rowHasEntry[r] = rit.rowHasEntry[r]
               /\ z.tuples[z.rowHasEntry[r]] = rit.tuples[rit.rowHasEntry[r]]
    <3>1. r # o /\ r # m
      BY <2>4, <2>8
    <3>2. rit.rowHasEntry[r] \in Tuples
      BY <1>1, <2>8 DEF Swapped, Tuples
    <3> QED BY <2>7, <2>8, <3>1, <3>2
  <2>9. ASSUME NEW r \in Rows, Swapped(z, r)
        PROVE  /\ TupleOf(z, r).valid
               /\ TupleOf(z, r).origRowID = r \/ TupleOf(z, r).remappedRowID = r
    <3>1. r # o /\ r # m /\ Swapped(rit, r)
      BY <2>7, <2>9 DEF Swapped
    <3>2. /\ TupleOf(rit, r).valid
          /\ TupleOf(rit, r).origRowID = r \/ TupleOf(rit, r).remappedRowID = r
      BY <3>1 DEF GoodRIT, Linked
    <3>3. rit.rowHasEntry[r] # i
      BY <3>1, <3>2 DEF TupleOf, o, m
    <3> QED BY <2>8, <3>1, <3>2, <3>3 DEF TupleOf
  <2>10. ASSUME NEW j \in Tuples, z.tuples[j].valid
         PROVE  /\ z.tuples[j].origRowID # z.tuples[j].remappedRowID
                /\ z.rowHasEntry[z.tuples[j].origRowID] = j
                /\ z.rowHasEntry[z.tuples[j].remappedRowID] = j
    <3>1. z.tuples[j] = rit.tuples[j] /\ rit.tuples[j] \in TupleType /\ j # i
      BY <1>1, <2>7, <2>10
    <3>2. /\ rit.tuples[j].origRowID # rit.tuples[j].remappedRowID
          /\ rit.rowHasEntry[rit.tuples[j].origRowID] = j
          /\ rit.rowHasEntry[rit.tuples[j].remappedRowID] = j
          /\ rit.tuples[j].origRowID \in Rows /\ rit.tuples[j].remappedRowID \in Rows
      BY <2>10, <3>1 DEF GoodRIT, Linked, TupleType
    <3>3. Swapped(rit, rit.tuples[j].origRowID) /\ Swapped(rit, rit.tuples[j].remappedRowID)
      BY <3>2, TuplesFinite DEF Swapped
    <3>4. /\ z.rowHasEntry[rit.tuples[j].origRowID] = j
          /\ z.rowHasEntry[rit.tuples[j].remappedRowID] = j
      BY <2>8, <3>1, <3>2, <3>3
    <3> QED BY <3>1, <3>2, <3>4
  <2>11. Linked(z)
    BY <2>9, <2>10 DEF Linked
  <2>12. Valid(z) = Valid(rit) \ {i} /\ Locked(z) = Locked(rit) /\ i \in Valid(rit)
    BY <2>4, <2>7 DEF Valid, Locked
  <2>13. Cardinality(Valid(z)) = Cardinality(Valid(rit)) - 1
    BY <2>12, TupleSets, FS_RemoveElement
  <2>14. GoodRIT(z)
    BY <1>1, <2>6, <2>11, <2>13 DEF GoodRIT
  <2>15. ASSUME NEW r \in Rows, LockedRow(rit, r)
         PROVE  LockedRow(z, r) /\ getRemappedAddr(z, r) = getRemappedAddr(rit, r)
    <3>1. Swapped(rit, r) /\ rit.rowHasEntry[r] # i
      BY <2>4, <2>15 DEF LockedRow, TupleOf
    <3> QED BY <2>8, <2>15, <3>1 DEF LockedRow, Swapped, TupleOf, getRemappedAddr
  <2>16. z.valid_tuples <= maxValidTuples /\ Cardinality(Locked(z)) <= Cardinality(Locked(rit))
    BY <1>1, <2>6, <2>12, TupleSets
  <2> QED BY <2>14, <2>15, <2>16 DEF Undisturbed, z
<1> QED BY <1>2, <1>3

\* The rows that generateRandomRowAddr() may return.
LEMMA Drawn ==
  ASSUME NEW rit, NEW det, NEW a, NEW y \in generateRandomRowAddr(rit, det, a)
  PROVE  y \in Rows /\ y # a /\ ~Swapped(rit, y)
<1> DEFINE S == {r \in Rows \ {a} : ~Swapped(rit, r) /\ ~Lookup(det, r)}
<1>1. S \in SUBSET Rows
  OBVIOUS
<1>2. Draw(S) \subseteq S
  BY <1>1, RowSwapAssumption
<1> QED BY <1>2 DEF generateRandomRowAddr

DecisionType == [mitigate : BOOLEAN, addr : Rows, validAddrs : {0, 2, 4, 6}]

\* insertTuple(), with room for the two tuples that it may lock.
LEMMA InsertGood ==
  ASSUME NEW rit, GoodRIT(rit), rit.valid_tuples <= maxValidTuples,
         Cardinality(Locked(rit)) + 2 <= maxValidTuples,
         NEW det, NEW x \in Rows, insertTuple(rit, det, x)
  PROVE  /\ GoodRIT(t') /\ t'.valid_tuples <= maxValidTuples
         /\ Cardinality(Locked(t')) <= Cardinality(Locked(rit)) + 2
         /\ LockedRow(t', x)
         /\ getRemappedAddr(t', x) \notin {x, getRemappedAddr(rit, x)}
         /\ \A r \in Rows : LockedRow(rit, r) => LockedRow(t', r)
         /\ decision' \in DecisionType /\ decision'.mitigate /\ decision'.addr = x
<1> DEFINE a == getRemappedAddr(rit, x)
<1>1. /\ numTuples \in Nat /\ maxValidTuples \in Nat /\ maxValidTuples < numTuples
      /\ rit.valid_tuples \in Nat /\ Cardinality(Locked(rit)) \in Nat
  BY RowSwapAssumption, DetectorAssumption, TupleSets DEF maxValidTuples, GoodRIT, RITType
<1>2. PICK y \in generateRandomRowAddr(rit, det, x) :
        \/ /\ Swapped(rit, x)
           /\ \E b \in generateRandomRowAddr(Repoint(rit, x, y), det, a) :
                LET both == InstallTuple(Repoint(rit, x, y), a, b) IN
                /\ t' = Evict(both)
                /\ decision' = [mitigate |-> TRUE, addr |-> x,
                                validAddrs |-> IF Overfull(both) THEN 6 ELSE 4]
        \/ /\ ~Swapped(rit, x)
           /\ t' = Evict(InstallTuple(rit, x, y))
           /\ decision' = [mitigate |-> TRUE, addr |-> x,
                           validAddrs |-> IF Overfull(InstallTuple(rit, x, y))
                                          THEN 4 ELSE 2]
  BY DEF insertTuple
<1>3. y \in Rows /\ y # x /\ ~Swapped(rit, y)
  BY <1>2, Drawn
<1>4. CASE Swapped(rit, x)
  <2> DEFINE swap == Repoint(rit, x, y)
  <2>1. PICK b \in generateRandomRowAddr(swap, det, a) :
          LET both == InstallTuple(swap, a, b) IN
          /\ t' = Evict(both)
          /\ decision' = [mitigate |-> TRUE, addr |-> x,
                          validAddrs |-> IF Overfull(both) THEN 6 ELSE 4]
    BY <1>2, <1>4
  <2> DEFINE both == InstallTuple(swap, a, b)
  <2>2. a \in Rows /\ a # x /\ Swapped(rit, a)
    BY <1>4, Partner DEF Swapped
  <2>3. /\ GoodRIT(swap)
        /\ swap.valid_tuples = rit.valid_tuples
        /\ LockedRow(swap, x) /\ getRemappedAddr(swap, x) = y
        /\ ~Swapped(swap, a)
        /\ Undisturbed(rit, swap, {x, a})
        /\ Cardinality(Locked(swap)) <= Cardinality(Locked(rit)) + 1
    BY <1>3, <1>4, RepointGood
  <2>4. t' = Evict(both) /\ decision' \in DecisionType
        /\ decision'.mitigate /\ decision'.addr = x
    BY <2>1 DEF DecisionType
  <2>5. b \in Rows /\ b # a /\ ~Swapped(swap, b)
    BY <2>1, Drawn
  <2> HIDE DEF swap, a
  <2>6. /\ GoodRIT(both)
        /\ both.valid_tuples = swap.valid_tuples + 1
        /\ LockedRow(both, a) /\ Undisturbed(swap, both, {})
        /\ Cardinality(Locked(both)) <= Cardinality(Locked(swap)) + 1
    BY <1>1, <2>2, <2>3, <2>5, InstallGood
  <2> HIDE DEF both
  <2>7. /\ Cardinality(Locked(swap)) \in Nat /\ Cardinality(Locked(both)) \in Nat
        /\ Cardinality(Locked(t')) \in Nat
    BY TupleSets
  <2>8. both.valid_tuples <= maxValidTuples + 1 /\ Cardinality(Locked(both)) <= maxValidTuples
    BY <1>1, <2>3, <2>6, <2>7
  <2>9. /\ GoodRIT(t') /\ t'.valid_tuples <= maxValidTuples
        /\ Undisturbed(both, t', {})
        /\ Cardinality(Locked(t')) <= Cardinality(Locked(both))
    BY <2>4, <2>6, <2>8, EvictGood
  <2>10. Cardinality(Locked(t')) <= Cardinality(Locked(rit)) + 2
    BY <1>1, <2>3, <2>6, <2>7, <2>9
  <2>11. LockedRow(t', x) /\ getRemappedAddr(t', x) = y /\ LockedRow(t', a)
    BY <2>2, <2>3, <2>6, <2>9 DEF Undisturbed
  <2>12. y # a
    BY <1>3, <2>2
  <2>13. ASSUME NEW r \in Rows, LockedRow(rit, r) PROVE LockedRow(t', r)
    BY <2>3, <2>6, <2>9, <2>11, <2>13 DEF Undisturbed
  <2> QED BY <1>3, <2>4, <2>9, <2>10, <2>11, <2>12, <2>13 DEF a
<1>5. CASE ~Swapped(rit, x)
  <2> DEFINE swap == InstallTuple(rit, x, y)
  <2>1. t' = Evict(swap) /\ decision' \in DecisionType
        /\ decision'.mitigate /\ decision'.addr = x
    <3>1. /\ t' = Evict(swap)
          /\ decision' = [mitigate |-> TRUE, addr |-> x,
                          validAddrs |-> IF Overfull(swap) THEN 4 ELSE 2]
      BY <1>2, <1>5
    <3> HIDE DEF swap
    <3> QED BY <3>1 DEF DecisionType
  <2>2. /\ GoodRIT(swap)
        /\ swap.valid_tuples = rit.valid_tuples + 1
        /\ LockedRow(swap, x) /\ getRemappedAddr(swap, x) = y
        /\ Undisturbed(rit, swap, {})
        /\ Cardinality(Locked(swap)) <= Cardinality(Locked(rit)) + 1
    BY <1>1, <1>3, <1>5, InstallGood
  <2> HIDE DEF swap
  <2>3. Cardinality(Locked(swap)) \in Nat /\ Cardinality(Locked(t')) \in Nat
    BY TupleSets
  <2>4. swap.valid_tuples <= maxValidTuples + 1 /\ Cardinality(Locked(swap)) <= maxValidTuples
    BY <1>1, <2>2, <2>3
  <2>5. /\ GoodRIT(t') /\ t'.valid_tuples <= maxValidTuples
        /\ Undisturbed(swap, t', {})
        /\ Cardinality(Locked(t')) <= Cardinality(Locked(swap))
    BY <2>1, <2>2, <2>4, EvictGood
  <2>6. Cardinality(Locked(t')) <= Cardinality(Locked(rit)) + 2
    BY <1>1, <2>2, <2>3, <2>5
  <2>7. LockedRow(t', x) /\ getRemappedAddr(t', x) = y
    BY <2>2, <2>5 DEF Undisturbed
  <2>8. ASSUME NEW r \in Rows, LockedRow(rit, r) PROVE LockedRow(t', r)
    BY <2>2, <2>5, <2>8 DEF Undisturbed
  <2>9. getRemappedAddr(rit, x) = x
    BY <1>5 DEF getRemappedAddr
  <2> QED BY <1>3, <2>1, <2>5, <2>6, <2>7, <2>8, <2>9
<1> QED BY <1>4, <1>5

-----------------------------------------------------------------------------
\* The activations that the table has counted, and the ones among them at
\* which a row was flagged: a cell <<e, k>> is the k-th activation counted by
\* entry e, for whichever row the entry held then.
Cells(det) == {c \in Entries \X Nat : 1 <= c[2] /\ c[2] <= det.entries[c[1]].count}

Multiples(det) == {c \in Cells(det) : Flags(c[2])}

\* Two multiples of the threshold are at least the threshold apart.
LEMMA FlagsApart ==
  ASSUME NEW a \in Nat, NEW b \in Nat, Flags(a), Flags(b), a < b
  PROVE  a + threshold <= b
<1> DEFINE p == a \div threshold  q == b \div threshold
<1>1. /\ p \in Nat /\ q \in Nat /\ threshold \in Nat \ {0}
      /\ a = threshold * p + 0 /\ b = threshold * q + 0
  BY DetectorAssumption DEF Flags
<1> HIDE DEF p, q
<1>2. p < q
  <2> SUFFICES ASSUME q <= p PROVE FALSE
    BY <1>1
  <2>1. threshold * q <= threshold * p
    BY <1>1
  <2> QED BY <1>1, <2>1
<1>3. threshold * (p + 1) <= threshold * q
  BY <1>1, <1>2
<1>4. threshold * (p + 1) = threshold * p + threshold
  BY <1>1
<1> QED BY <1>1, <1>3, <1>4

LEMMA FlagsLarge ==
  ASSUME NEW a \in Nat \ {0}, Flags(a) PROVE threshold <= a
<1>1. Flags(0)
  BY DetectorAssumption DEF Flags
<1>2. 0 + threshold <= a
  BY <1>1, FlagsApart
<1> QED BY <1>2, DetectorAssumption

\* The threshold - 1 cells before a multiple are cells of its own.
LEMMA MultiplesFew ==
  ASSUME NEW det \in TableType, IsFiniteSet(Cells(det))
  PROVE  /\ IsFiniteSet(Multiples(det)) /\ Cardinality(Multiples(det)) \in Nat
         /\ Cardinality(Multiples(det)) * threshold <= Cardinality(Cells(det))
<1> DEFINE M == Multiples(det)
           I == 0 .. threshold - 1
           f == [w \in M \X I |-> <<w[1][1], w[1][2] - w[2]>>]
<1>0. threshold \in Nat \ {0}
  BY DetectorAssumption
<1>1. M \in SUBSET Cells(det)
  BY DEF Multiples
<1>2. IsFiniteSet(M) /\ Cardinality(M) \in Nat
  BY <1>1, FS_Subset, FS_CardinalityType
<1>3. IsFiniteSet(I) /\ Cardinality(I) = threshold
  BY <1>0, FS_Interval
<1>4. IsFiniteSet(M \X I) /\ Cardinality(M \X I) = Cardinality(M) * threshold
  BY <1>2, <1>3, FS_Product
<1>5. ASSUME NEW c \in M, NEW j \in I
      PROVE  /\ f[<<c, j>>] = <<c[1], c[2] - j>>
             /\ <<c[1], c[2] - j>> \in Cells(det)
  <2>1. /\ c[1] \in Entries /\ c[2] \in Nat \ {0} /\ Flags(c[2])
        /\ c[2] <= det.entries[c[1]].count
        /\ det.entries[c[1]].count \in Nat
    BY DEF Multiples, Cells, TableType
  <2>2. threshold <= c[2]
    BY <2>1, FlagsLarge
  <2>3. c[2] - j \in Nat /\ 1 <= c[2] - j /\ c[2] - j <= det.entries[c[1]].count
    BY <1>0, <2>1, <2>2
  <2> QED BY <2>1, <2>3 DEF Cells
<1>6. ASSUME NEW c \in M, NEW j \in I, NEW b \in M, NEW k \in I,
             c[1] = b[1], c[2] - j = b[2] - k
      PROVE  c = b /\ j = k
  <2>1. /\ c \in Entries \X Nat /\ b \in Entries \X Nat
        /\ c[2] \in Nat /\ b[2] \in Nat /\ Flags(c[2]) /\ Flags(b[2])
    BY DEF Multiples, Cells
  <2>2. ~(c[2] < b[2])
    BY <1>0, <1>6, <2>1, FlagsApart
  <2>3. ~(b[2] < c[2])
    BY <1>0, <1>6, <2>1, FlagsApart
  <2>4. c[2] = b[2]
    BY <2>1, <2>2, <2>3
  <2> QED BY <1>0, <1>6, <2>1, <2>4
<1> HIDE DEF M, I
<1>7. f \in [M \X I -> Cells(det)]
  BY <1>5
<1>8. ASSUME NEW v \in M \X I, NEW w \in M \X I, f[v] = f[w]
      PROVE  v = w
  <2>1. /\ v[1] \in M /\ v[2] \in I /\ v = <<v[1], v[2]>>
        /\ w[1] \in M /\ w[2] \in I /\ w = <<w[1], w[2]>>
    OBVIOUS
  <2>2. /\ f[v] = <<v[1][1], v[1][2] - v[2]>>
        /\ f[w] = <<w[1][1], w[1][2] - w[2]>>
    OBVIOUS
  <2>3. v[1][1] = w[1][1] /\ v[1][2] - v[2] = w[1][2] - w[2]
    BY <1>8, <2>2
  <2>4. v[1] = w[1] /\ v[2] = w[2]
    BY <1>6, <2>1, <2>3
  <2> QED BY <2>1, <2>4
<1> HIDE DEF f
<1>9. f \in Injection(M \X I, Cells(det))
  BY <1>7, <1>8 DEF Injection, IsInjective
<1>10. Cardinality(M \X I) <= Cardinality(Cells(det))
  BY <1>9, FS_Injection
<1> QED BY <1>2, <1>4, <1>10 DEF M

\* access() of the detector counts the activation at most once, and flags the
\* row exactly if the new cell is a multiple of the threshold.
LEMMA AccessCounts ==
  ASSUME NEW det \in TableType, NEW row \in Rows
  PROVE  LET u == Access(det, row)
         IN /\ u \in TableType
            /\ \/ ~Detects(det, row) /\ Cells(u) = Cells(det)
               \/ \E c : /\ c \notin Cells(det) /\ Cells(u) = Cells(det) \cup {c}
                         /\ Detects(det, row) <=> Flags(c[2])
<1> DEFINE u == Access(det, row)
           More(e) == /\ e \in Entries /\ u.rowHasEntry[row] = e
                      /\ u.entries[e].count = det.entries[e].count + 1
                      /\ \A j \in Entries : j # e => u.entries[j] = det.entries[j]
\* One entry more than before: the cell above its count.
<1>1. ASSUME NEW e, More(e)
      PROVE  \E c : /\ c \notin Cells(det) /\ Cells(u) = Cells(det) \cup {c}
                    /\ Detects(det, row) <=> Flags(c[2])
  <2> DEFINE n == det.entries[e].count
             c == <<e, n + 1>>
  <2>1. e \in Entries /\ n \in Nat /\ e # 0 /\ c \in Entries \X Nat
    BY <1>1, DetectorAssumption DEF TableType, Entries
  <2>2. c \notin Cells(det)
    BY <2>1 DEF Cells
  <2>3. ASSUME NEW b \in Entries \X Nat
        PROVE  b \in Cells(u) <=> b \in Cells(det) \cup {c}
    <3>1. b = <<b[1], b[2]>> /\ b[1] \in Entries /\ b[2] \in Nat
      OBVIOUS
    <3>2. CASE b[1] = e
      BY <1>1, <2>1, <3>1, <3>2 DEF Cells
    <3>3. CASE b[1] # e
      BY <1>1, <2>1, <3>1, <3>3 DEF Cells
    <3> QED BY <3>2, <3>3
  <2>4. Cells(u) = Cells(det) \cup {c}
    BY <2>1, <2>3 DEF Cells
  <2>5. Detects(det, row) <=> Flags(c[2])
    BY <1>1, <2>1 DEF Detects, Lookup
  <2> QED BY <2>2, <2>4, <2>5
<1>2. CASE Lookup(det, row)
  <2> DEFINE e == det.rowHasEntry[row]
             E == [det.entries EXCEPT ![e].count = @ + 1]
  <2>1. e \in Entries
    BY <1>2 DEF TableType, Lookup, Entries
  <2>2. u = [det EXCEPT !.entries = E]
    BY <1>2 DEF Access, Hit, TableType
  <2>3. E \in [Entries -> [valid : BOOLEAN, addr : Rows, count : Nat]]
    BY <2>1 DEF TableType
  <2>4. E[e].count = det.entries[e].count + 1 /\ \A j \in Entries : j # e => E[j] = det.entries[j]
    BY <2>1 DEF TableType
  <2> HIDE DEF u, E, More
  <2>5. u \in TableType /\ u.entries = E /\ u.rowHasEntry = det.rowHasEntry
    BY <2>2, <2>3 DEF TableType
  <2>6. More(e)
    BY <2>1, <2>4, <2>5 DEF More
  <2> QED BY <1>1, <2>5, <2>6 DEF u
<1>3. CASE ~Lookup(det, row) /\ Replaceable(det) # {}
  <2> DEFINE e == FirstReplaceable(det)
             old == det.entries[e]
             E == [det.entries EXCEPT ![e] = [valid |-> TRUE, addr |-> row, count |-> @.count + 1]]
             R == [r \in Rows |-> IF r = row THEN e
                                  ELSE IF old.valid /\ r = old.addr THEN 0
                                  ELSE det.rowHasEntry[r]]
  <2>1. e \in Entries
    <3>1. Replaceable(det) \in SUBSET Nat
      BY DetectorAssumption DEF Replaceable, Entries
    <3>2. e \in Replaceable(det)
      BY <1>3, <3>1, FirstIn DEF FirstReplaceable
    <3> QED BY <3>2 DEF Replaceable
  <2>2. u = [det EXCEPT !.entries = E, !.rowHasEntry = R]
    BY <1>3 DEF Access, Install, TableType
  <2> HIDE DEF e
  <2>3. /\ E \in [Entries -> [valid : BOOLEAN, addr : Rows, count : Nat]]
        /\ E[e].count = det.entries[e].count + 1
        /\ \A j \in Entries : j # e => E[j] = det.entries[j]
    BY <2>1 DEF TableType
  <2>4. R \in [Rows -> 0 .. numEntries] /\ R[row] = e
    BY <2>1, DetectorAssumption DEF TableType, Entries
  <2> HIDE DEF u, E, R, More
  <2>5. u \in TableType /\ u.entries = E /\ u.rowHasEntry = R
    BY <2>2, <2>3, <2>4 DEF TableType
  <2>6. More(e)
    BY <2>1, <2>3, <2>4, <2>5 DEF More
  <2> QED BY <1>1, <2>5, <2>6 DEF u
<1>4. CASE ~Lookup(det, row) /\ Replaceable(det) = {}
  <2>1. u = [det EXCEPT !.spill_counter = @ + 1]
    BY <1>4 DEF Access, Spill
  <2> HIDE DEF u
  <2>2. u \in TableType /\ u.entries = det.entries /\ u.rowHasEntry = det.rowHasEntry
    BY <2>1 DEF TableType
  <2>3. ~Lookup(u, row)
    BY <1>4, <2>2 DEF Lookup
  <2>4. ~Detects(det, row)
    BY <2>3 DEF Detects, u
  <2>5. Cells(u) = Cells(det)
    BY <2>2 DEF Cells
  <2> QED BY <2>2, <2>4, <2>5 DEF u
<1> QED BY <1>2, <1>3, <1>4

LEMMA AccessBudget ==
  ASSUME NEW det \in TableType, NEW row \in Rows, IsFiniteSet(Cells(det))
  PROVE  LET u == Access(det, row)
         IN /\ IsFiniteSet(Cells(u))
            /\ Cardinality(Cells(u)) <= Cardinality(Cells(det)) + 1
            /\ Cardinality(Multiples(u)) = Cardinality(Multiples(det))
                                             + (IF Detects(det, row) THEN 1 ELSE 0)
<1> DEFINE u == Access(det, row)
<1>1. /\ Cardinality(Cells(det)) \in Nat /\ IsFiniteSet(Multiples(det))
      /\ Cardinality(Multiples(det)) \in Nat
  BY FS_CardinalityType, MultiplesFew
<1>2. CASE ~Detects(det, row) /\ Cells(u) = Cells(det)
  <2>1. Multiples(u) = Multiples(det)
    BY <1>2 DEF Multiples
  <2> QED BY <1>1, <1>2, <2>1
<1>3. ASSUME NEW c, c \notin Cells(det), Cells(u) = Cells(det) \cup {c},
             Detects(det, row) <=> Flags(c[2])
      PROVE  /\ IsFiniteSet(Cells(u))
             /\ Cardinality(Cells(u)) <= Cardinality(Cells(det)) + 1
             /\ Cardinality(Multiples(u)) = Cardinality(Multiples(det))
                                              + (IF Detects(det, row) THEN 1 ELSE 0)
  <2>1. c \notin Multiples(det)
    BY <1>3 DEF Multiples
  <2>2. Multiples(u) = IF Detects(det, row) THEN Multiples(det) \cup {c} ELSE Multiples(det)
    BY <1>3 DEF Multiples
  <2>3. Cardinality(Multiples(det) \cup {c}) = Cardinality(Multiples(det)) + 1
    BY <1>1, <2>1, FS_AddElement
  <2>4. /\ IsFiniteSet(Cells(det) \cup {c})
        /\ Cardinality(Cells(det) \cup {c}) = Cardinality(Cells(det)) + 1
    BY <1>3, FS_AddElement
  <2> QED BY <1>1, <1>3, <2>2, <2>3, <2>4
<1> QED BY <1>2, <1>3, AccessCounts

\* A row that has an entry is the row of that entry.
Owned(det) ==
  \A r \in Rows : Lookup(det, r) =>
    LET entry == det.entries[det.rowHasEntry[r]] IN entry.valid /\ entry.addr = r

LEMMA AccessOwned ==
  ASSUME NEW det \in TableType, Owned(det), NEW row \in Rows
  PROVE  Owned(Access(det, row))
<1> DEFINE u == Access(det, row)
<1>0. \A r \in Rows : Lookup(det, r) => det.rowHasEntry[r] \in Entries
  BY DetectorAssumption DEF TableType, Lookup, Entries
<1>1. CASE Lookup(det, row)
  <2> DEFINE e == det.rowHasEntry[row]
             E == [det.entries EXCEPT ![e].count = @ + 1]
  <2>1. u = [det EXCEPT !.entries = E]
    BY <1>1 DEF Access, Hit, TableType
  <2>2. \A j \in Entries : E[j].valid = det.entries[j].valid /\ E[j].addr = det.entries[j].addr
    BY <1>0, <1>1 DEF TableType
  <2> HIDE DEF u, E
  <2>3. u.entries = E /\ u.rowHasEntry = det.rowHasEntry
    BY <2>1 DEF TableType
  <2> QED BY <1>0, <2>2, <2>3 DEF Owned, Lookup, u
<1>2. CASE ~Lookup(det, row) /\ Replaceable(det) # {}
  <2> DEFINE e == FirstReplaceable(det)
             old == det.entries[e]
             E == [det.entries EXCEPT ![e] = [valid |-> TRUE, addr |-> row, count |-> @.count + 1]]
             R == [r \in Rows |-> IF r = row THEN e
                                  ELSE IF old.valid /\ r = old.addr THEN 0
                                  ELSE det.rowHasEntry[r]]
  <2>1. e \in Entries
    <3>1. Replaceable(det) \in SUBSET Nat
      BY DetectorAssumption DEF Replaceable, Entries
    <3>2. e \in Replaceable(det)
      BY <1>2, <3>1, FirstIn DEF FirstReplaceable
    <3> QED BY <3>2 DEF Replaceable
  <2>2. u = [det EXCEPT !.entries = E, !.rowHasEntry = R]
    BY <1>2 DEF Access, Install, TableType
  <2> HIDE DEF e
  <2>3. /\ E[e].valid /\ E[e].addr = row
        /\ \A j \in Entries : j # e => E[j] = det.entries[j]
    BY <2>1 DEF TableType
  <2> HIDE DEF u, E
  <2>4. u.entries = E /\ u.rowHasEntry = R
    BY <2>2 DEF TableType
  \* The row that had the entry is the one that loses its reference.
  <2>5. ASSUME NEW r \in Rows, R[r] # 0
        PROVE  E[R[r]].valid /\ E[R[r]].addr = r
    <3>1. CASE r = row
      BY <2>3, <3>1
    <3>2. CASE r # row
      <4>1. R[r] = det.rowHasEntry[r] /\ ~(old.valid /\ r = old.addr) /\ Lookup(det, r)
        BY <2>5, <3>2 DEF Lookup
      <4>2. det.rowHasEntry[r] # e /\ det.rowHasEntry[r] \in Entries
        BY <1>0, <4>1 DEF Owned
      <4> QED BY <2>3, <4>1, <4>2 DEF Owned
    <3> QED BY <3>1, <3>2
  <2> QED BY <2>4, <2>5 DEF Owned, Lookup, u
<1>3. CASE ~Lookup(det, row) /\ Replaceable(det) = {}
  <2>1. u = [det EXCEPT !.spill_counter = @ + 1]
    BY <1>3 DEF Access, Spill
  <2> HIDE DEF u
  <2>2. u.entries = det.entries /\ u.rowHasEntry = det.rowHasEntry
    BY <2>1 DEF TableType
  <2> QED BY <2>2 DEF Owned, Lookup, u
<1> QED BY <1>1, <1>2, <1>3

\* The detector's table pays for the locks of the RIT.
Budget(det, rit, n) ==
  /\ IsFiniteSet(Cells(det))
  /\ Cardinality(Cells(det)) <= n
  /\ Cardinality(Locked(rit)) <= 2 * Cardinality(Multiples(det))

\* reset(): no tuple is locked, none is changed otherwise.
LEMMA UnlockGood ==
  ASSUME NEW rit, GoodRIT(rit)
  PROVE  LET z == Unlock(rit)
         IN /\ GoodRIT(z) /\ z.valid_tuples = rit.valid_tuples
            /\ Locked(z) = {}
            /\ \A r \in Rows : getRemappedAddr(z, r) = getRemappedAddr(rit, r)
<1> DEFINE z == Unlock(rit)
           T == [i \in Tuples |-> [rit.tuples[i] EXCEPT !.locked = FALSE]]
<1>1. /\ rit.tuples \in [Tuples -> TupleType] /\ rit.rowHasEntry \in [Rows -> 0 .. numTuples]
      /\ rit \in RITType
  BY DEF GoodRIT, RITType
<1>2. z = [rit EXCEPT !.tuples = T]
  BY <1>1 DEF Unlock, RITType
<1>3. /\ T \in [Tuples -> TupleType]
      /\ \A i \in Tuples : /\ T[i].valid = rit.tuples[i].valid /\ ~T[i].locked
                           /\ T[i].origRowID = rit.tuples[i].origRowID
                           /\ T[i].remappedRowID = rit.tuples[i].remappedRowID
  BY <1>1 DEF TupleType
<1> HIDE DEF T, z
<1>4. /\ z \in RITType /\ z.tuples = T
      /\ z.rowHasEntry = rit.rowHasEntry /\ z.valid_tuples = rit.valid_tuples
  BY <1>1, <1>2, <1>3 DEF RITType
<1>5. Valid(z) = Valid(rit) /\ Locked(z) = {}
  BY <1>3, <1>4 DEF Valid, Locked
<1>6. \A r \in Rows : Swapped(rit, r) => rit.rowHasEntry[r] \in Tuples
  BY <1>1 DEF Swapped, Tuples
<1>7. Linked(z)
  <2>1. \A r \in Rows : Swapped(z, r) =>
          /\ TupleOf(z, r).valid
          /\ TupleOf(z, r).origRowID = r \/ TupleOf(z, r).remappedRowID = r
    BY <1>3, <1>4, <1>6 DEF GoodRIT, Linked, Swapped, TupleOf
  <2>2. \A i \in Tuples : z.tuples[i].valid =>
          /\ z.tuples[i].origRowID # z.tuples[i].remappedRowID
          /\ z.rowHasEntry[z.tuples[i].origRowID] = i
          /\ z.rowHasEntry[z.tuples[i].remappedRowID] = i
    BY <1>3, <1>4 DEF GoodRIT, Linked
  <2> QED BY <2>1, <2>2 DEF Linked
<1>8. \A r \in Rows : getRemappedAddr(z, r) = getRemappedAddr(rit, r)
  BY <1>3, <1>4, <1>6 DEF getRemappedAddr, Swapped, TupleOf
<1> QED BY <1>4, <1>5, <1>7, <1>8 DEF GoodRIT, z

\* As many multiples of the threshold as fit in a window.
LEMMA WindowMultiples ==
  ASSUME NEW k \in Nat, k * threshold <= MAX_ACTS
  PROVE  k <= numEntries
<1> DEFINE q == MAX_ACTS \div threshold
<1>1. /\ threshold \in Nat \ {0} /\ MAX_ACTS \in Nat /\ q \in Nat
      /\ MAX_ACTS < threshold * (q + 1) /\ numEntries = q
  BY DetectorAssumption, RowSwapAssumption
<1> HIDE DEF q
<1>2. SUFFICES ASSUME q + 1 <= k PROVE FALSE
  BY <1>1
<1>3. threshold * (q + 1) <= threshold * k
  BY <1>1, <1>2
<1> QED BY <1>1, <1>3

-----------------------------------------------------------------------------
\* The rows that are not drawn: at most two for each valid tuple and one for
\* each entry of the detector.
SwappedRows(rit) == {r \in Rows : Swapped(rit, r)}

TrackedRows(det) == {r \in Rows : Lookup(det, r)}

LEMMA SwappedFew ==
  ASSUME NEW rit, GoodRIT(rit)
  PROVE  /\ IsFiniteSet(SwappedRows(rit)) /\ Cardinality(SwappedRows(rit)) \in Nat
         /\ Cardinality(SwappedRows(rit)) <= 2 * rit.valid_tuples
<1> DEFINE S == SwappedRows(rit)
           V == Valid(rit) \X (1 .. 2)
           f == [r \in S |-> <<rit.rowHasEntry[r], IF TupleOf(rit, r).origRowID = r
                                                  THEN 1 ELSE 2>>]
<1>1. S \subseteq Rows /\ IsFiniteSet(S)
  <2>1. S \subseteq Rows
    BY DEF SwappedRows
  <2> QED BY <2>1, RowsAssumption, FS_Subset
<1>2. /\ IsFiniteSet(V) /\ Cardinality(V) = Cardinality(Valid(rit)) * 2
  <2>1. IsFiniteSet(1 .. 2) /\ Cardinality(1 .. 2) = 2
    <3>1. /\ 1 \in Int /\ 2 \in Int
          /\ (IF 1 > 2 THEN 0 ELSE 2 - 1 + 1) = 2
      OBVIOUS
    <3> QED BY <3>1, FS_Interval, Zenon
  <2> QED BY <2>1, TupleSets, FS_Product
<1>3. ASSUME NEW r \in S
      PROVE  /\ rit.rowHasEntry[r] \in Valid(rit)
             /\ TupleOf(rit, r).origRowID = r \/ TupleOf(rit, r).remappedRowID = r
  <2>1. r \in Rows /\ Swapped(rit, r)
    BY DEF SwappedRows
  <2>2. rit.rowHasEntry[r] \in Tuples
    BY <2>1, Partner
  <2> QED BY <2>1, <2>2 DEF GoodRIT, Linked, TupleOf, Valid
<1> HIDE DEF S
<1>4. f \in [S -> V]
  BY <1>3
<1>5. ASSUME NEW r \in S, NEW q \in S, f[r] = f[q] PROVE r = q
  <2>1. rit.rowHasEntry[r] = rit.rowHasEntry[q]
    BY <1>5
  <2>2. TupleOf(rit, r).origRowID = r <=> TupleOf(rit, q).origRowID = q
    BY <1>5
  <2> QED BY <1>3, <2>1, <2>2 DEF TupleOf
<1> HIDE DEF f, V
<1>6. f \in Injection(S, V)
  BY <1>4, <1>5 DEF Injection, IsInjective
<1>7. Cardinality(S) <= Cardinality(V)
  BY <1>2, <1>6, FS_Injection
<1>8. Cardinality(S) \in Nat /\ Cardinality(Valid(rit)) \in Nat
  BY <1>1, TupleSets, FS_CardinalityType
<1> QED BY <1>1, <1>2, <1>7, <1>8 DEF GoodRIT, S

LEMMA TrackedFew ==
  ASSUME NEW det \in TableType, Owned(det)
  PROVE  /\ IsFiniteSet(TrackedRows(det)) /\ Cardinality(TrackedRows(det)) \in Nat
         /\ Cardinality(TrackedRows(det)) <= numEntries
<1> DEFINE S == TrackedRows(det)
           f == [r \in S |-> det.rowHasEntry[r]]
<1>1. S \subseteq Rows /\ IsFiniteSet(S) /\ Cardinality(S) \in Nat
  <2>1. S \subseteq Rows
    BY DEF TrackedRows
  <2> QED BY <2>1, RowsAssumption, FS_Subset, FS_CardinalityType
<1>2. IsFiniteSet(Entries) /\ Cardinality(Entries) = numEntries
  <2>1. IsFiniteSet(1 .. numEntries) /\ Cardinality(1 .. numEntries) = numEntries
    BY DetectorAssumption, FS_Interval
  <2> QED BY <2>1 DEF Entries
<1>3. ASSUME NEW r \in S
      PROVE  det.rowHasEntry[r] \in Entries /\ det.entries[det.rowHasEntry[r]].addr = r
  BY DetectorAssumption DEF TrackedRows, Owned, Lookup, TableType, Entries
<1> HIDE DEF S
<1>4. f \in [S -> Entries]
  BY <1>3
<1>5. ASSUME NEW r \in S, NEW q \in S, f[r] = f[q] PROVE r = q
  BY <1>3, <1>5
<1> HIDE DEF f
<1>6. f \in Injection(S, Entries)
  BY <1>4, <1>5 DEF Injection, IsInjective
<1>7. Cardinality(S) <= Cardinality(Entries)
  BY <1>2, <1>6, FS_Injection
<1> QED BY <1>1, <1>2, <1>7 DEF S

\* A draw that avoids a row finds another one, if a row that is swapped is also
\* tracked or the row to avoid is.
LEMMA DrawFinds ==
  ASSUME NEW rit, GoodRIT(rit), rit.valid_tuples <= maxValidTuples,
         NEW det \in TableType, Owned(det), NEW avoid \in Rows,
         Lookup(det, avoid) \/ \E r \in Rows : Swapped(rit, r) /\ Lookup(det, r)
  PROVE  generateRandomRowAddr(rit, det, avoid) # {}
<1> DEFINE S == SwappedRows(rit)
           T == TrackedRows(det)
           U == (S \cup T) \cup {avoid}
           F == {r \in Rows \ {avoid} : ~Swapped(rit, r) /\ ~Lookup(det, r)}
<1>1. /\ IsFiniteSet(S) /\ Cardinality(S) \in Nat
      /\ Cardinality(S) <= 2 * rit.valid_tuples
      /\ IsFiniteSet(T) /\ Cardinality(T) \in Nat /\ Cardinality(T) <= numEntries
  BY SwappedFew, TrackedFew
<1>2. /\ rit.valid_tuples \in Nat /\ maxValidTuples \in Nat /\ numEntries \in Nat
      /\ IsFiniteSet(Rows) /\ Cardinality(Rows) \in Nat
      /\ Cardinality(Rows) > 2 * maxValidTuples + numEntries
  BY RowSwapAssumption, RowsAssumption, DetectorAssumption, FS_CardinalityType
     DEF GoodRIT, RITType, maxValidTuples
<1>3. /\ IsFiniteSet(S \cup T) /\ IsFiniteSet(S \cap T)
      /\ Cardinality(S \cup T) = Cardinality(S) + Cardinality(T) - Cardinality(S \cap T)
  BY <1>1, FS_Union, FS_Intersection
<1>4. /\ Cardinality(S \cap T) \in Nat /\ Cardinality(S \cup T) \in Nat
  BY <1>3, FS_CardinalityType
<1>5. Cardinality(U) <= Cardinality(S) + Cardinality(T)
  <2>1. CASE Lookup(det, avoid)
    <3>1. U = S \cup T
      BY <2>1 DEF TrackedRows
    <3> HIDE DEF U, S, T
    <3>2. Cardinality(U) = Cardinality(S) + Cardinality(T) - Cardinality(S \cap T)
      BY <1>3, <3>1
    <3> QED BY <1>1, <1>4, <3>2
  <2>2. ASSUME NEW r \in Rows, Swapped(rit, r), Lookup(det, r)
        PROVE  Cardinality(U) <= Cardinality(S) + Cardinality(T)
    <3>1. S \cap T # {}
      BY <2>2 DEF SwappedRows, TrackedRows
    <3>2. Cardinality(S \cap T) # 0
      BY <1>3, <3>1, FS_EmptySet
    <3>3. Cardinality(U) = IF avoid \in S \cup T THEN Cardinality(S \cup T)
                           ELSE Cardinality(S \cup T) + 1
      BY <1>3, FS_AddElement
    <3> HIDE DEF U, S, T
    <3>4. Cardinality(U) \in Nat
      <4>1. IsFiniteSet(U)
        BY <1>3, FS_AddElement DEF U
      <4> QED BY <4>1, FS_CardinalityType
    <3> QED BY <1>1, <1>3, <1>4, <3>2, <3>3, <3>4
  <2> QED BY <2>1, <2>2
<1>6. F # {}
  <2> SUFFICES ASSUME F = {} PROVE FALSE
    OBVIOUS
  <2>1. Rows = U
    BY DEF SwappedRows, TrackedRows
  <2> HIDE DEF U, S, T, F
  <2> QED BY <1>1, <1>2, <1>5, <2>1
<1>7. Draw(F) # {}
  <2>1. F \in SUBSET Rows
    OBVIOUS
  <2> HIDE DEF F
  <2> QED BY <1>6, <2>1, RowSwapAssumption
<1> QED BY <1>7 DEF generateRandomRowAddr

LEMMA FlaggedDrawable ==
  ASSUME NEW rit, GoodRIT(rit), rit.valid_tuples <= maxValidTuples,
         NEW det \in TableType, Owned(det), NEW x \in Rows
  PROVE  Drawable(rit, det, x)
<1> DEFINE after == Access(det, x)
           a == getRemappedAddr(rit, x)
<1> SUFFICES ASSUME Detects(det, x)
             PROVE  /\ generateRandomRowAddr(rit, after, x) # {}
                    /\ Swapped(rit, x) =>
                         \A y \in generateRandomRowAddr(rit, after, x) :
                           generateRandomRowAddr(Repoint(rit, x, y), after, a) # {}
  BY DEF Drawable
<1>1. after \in TableType /\ Owned(after) /\ Lookup(after, x)
  BY AccessCounts, AccessOwned DEF Detects
<1> HIDE DEF after
<1>2. generateRandomRowAddr(rit, after, x) # {}
  BY <1>1, DrawFinds
<1>3. ASSUME Swapped(rit, x), NEW y \in generateRandomRowAddr(rit, after, x)
      PROVE  generateRandomRowAddr(Repoint(rit, x, y), after, a) # {}
  <2> DEFINE z == Repoint(rit, x, y)
  <2>1. y \in Rows /\ y # x /\ ~Swapped(rit, y)
    BY <1>3, Drawn
  <2>2. GoodRIT(z) /\ z.valid_tuples = rit.valid_tuples /\ LockedRow(z, x)
    BY <1>3, <2>1, RepointGood
  <2>3. Swapped(z, x) /\ a \in Rows
    BY <2>2, Partner DEF LockedRow
  <2> HIDE DEF z, a
  <2>4. generateRandomRowAddr(z, after, a) # {}
    BY <1>1, <2>2, <2>3, DrawFinds
  <2> QED BY <2>4 DEF z
<1> QED BY <1>2, <1>3

-----------------------------------------------------------------------------
\* What holds of the RIT, the detector and the history together.
Window(rit, det, n, flags) ==
  /\ det \in TableType /\ Owned(det)
  /\ GoodRIT(rit) /\ rit.valid_tuples <= maxValidTuples
  /\ flags \subseteq Rows /\ \A r \in flags : LockedRow(rit, r)
  /\ Budget(det, rit, n)

\* access() within a window that has room for the activation.
LEMMA AccessWindow ==
  ASSUME NEW rit, NEW det, NEW n \in Nat, n < MAX_ACTS, NEW flags, NEW row \in Rows,
         Window(rit, det, n, flags), accessIn(rit, det, n, flags, row)
  PROVE  /\ Window(t', d', n + 1, flagged') /\ acts' = n + 1
         /\ decision' \in DecisionType
         /\ decision'.mitigate =>
              getRemappedAddr(t', decision'.addr)
                \notin {decision'.addr, getRemappedAddr(rit, decision'.addr)}
<1> DEFINE M == Cardinality(Multiples(det))
           N == Cardinality(Multiples(d'))
           C == Cardinality(Cells(det))
           K == Cardinality(Cells(d'))
<1>1. /\ det \in TableType /\ Owned(det)
      /\ GoodRIT(rit) /\ rit.valid_tuples <= maxValidTuples
      /\ flags \subseteq Rows /\ \A r \in flags : LockedRow(rit, r)
      /\ IsFiniteSet(Cells(det)) /\ C <= n /\ Cardinality(Locked(rit)) <= 2 * M
      /\ Cardinality(Locked(rit)) \in Nat
  BY TupleSets DEF Window, Budget
<1>2. d' = Access(det, row) /\ acts' = n + 1
  BY DEF accessIn
<1>3. /\ d' \in TableType /\ Owned(d') /\ IsFiniteSet(Cells(d'))
      /\ K <= C + 1 /\ N = M + (IF Detects(det, row) THEN 1 ELSE 0)
  BY <1>1, <1>2, AccessCounts, AccessOwned, AccessBudget
<1>4. M \in Nat /\ N \in Nat /\ C \in Nat /\ K \in Nat /\ N * threshold <= K
  BY <1>1, <1>3, MultiplesFew, FS_CardinalityType
<1>5. N <= numEntries
  <2>1. K <= MAX_ACTS /\ MAX_ACTS \in Nat /\ N * threshold \in Nat
    BY <1>1, <1>3, <1>4, RowSwapAssumption, DetectorAssumption
  <2>2. N * threshold <= MAX_ACTS
    BY <1>4, <2>1
  <2> QED BY <1>4, <2>2, WindowMultiples
<1> HIDE DEF M, N, C, K
<1>6. CASE Detects(det, row)
  <2>1. insertTuple(rit, d', row) /\ flagged' = flags \cup {row}
    BY <1>6 DEF accessIn
  <2>2. Cardinality(Locked(rit)) + 2 <= maxValidTuples
    BY <1>1, <1>3, <1>4, <1>5, <1>6, DetectorAssumption DEF maxValidTuples
  <2>3. /\ GoodRIT(t') /\ t'.valid_tuples <= maxValidTuples
        /\ Cardinality(Locked(t')) <= Cardinality(Locked(rit)) + 2
        /\ LockedRow(t', row)
        /\ getRemappedAddr(t', row) \notin {row, getRemappedAddr(rit, row)}
        /\ \A r \in Rows : LockedRow(rit, r) => LockedRow(t', r)
        /\ decision' \in DecisionType /\ decision'.mitigate /\ decision'.addr = row
    BY <1>1, <2>1, <2>2, InsertGood
  <2>4. K <= n + 1 /\ Cardinality(Locked(t')) <= 2 * N
    <3>1. Cardinality(Locked(t')) \in Nat
      BY TupleSets
    <3> QED BY <1>1, <1>3, <1>4, <1>6, <2>3, <3>1
  <2>5. Budget(d', t', n + 1)
    BY <1>3, <2>4 DEF Budget, K, N
  <2>6. flagged' \subseteq Rows /\ \A r \in flagged' : LockedRow(t', r)
    BY <1>1, <2>1, <2>3
  <2> QED BY <1>2, <1>3, <2>3, <2>5, <2>6 DEF Window
<1>7. CASE ~Detects(det, row)
  <2>1. t' = rit /\ decision' = NoDecision /\ flagged' = flags
    BY <1>7 DEF accessIn
  <2>2. decision' \in DecisionType /\ ~decision'.mitigate
    BY <2>1, DetectorAssumption DEF NoDecision, DecisionType
  <2>3. K <= n + 1 /\ Cardinality(Locked(t')) <= 2 * N
    BY <1>1, <1>3, <1>4, <1>7, <2>1
  <2>4. Budget(d', t', n + 1)
    BY <1>3, <2>3 DEF Budget, K, N
  <2> QED BY <1>1, <1>2, <1>3, <2>1, <2>2, <2>4 DEF Window
<1> QED BY <1>6, <1>7

LEMMA NewTableEmpty ==
  /\ NewTable \in TableType /\ Owned(NewTable)
  /\ Cells(NewTable) = {}
<1>1. NewTable \in TableType
  BY DetectorAssumption DEF NewTable, TableType, Unused, Entries
<1>2. \A e \in Entries : NewTable.entries[e].count = 0
  BY DEF NewTable, Unused
<1>3. Owned(NewTable)
  BY DEF NewTable, Owned, Lookup
<1> QED BY <1>1, <1>2, <1>3 DEF Cells

\* A table without counts pays for an RIT without locks.
LEMMA EmptyBudget ==
  ASSUME NEW rit, Locked(rit) = {}
  PROVE  Budget(NewTable, rit, 0)
<1>1. Multiples(NewTable) = {}
  BY NewTableEmpty DEF Multiples
<1> QED BY <1>1, NewTableEmpty, FS_EmptySet DEF Budget

\* The inductive invariant.
IInv ==
  /\ Window(t, d, acts, flagged)
  /\ decision \in DecisionType
  /\ num_resets \in 0 .. MaxResets
  /\ acts \in 0 .. MAX_ACTS

LEMMA InitIInv == Init => IInv
<1> SUFFICES ASSUME Init PROVE IInv
  OBVIOUS
<1>1. /\ t.tuples = [i \in Tuples |-> NoTuple] /\ t.rowHasEntry = [r \in Rows |-> 0]
      /\ t.valid_tuples = 0 /\ t \in RITType
  BY RowSwapAssumption, DetectorAssumption
     DEF Init, RITType, NoTuple, TupleType
<1>2. Valid(t) = {} /\ Locked(t) = {}
  BY <1>1 DEF Valid, Locked, NoTuple
<1>3. Linked(t)
  BY <1>1 DEF Linked, Swapped, NoTuple
<1>4. GoodRIT(t)
  BY <1>1, <1>2, <1>3, FS_EmptySet DEF GoodRIT
<1>5. Window(t, d, acts, flagged)
  BY <1>1, <1>2, <1>4, NewTableEmpty, EmptyBudget, DetectorAssumption
     DEF Init, Window, maxValidTuples
<1> QED BY <1>5, RowSwapAssumption, DetectorAssumption
        DEF Init, IInv, NoDecision, DecisionType

\* One step: the invariant, and what MovesOnFlag says of the step.
LEMMA StepIInv ==
  ASSUME IInv, NEW row \in Rows, access(row)
  PROVE  /\ IInv'
         /\ decision'.mitigate =>
              getRemappedAddr(t', decision'.addr)
                \notin {decision'.addr, getRemappedAddr(t, decision'.addr)}
<1>1. CASE acts < MAX_ACTS /\ accessIn(t, d, acts, flagged, row) /\ UNCHANGED num_resets
  <2>1. acts \in Nat /\ Window(t, d, acts, flagged)
    BY RowSwapAssumption DEF IInv
  <2>2. /\ Window(t', d', acts + 1, flagged') /\ acts' = acts + 1
        /\ decision' \in DecisionType
        /\ decision'.mitigate =>
             getRemappedAddr(t', decision'.addr)
               \notin {decision'.addr, getRemappedAddr(t, decision'.addr)}
    BY <1>1, <2>1, AccessWindow
  <2>3. acts' \in 0 .. MAX_ACTS /\ num_resets' \in 0 .. MaxResets
    BY <1>1, <2>1, <2>2, RowSwapAssumption DEF IInv
  <2>4. Window(t, d, acts, flagged)'
    BY <2>2
  <2> QED BY <2>2, <2>3, <2>4 DEF IInv
<1>2. CASE /\ num_resets < MaxResets
           /\ accessIn(Unlock(t), NewTable, 0, {}, row)
           /\ num_resets' = num_resets + 1
  <2> DEFINE rit == Unlock(t)
  <2>1. /\ GoodRIT(rit) /\ rit.valid_tuples = t.valid_tuples /\ Locked(rit) = {}
        /\ \A r \in Rows : getRemappedAddr(rit, r) = getRemappedAddr(t, r)
    BY UnlockGood DEF IInv, Window
  <2> HIDE DEF rit
  <2>2. Window(rit, NewTable, 0, {})
    BY <2>1, NewTableEmpty, EmptyBudget DEF Window, IInv
  <2>3. 0 < MAX_ACTS
    <3> SUFFICES ASSUME MAX_ACTS = 0 PROVE FALSE
      BY RowSwapAssumption
    <3>1. 0 \div threshold = 0
      BY DetectorAssumption
    <3> QED BY <3>1, RowSwapAssumption, DetectorAssumption
  <2>4. /\ Window(t', d', 0 + 1, flagged') /\ acts' = 0 + 1
        /\ decision' \in DecisionType
        /\ decision'.mitigate =>
             getRemappedAddr(t', decision'.addr)
               \notin {decision'.addr, getRemappedAddr(rit, decision'.addr)}
    <3>1. accessIn(rit, NewTable, 0, {}, row)
      BY <1>2 DEF rit
    <3> QED BY <2>2, <2>3, <3>1, AccessWindow
  <2>5. acts' \in 0 .. MAX_ACTS /\ num_resets' \in 0 .. MaxResets
    BY <1>2, <2>3, <2>4, RowSwapAssumption DEF IInv
  <2>6. Window(t, d, acts, flagged)'
    BY <2>4
  <2>7. decision'.addr \in Rows
    BY <2>4 DEF DecisionType
  <2> QED BY <2>1, <2>4, <2>5, <2>6, <2>7 DEF IInv
<1> QED BY <1>1, <1>2 DEF access

LEMMA Invariance == Spec => []IInv
<1>1. IInv /\ [Next]_vars => IInv'
  <2> SUFFICES ASSUME IInv, [Next]_vars PROVE IInv'
    OBVIOUS
  <2>1. CASE UNCHANGED vars
    BY <2>1 DEF vars, IInv
  <2>2. CASE Next
    BY <2>2, StepIInv DEF Next
  <2> QED BY <2>1, <2>2
<1> QED BY <1>1, InitIInv, PTL DEF Spec

\* The RIT is its own inverse and its references, tuples and counter agree,
\* through any mix of swaps, re-swaps, evictions and resets.
THEOREM PairsUp == Spec => []SwapsPairUp
<1>1. IInv => SwapsPairUp
  <2> SUFFICES ASSUME IInv PROVE SwapsPairUp
    OBVIOUS
  <2>1. GoodRIT(t)
    BY DEF IInv, Window
  <2>2. TypeOK
    BY <2>1 DEF TypeOK, IInv, Window, GoodRIT, RITType, TupleType, DecisionType
  <2>3. ASSUME NEW r \in Rows
        PROVE  /\ getRemappedAddr(t, getRemappedAddr(t, r)) = r
               /\ Swapped(t, r) <=> getRemappedAddr(t, r) # r
    BY <2>1, Partner
  <2>4. \A r \in Rows : Swapped(t, r) =>
          TupleOf(t, r).valid /\ r \in {TupleOf(t, r).origRowID, TupleOf(t, r).remappedRowID}
    BY <2>1 DEF GoodRIT, Linked
  <2>5. t.valid_tuples = Cardinality({i \in Tuples : t.tuples[i].valid})
    BY <2>1 DEF GoodRIT, Valid
  <2> QED BY <2>2, <2>3, <2>4, <2>5 DEF SwapsPairUp
<1> QED BY <1>1, Invariance, PTL

\* The RIT that MemCtrl sizes at twice the detector's entries never holds more
\* tuples than its limit: the asserts of insertTuple() on the free place and on
\* valid_tuples cannot fail, for any threshold and number of activations.
THEOREM TuplesAlwaysFit == Spec => []TuplesFit
<1>1. IInv => TuplesFit
  BY DEF IInv, Window, TuplesFit
<1> QED BY <1>1, Invariance, PTL

\* insertTuple() always finds the rows it swaps with, the second one of a
\* re-swap included: generateRandomRowAddr() cannot fail its assertion in a
\* bank with more rows than the RIT and the detector can hold.
THEOREM RowFound == Spec => []RowAlwaysFound
<1>1. IInv => RowAlwaysFound
  <2> SUFFICES ASSUME IInv, NEW x \in Rows
               PROVE  Drawable(t, d, x) /\ Drawable(Unlock(t), NewTable, x)
    BY DEF RowAlwaysFound
  <2>1. /\ GoodRIT(t) /\ t.valid_tuples <= maxValidTuples
        /\ d \in TableType /\ Owned(d)
    BY DEF IInv, Window
  <2>2. GoodRIT(Unlock(t)) /\ Unlock(t).valid_tuples <= maxValidTuples
    BY <2>1, UnlockGood
  <2> QED BY <2>1, <2>2, NewTableEmpty, FlaggedDrawable
<1> QED BY <1>1, Invariance, PTL

\* A row flagged in the window stays swapped and locked until its end.
THEOREM StaysSwapped == Spec => []FlaggedStaysSwapped
<1>1. IInv => FlaggedStaysSwapped
  BY DEF IInv, Window, FlaggedStaysSwapped, LockedRow
<1> QED BY <1>1, Invariance, PTL

\* Every flagging sends the row to a place where it was not.
THEOREM FlagMoves == Spec => MovesOnFlag
<1>1. IInv /\ [Next]_vars =>
        [acts' # acts /\ decision'.mitigate =>
           LET r == decision'.addr IN
           getRemappedAddr(t', r) \notin {r, getRemappedAddr(t, r)}]_vars
  <2> SUFFICES ASSUME IInv, Next
               PROVE  acts' # acts /\ decision'.mitigate =>
                        LET r == decision'.addr IN
                        getRemappedAddr(t', r) \notin {r, getRemappedAddr(t, r)}
    BY DEF vars
  <2> QED BY StepIInv DEF Next
<1> QED BY <1>1, Invariance, PTL DEF Spec, MovesOnFlag
=============================================================================
