------------------------- MODULE RowQuarantineProofs -------------------------
(***************************************************************************)
(* Row quarantine for every number of rows, size of the region, grouping   *)
(* and cache.  Three of the invariant's parts (types, group counters, the  *)
(* cache) survive every piece of quarantineRow() on its own; that the two  *)
(* tables are inverse to each other is broken by its first assignment and  *)
(* only restored by its last.  That the rows of a window stay follows from *)
(* where they are: in the arc of the region that the head has covered      *)
(* since the reset, which the tail does not enter.                         *)
(***************************************************************************)
EXTENDS RowQuarantine, FiniteSetTheorems, TLAPS

Tables ==
  [row_To_QR_T   : [Rows -> QR \cup {None}],
   QR_To_Row_T   : [QR -> Rows \cup {None}],
   nextFreeQR_ID : QR,
   prevQRHead_ID : QR,
   QRTail_ID     : QR,
   bitvector     : [Groups -> Nat],
   ORR_CBF       : [Groups -> Nat],
   cache         : SUBSET Rows]

\* The quarantined rows of a group.
Members(x, g) == {r \in Rows : GroupOf(r) = g /\ Quarantined(x, r)}

Counted(x) ==
  \A g \in Groups : /\ x.bitvector[g] = Cardinality(Members(x, g))
                    /\ x.ORR_CBF[g] = Cardinality(Members(x, g))

\* What holds between any two assignments of quarantineRow().
Sound(x) ==
  /\ x \in Tables
  /\ Counted(x)
  /\ \A row \in x.cache : Quarantined(x, row)

BothWays(x) ==
  \A row \in Rows, q \in QR : x.row_To_QR_T[row] = q <=> x.QR_To_Row_T[q] = row

Good(x) == Sound(x) /\ BothWays(x)

-----------------------------------------------------------------------------
LEMMA MembersFinite ==
  ASSUME NEW x, NEW g PROVE IsFiniteSet(Members(x, g))
<1>1. IsFiniteSet(Rows)
  BY QuarantineAssumption, FS_Interval DEF Rows
<1> QED BY <1>1, FS_Subset DEF Members

LEMMA GroupOfRow == \A r \in Rows : GroupOf(r) \in Groups
BY DEF Groups

\* The place k places ahead of q in the region, without the remainder.
Ahead(q, k) == IF q + k < numQREntries THEN q + k ELSE q + k - numQREntries

LEMMA NextPlace ==
  ASSUME NEW q \in QR
  PROVE  NextQR(q) \in QR /\ NextQR(q) = Ahead(q, 1)
<1>1. numQREntries \in Nat \ {0} /\ q \in Nat /\ q < numQREntries
  BY QuarantineAssumption DEF QR
<1>2. CASE q + 1 < numQREntries
  <2>1. (q + 1) % numQREntries = q + 1
    BY <1>1, <1>2
  <2> QED BY <1>1, <1>2, <2>1 DEF NextQR, Ahead, QR
<1>3. CASE q + 1 = numQREntries
  <2>1. (q + 1) % numQREntries = 0
    BY <1>1, <1>3
  <2> QED BY <1>1, <1>3, <2>1 DEF NextQR, Ahead, QR
<1> QED BY <1>1, <1>2, <1>3

\* insertRowInCache() changes the cache only, and puts in the row.
LEMMA InsertInCache ==
  ASSUME NEW x, Sound(x), NEW row \in Rows, Quarantined(x, row),
         NEW y \in insertRowInCache(x, row)
  PROVE  /\ Sound(y)
         /\ y = [x EXCEPT !.cache = y.cache]
         /\ y.cache \subseteq x.cache \cup {row}
<1>1. PICK c \in SUBSET (x.cache \cup {row}) : y = [x EXCEPT !.cache = c]
  BY DEF insertRowInCache
<1>2. x \in Tables /\ x.cache \subseteq Rows
  BY DEF Sound, Tables
<1>3. y \in Tables /\ y.cache = c
  BY <1>1, <1>2 DEF Tables
<1>4. /\ y.row_To_QR_T = x.row_To_QR_T
      /\ y.bitvector = x.bitvector
      /\ y.ORR_CBF = x.ORR_CBF
  BY <1>1, <1>2 DEF Tables
<1>5. \A g : Members(y, g) = Members(x, g)
  BY <1>4 DEF Members, Quarantined
<1>6. Counted(y)
  BY <1>4, <1>5 DEF Sound, Counted
<1>7. \A r \in y.cache : Quarantined(y, r)
  BY <1>1, <1>3, <1>4 DEF Sound, Quarantined
<1> QED BY <1>1, <1>3, <1>6, <1>7 DEF Sound

\* The first assignments of quarantineRow() count the row in its group when
\* they put it in the {Row->QR} table.
LEMMA MapToHeadSound ==
  ASSUME NEW x, Sound(x), NEW row \in Rows
  PROVE  LET y == MapToHead(x, row)
         IN /\ Sound(y)
            /\ y.row_To_QR_T = [x.row_To_QR_T EXCEPT ![row] = x.nextFreeQR_ID]
            /\ y.QR_To_Row_T = x.QR_To_Row_T
            /\ y.nextFreeQR_ID = x.nextFreeQR_ID
            /\ y.prevQRHead_ID = x.prevQRHead_ID
            /\ y.QRTail_ID = x.QRTail_ID
<1> DEFINE y == MapToHead(x, row)
           g0 == GroupOf(row)
           up(f) == IF Quarantined(x, row) THEN f ELSE [f EXCEPT ![g0] = @ + 1]
<1>1. x \in Tables /\ x.nextFreeQR_ID \in QR /\ g0 \in Groups
  BY GroupOfRow DEF Sound, Tables
<1>2. /\ y.row_To_QR_T = [x.row_To_QR_T EXCEPT ![row] = x.nextFreeQR_ID]
      /\ y.QR_To_Row_T = x.QR_To_Row_T
      /\ y.nextFreeQR_ID = x.nextFreeQR_ID
      /\ y.prevQRHead_ID = x.prevQRHead_ID
      /\ y.QRTail_ID = x.QRTail_ID
      /\ y.bitvector = up(x.bitvector)
      /\ y.ORR_CBF = up(x.ORR_CBF)
      /\ y.cache = x.cache
  BY <1>1 DEF MapToHead, EnterGroup, Tables
<1>3. y \in Tables
  <2>1. /\ up(x.bitvector) \in [Groups -> Nat]
        /\ up(x.ORR_CBF) \in [Groups -> Nat]
        /\ [x.row_To_QR_T EXCEPT ![row] = x.nextFreeQR_ID] \in [Rows -> QR \cup {None}]
    BY <1>1 DEF Tables
  <2>2. y = [x EXCEPT !.bitvector = up(x.bitvector), !.ORR_CBF = up(x.ORR_CBF),
                      !.row_To_QR_T = [x.row_To_QR_T EXCEPT ![row] = x.nextFreeQR_ID]]
    BY <1>1 DEF MapToHead, EnterGroup, Tables
  <2> HIDE DEF up, y
  <2> QED BY <1>1, <2>1, <2>2 DEF Tables
<1> HIDE DEF y
<1>4. x.nextFreeQR_ID # None
  BY <1>1, NoneAssumption
<1>5. ASSUME NEW g \in Groups
      PROVE  /\ y.bitvector[g] = Cardinality(Members(y, g))
             /\ y.ORR_CBF[g] = Cardinality(Members(y, g))
  <2>1. /\ x.bitvector[g] = Cardinality(Members(x, g))
        /\ x.ORR_CBF[g] = Cardinality(Members(x, g))
    BY DEF Sound, Counted
  <2>2. Members(y, g) = IF g = g0 THEN Members(x, g) \cup {row} ELSE Members(x, g)
    BY <1>1, <1>2, <1>4 DEF Members, Quarantined, Tables
  <2>3. row \in Members(x, g0) <=> Quarantined(x, row)
    BY DEF Members
  <2>4. Cardinality(Members(x, g) \cup {row})
          = IF row \in Members(x, g) THEN Cardinality(Members(x, g))
            ELSE Cardinality(Members(x, g)) + 1
    BY MembersFinite, FS_AddElement
  <2>5. /\ y.bitvector[g] = IF Quarantined(x, row) \/ g # g0 THEN x.bitvector[g]
                            ELSE x.bitvector[g] + 1
        /\ y.ORR_CBF[g] = IF Quarantined(x, row) \/ g # g0 THEN x.ORR_CBF[g]
                          ELSE x.ORR_CBF[g] + 1
    BY <1>1, <1>2 DEF Tables
  <2> HIDE DEF g0
  <2> QED BY <2>1, <2>2, <2>3, <2>4, <2>5
<1>6. \A r \in y.cache : Quarantined(y, r)
  BY <1>1, <1>2, <1>4 DEF Sound, Quarantined, Tables
<1>7. Sound(y)
  BY <1>3, <1>5, <1>6 DEF Sound, Counted
<1> QED BY <1>2, <1>7 DEF y

\* removeRow() of a place whose row is counted as quarantined.
LEMMA RemoveRowSound ==
  ASSUME NEW x, Sound(x), NEW q \in QR, x.QR_To_Row_T[q] \in Rows,
         Quarantined(x, x.QR_To_Row_T[q])
  PROVE  LET y == removeRow(x, q)
         IN /\ Sound(y)
            /\ y.row_To_QR_T = [x.row_To_QR_T EXCEPT ![x.QR_To_Row_T[q]] = None]
            /\ y.QR_To_Row_T = [x.QR_To_Row_T EXCEPT ![q] = None]
            /\ y.nextFreeQR_ID = x.nextFreeQR_ID
            /\ y.prevQRHead_ID = x.prevQRHead_ID
            /\ y.QRTail_ID = x.QRTail_ID
<1> DEFINE y == removeRow(x, q)
           b == x.QR_To_Row_T[q]
           g0 == GroupOf(b)
           down(f) == [f EXCEPT ![g0] = @ - 1]
<1>1. x \in Tables /\ b \in Rows /\ g0 \in Groups
  BY GroupOfRow DEF Sound, Tables
<1>2. ASSUME NEW g \in Groups
      PROVE  /\ x.bitvector[g] = Cardinality(Members(x, g))
             /\ x.ORR_CBF[g] = Cardinality(Members(x, g))
             /\ Cardinality(Members(x, g)) \in Nat
             /\ Cardinality(Members(x, g) \ {b})
                  = IF b \in Members(x, g) THEN Cardinality(Members(x, g)) - 1
                    ELSE Cardinality(Members(x, g))
             /\ Cardinality(Members(x, g) \ {b}) \in Nat
  <2>1. Cardinality(Members(x, g)) \in Nat
    BY MembersFinite, FS_CardinalityType
  <2>2. IsFiniteSet(Members(x, g) \ {b})
    BY MembersFinite, FS_RemoveElement
  <2> QED BY <2>1, <2>2, MembersFinite, FS_RemoveElement, FS_CardinalityType
          DEF Sound, Counted
<1>3. \A g \in Groups : b \in Members(x, g) <=> g = g0
  BY <1>1 DEF Members
<1>4. /\ y.row_To_QR_T = [x.row_To_QR_T EXCEPT ![b] = None]
      /\ y.QR_To_Row_T = [x.QR_To_Row_T EXCEPT ![q] = None]
      /\ y.nextFreeQR_ID = x.nextFreeQR_ID
      /\ y.prevQRHead_ID = x.prevQRHead_ID
      /\ y.QRTail_ID = x.QRTail_ID
      /\ y.bitvector = down(x.bitvector)
      /\ y.ORR_CBF = down(x.ORR_CBF)
      /\ y.cache = x.cache \ {b}
  BY <1>1 DEF removeRow, Tables
<1>5. /\ down(x.bitvector) \in [Groups -> Nat]
      /\ down(x.ORR_CBF) \in [Groups -> Nat]
  <2>1. x.bitvector[g0] - 1 \in Nat /\ x.ORR_CBF[g0] - 1 \in Nat
    BY <1>1, <1>2, <1>3
  <2> QED BY <1>1, <2>1 DEF Tables
<1>6. y \in Tables
  <2>1. /\ [x.row_To_QR_T EXCEPT ![b] = None] \in [Rows -> QR \cup {None}]
        /\ [x.QR_To_Row_T EXCEPT ![q] = None] \in [QR -> Rows \cup {None}]
        /\ x.cache \ {b} \in SUBSET Rows
    BY <1>1 DEF Tables
  <2>2. y = [x EXCEPT !.QR_To_Row_T = [x.QR_To_Row_T EXCEPT ![q] = None],
                      !.row_To_QR_T = [x.row_To_QR_T EXCEPT ![b] = None],
                      !.bitvector = down(x.bitvector),
                      !.ORR_CBF = down(x.ORR_CBF),
                      !.cache = x.cache \ {b}]
    BY <1>1 DEF removeRow, Tables
  <2> HIDE DEF y, b, down
  <2> QED BY <1>1, <1>5, <2>1, <2>2 DEF Tables
<1> HIDE DEF y, b
<1>7. ASSUME NEW g \in Groups
      PROVE  /\ y.bitvector[g] = Cardinality(Members(y, g))
             /\ y.ORR_CBF[g] = Cardinality(Members(y, g))
  <2>1. Members(y, g) = Members(x, g) \ {b}
    BY <1>1, <1>4 DEF Members, Quarantined, Tables
  <2>2. /\ y.bitvector[g] = IF g = g0 THEN x.bitvector[g] - 1 ELSE x.bitvector[g]
        /\ y.ORR_CBF[g] = IF g = g0 THEN x.ORR_CBF[g] - 1 ELSE x.ORR_CBF[g]
    BY <1>1, <1>4 DEF Tables
  <2> HIDE DEF g0
  <2> QED BY <1>2, <1>3, <2>1, <2>2
<1>8. \A r \in y.cache : Quarantined(y, r)
  BY <1>1, <1>4 DEF Sound, Quarantined, Tables
<1>9. Sound(y)
  BY <1>6, <1>7, <1>8 DEF Sound, Counted
<1> QED BY <1>4, <1>9 DEF y, b

\* A place that is taken holds a quarantined row.
LEMMA TakenPlace ==
  ASSUME NEW x, Good(x), NEW q \in QR, x.QR_To_Row_T[q] # None
  PROVE  /\ x.QR_To_Row_T[q] \in Rows
         /\ x.row_To_QR_T[x.QR_To_Row_T[q]] = q
         /\ Quarantined(x, x.QR_To_Row_T[q])
<1>1. x.QR_To_Row_T[q] \in Rows
  BY DEF Good, Sound, Tables
<1> QED BY <1>1, NoneAssumption DEF Good, BothWays, Quarantined

\* drainRow(): the tail's row leaves both tables.
LEMMA DrainGood ==
  ASSUME NEW x, Good(x)
  PROVE  /\ Good(drainRow(x))
         /\ drainRow(x).nextFreeQR_ID = x.nextFreeQR_ID
         /\ drainRow(x).prevQRHead_ID = x.prevQRHead_ID
         /\ IF Drainable(x)
            THEN /\ drainRow(x).QRTail_ID = NextQR(x.QRTail_ID)
                 /\ drainRow(x).row_To_QR_T
                      = [x.row_To_QR_T EXCEPT ![x.QR_To_Row_T[x.QRTail_ID]] = None]
            ELSE drainRow(x) = x
<1>1. CASE ~Drainable(x)
  BY <1>1 DEF drainRow
<1>2. CASE Drainable(x)
  <2> DEFINE q == x.QRTail_ID
             b == x.QR_To_Row_T[q]
             y == removeRow(x, q)
             z == drainRow(x)
  <2>1. x \in Tables /\ q \in QR
    BY DEF Good, Sound, Tables
  <2>2. b \in Rows /\ x.row_To_QR_T[b] = q /\ Quarantined(x, b)
    BY <1>2, <2>1, TakenPlace DEF Drainable
  <2>3. /\ Sound(y)
        /\ y.row_To_QR_T = [x.row_To_QR_T EXCEPT ![b] = None]
        /\ y.QR_To_Row_T = [x.QR_To_Row_T EXCEPT ![q] = None]
        /\ y.nextFreeQR_ID = x.nextFreeQR_ID
        /\ y.prevQRHead_ID = x.prevQRHead_ID
        /\ y.QRTail_ID = q
    BY <2>1, <2>2, RemoveRowSound DEF Good
  <2>4. z = [y EXCEPT !.QRTail_ID = NextQR(@)]
    BY <1>2 DEF drainRow
  <2> HIDE DEF y, z
  <2>5. y \in Tables /\ NextQR(y.QRTail_ID) \in QR
    BY <2>3, NextPlace DEF Sound, Tables
  <2>6. /\ z \in Tables
        /\ z.row_To_QR_T = y.row_To_QR_T /\ z.QR_To_Row_T = y.QR_To_Row_T
        /\ z.nextFreeQR_ID = y.nextFreeQR_ID /\ z.prevQRHead_ID = y.prevQRHead_ID
        /\ z.QRTail_ID = NextQR(y.QRTail_ID)
        /\ z.bitvector = y.bitvector /\ z.ORR_CBF = y.ORR_CBF /\ z.cache = y.cache
    BY <2>4, <2>5 DEF Tables
  <2>7. Sound(z)
    BY <2>3, <2>6 DEF Sound, Counted, Members, Quarantined
  <2>8. BothWays(z)
    <3> SUFFICES ASSUME NEW r \in Rows, NEW p \in QR
                 PROVE  z.row_To_QR_T[r] = p <=> z.QR_To_Row_T[p] = r
      BY DEF BothWays
    <3>1. x.row_To_QR_T[r] = p <=> x.QR_To_Row_T[p] = r
      BY DEF Good, BothWays
    <3> QED BY <2>1, <2>2, <2>3, <2>6, <3>1, NoneAssumption DEF Tables
  <2>9. Good(z) /\ Drainable(x)
    BY <1>2, <2>7, <2>8 DEF Good
  <2> QED BY <2>3, <2>6, <2>9 DEF z
<1> QED BY <1>1, <1>2

\* Only the {Row->QR} table, the counters and the cache matter to Sound.
LEMMA SoundSame ==
  ASSUME NEW x, Sound(x), NEW y \in Tables,
         y.row_To_QR_T = x.row_To_QR_T, y.bitvector = x.bitvector,
         y.ORR_CBF = x.ORR_CBF, y.cache = x.cache
  PROVE  Sound(y)
BY DEF Sound, Counted, Members, Quarantined

LEMMA CacheRowSound ==
  ASSUME NEW x, Sound(x), NEW row \in Rows, Quarantined(x, row),
         NEW y \in CacheRow(x, row)
  PROVE  Sound(y) /\ y = [x EXCEPT !.cache = y.cache]
<1>1. CASE row \in x.cache
  <2>1. y = x
    BY <1>1 DEF CacheRow
  <2> QED BY <2>1 DEF Sound, Tables
<1>2. CASE row \notin x.cache
  BY <1>2, InsertInCache DEF CacheRow
<1> QED BY <1>1, <1>2

\* What quarantineRow() does to the tables and the pointers.  The row that was
\* in the head's place is evicted; if it is the flagged row itself, the row
\* ends outside quarantine.
Displaced(x, row) ==
  [r \in Rows |-> IF r = row
                  THEN IF x.row_To_QR_T[row] = x.nextFreeQR_ID THEN None
                       ELSE x.nextFreeQR_ID
                  ELSE IF r = x.QR_To_Row_T[x.nextFreeQR_ID] THEN None
                  ELSE x.row_To_QR_T[r]]

Filled(x, row) ==
  [p \in QR |-> IF p = x.row_To_QR_T[row] THEN None
                ELSE IF p = x.nextFreeQR_ID THEN row
                ELSE x.QR_To_Row_T[p]]

LEMMA QuarantineFacts ==
  ASSUME NEW x, Good(x), NEW row \in Rows, NEW z \in quarantineRow(x, row)
  PROVE  /\ Sound(z)
         /\ z.row_To_QR_T = Displaced(x, row)
         /\ z.QR_To_Row_T = Filled(x, row)
         /\ z.nextFreeQR_ID = NextQR(x.nextFreeQR_ID)
         /\ z.prevQRHead_ID = x.prevQRHead_ID
         /\ z.QRTail_ID = IF /\ x.nextFreeQR_ID = x.QRTail_ID
                             /\ x.nextFreeQR_ID # x.prevQRHead_ID
                          THEN NextQR(x.QRTail_ID) ELSE x.QRTail_ID
<1> DEFINE h == x.nextFreeQR_ID
           from == x.row_To_QR_T[row]
           b == x.QR_To_Row_T[h]
           x1 == MapToHead(x, row)
<1>1. /\ x \in Tables /\ h \in QR /\ from \in QR \cup {None} /\ b \in Rows \cup {None}
      /\ x.row_To_QR_T \in [Rows -> QR \cup {None}]
      /\ x.QR_To_Row_T \in [QR -> Rows \cup {None}]
      /\ h # None /\ None \notin Rows /\ None \notin QR
  BY NoneAssumption DEF Good, Sound, Tables
<1>2. /\ Sound(x1)
      /\ x1.row_To_QR_T = [x.row_To_QR_T EXCEPT ![row] = h]
      /\ x1.QR_To_Row_T = x.QR_To_Row_T
      /\ x1.nextFreeQR_ID = h
      /\ x1.prevQRHead_ID = x.prevQRHead_ID
      /\ x1.QRTail_ID = x.QRTail_ID
  BY MapToHeadSound DEF Good
<1>3. PICK y \in CacheRow(x1, row) : z = AdvanceHead(FillHead(y, row, from))
  BY DEF quarantineRow
<1> HIDE DEF x1
<1>4. Quarantined(x1, row)
  BY <1>1, <1>2 DEF Quarantined
<1>5. /\ Sound(y) /\ y \in Tables
      /\ y.row_To_QR_T = [x.row_To_QR_T EXCEPT ![row] = h]
      /\ y.QR_To_Row_T = x.QR_To_Row_T
      /\ y.nextFreeQR_ID = h
      /\ y.prevQRHead_ID = x.prevQRHead_ID
      /\ y.QRTail_ID = x.QRTail_ID
  <2>1. Sound(y) /\ y = [x1 EXCEPT !.cache = y.cache]
    BY <1>2, <1>4, CacheRowSound
  <2>2. x1 \in Tables /\ y \in Tables
    BY <1>2, <2>1 DEF Sound
  <2>3. /\ y.row_To_QR_T = x1.row_To_QR_T
        /\ y.QR_To_Row_T = x1.QR_To_Row_T
        /\ y.nextFreeQR_ID = x1.nextFreeQR_ID
        /\ y.prevQRHead_ID = x1.prevQRHead_ID
        /\ y.QRTail_ID = x1.QRTail_ID
    BY <2>1, <2>2 DEF Tables
  <2> QED BY <1>2, <2>1, <2>2, <2>3
<1> DEFINE w == IF b # None THEN removeRow(y, h) ELSE y
           f == FillHead(y, row, from)
<1>6. /\ Sound(w) /\ w \in Tables
      /\ w.row_To_QR_T = Displaced(x, row)
      /\ w.QR_To_Row_T = [x.QR_To_Row_T EXCEPT ![h] = None]
      /\ w.nextFreeQR_ID = h
      /\ w.prevQRHead_ID = x.prevQRHead_ID
      /\ w.QRTail_ID = x.QRTail_ID
  <2>1. CASE b = None
    <3>1. x.row_To_QR_T[row] # h
      BY <1>1, <2>1 DEF Good, BothWays
    <3>2. w = y
      BY <2>1
    <3>3. [x.row_To_QR_T EXCEPT ![row] = h] = Displaced(x, row)
      BY <1>1, <2>1, <3>1 DEF Displaced
    <3>4. [x.QR_To_Row_T EXCEPT ![h] = None] = x.QR_To_Row_T
      BY <1>1, <2>1
    <3> QED BY <1>5, <3>2, <3>3, <3>4
  <2>2. CASE b # None
    <3>1. b \in Rows /\ x.row_To_QR_T[b] = h
      BY <1>1, <2>2, TakenPlace
    <3>2. y.QR_To_Row_T[h] = b /\ Quarantined(y, b)
      BY <1>1, <1>5, <3>1 DEF Quarantined
    <3>3. w = removeRow(y, h)
      BY <2>2
    <3> HIDE DEF w
    <3>4. /\ Sound(w)
          /\ w.row_To_QR_T = [y.row_To_QR_T EXCEPT ![b] = None]
          /\ w.QR_To_Row_T = [y.QR_To_Row_T EXCEPT ![h] = None]
          /\ w.nextFreeQR_ID = y.nextFreeQR_ID
          /\ w.prevQRHead_ID = y.prevQRHead_ID
          /\ w.QRTail_ID = y.QRTail_ID
      BY <1>1, <1>5, <3>1, <3>2, <3>3, RemoveRowSound
    <3>5. row = b <=> x.row_To_QR_T[row] = h
      BY <1>1 DEF Good, BothWays
    <3>6. w.row_To_QR_T = Displaced(x, row)
      BY <1>1, <1>5, <3>1, <3>4, <3>5 DEF Displaced
    <3> QED BY <1>5, <3>4, <3>6 DEF Sound
  <2> QED BY <2>1, <2>2
<1>7. /\ Sound(f) /\ f \in Tables
      /\ f.row_To_QR_T = w.row_To_QR_T
      /\ f.QR_To_Row_T = Filled(x, row)
      /\ f.nextFreeQR_ID = h
      /\ f.prevQRHead_ID = x.prevQRHead_ID
      /\ f.QRTail_ID = x.QRTail_ID
  <2> DEFINE v == [w EXCEPT !.QR_To_Row_T[h] = row]
  <2>1. f = IF from = None THEN v ELSE [v EXCEPT !.QR_To_Row_T[from] = None]
    BY <1>5 DEF FillHead
  <2> HIDE DEF w, f
  <2>2. f = [w EXCEPT !.QR_To_Row_T = Filled(x, row)]
    <3>1. CASE from = None
      <4>1. f = [w EXCEPT !.QR_To_Row_T = [w.QR_To_Row_T EXCEPT ![h] = row]]
        BY <2>1, <3>1
      <4>2. [w.QR_To_Row_T EXCEPT ![h] = row] = Filled(x, row)
        BY <1>1, <1>6, <3>1 DEF Filled
      <4> QED BY <4>1, <4>2
    <3>2. CASE from # None
      <4>1. f = [w EXCEPT !.QR_To_Row_T =
                   [[w.QR_To_Row_T EXCEPT ![h] = row] EXCEPT ![from] = None]]
        BY <1>6, <2>1, <3>2 DEF Tables
      <4>2. [[w.QR_To_Row_T EXCEPT ![h] = row] EXCEPT ![from] = None] = Filled(x, row)
        BY <1>1, <1>6, <3>2 DEF Filled
      <4> QED BY <4>1, <4>2
    <3> QED BY <3>1, <3>2
  <2>3. Filled(x, row) \in [QR -> Rows \cup {None}]
    BY <1>1 DEF Filled
  <2>4. /\ f \in Tables
        /\ f.row_To_QR_T = w.row_To_QR_T
        /\ f.QR_To_Row_T = Filled(x, row)
        /\ f.nextFreeQR_ID = w.nextFreeQR_ID
        /\ f.prevQRHead_ID = w.prevQRHead_ID
        /\ f.QRTail_ID = w.QRTail_ID
        /\ f.bitvector = w.bitvector /\ f.ORR_CBF = w.ORR_CBF /\ f.cache = w.cache
    BY <1>6, <2>2, <2>3 DEF Tables
  <2>5. Sound(f)
    BY <1>6, <2>4, SoundSame
  <2> QED BY <1>6, <2>4, <2>5
<1> HIDE DEF f, w
<1>8. NextQR(h) \in QR /\ NextQR(x.QRTail_ID) \in QR /\ x.QRTail_ID \in QR
  BY <1>1, NextPlace DEF Tables
<1>9. z = AdvanceHead(f)
  BY <1>3 DEF f
<1>10. /\ z \in Tables
       /\ z.row_To_QR_T = f.row_To_QR_T
       /\ z.QR_To_Row_T = f.QR_To_Row_T
       /\ z.nextFreeQR_ID = NextQR(h)
       /\ z.prevQRHead_ID = f.prevQRHead_ID
       /\ z.QRTail_ID = IF h = x.QRTail_ID /\ h # x.prevQRHead_ID
                        THEN NextQR(x.QRTail_ID) ELSE x.QRTail_ID
       /\ z.bitvector = f.bitvector /\ z.ORR_CBF = f.ORR_CBF /\ z.cache = f.cache
  BY <1>7, <1>8, <1>9 DEF AdvanceHead, Tables
<1>11. Sound(z)
  BY <1>7, <1>10, SoundSame
<1> QED BY <1>6, <1>7, <1>10, <1>11

\* The tables are inverse to each other again when quarantineRow() is done.
LEMMA QuarantineGood ==
  ASSUME NEW x, Good(x), NEW row \in Rows, NEW z \in quarantineRow(x, row)
  PROVE  Good(z)
<1> DEFINE h == x.nextFreeQR_ID
<1>1. /\ h \in QR /\ None \notin Rows /\ None \notin QR
      /\ x.row_To_QR_T \in [Rows -> QR \cup {None}]
      /\ x.QR_To_Row_T \in [QR -> Rows \cup {None}]
  BY NoneAssumption DEF Good, Sound, Tables
<1>2. /\ Sound(z)
      /\ z.row_To_QR_T = Displaced(x, row)
      /\ z.QR_To_Row_T = Filled(x, row)
  BY QuarantineFacts
<1>3. ASSUME NEW r \in Rows, NEW p \in QR
      PROVE  z.row_To_QR_T[r] = p <=> z.QR_To_Row_T[p] = r
  <2>1. /\ x.row_To_QR_T[r] = p <=> x.QR_To_Row_T[p] = r
        /\ x.row_To_QR_T[row] = p <=> x.QR_To_Row_T[p] = row
        /\ x.row_To_QR_T[r] = h <=> x.QR_To_Row_T[h] = r
        /\ x.row_To_QR_T[row] = h <=> x.QR_To_Row_T[h] = row
    BY <1>1 DEF Good, BothWays
  <2> QED BY <1>1, <1>2, <2>1 DEF Displaced, Filled
<1> QED BY <1>2, <1>3 DEF Good, BothWays

\* addQCheckDelay() brings quarantined rows into the cache and changes nothing
\* else.
LEMMA CheckGood ==
  ASSUME NEW x, Good(x), NEW row \in Rows, NEW y \in addQCheckDelay(x, row)
  PROVE  /\ Good(y)
         /\ y.row_To_QR_T = x.row_To_QR_T
         /\ y.nextFreeQR_ID = x.nextFreeQR_ID
         /\ y.prevQRHead_ID = x.prevQRHead_ID
         /\ y.QRTail_ID = x.QRTail_ID
<1>1. CASE y = x
  BY <1>1
<1>2. CASE y # x
  <2>1. PICK r \in Fetched(x, row) : y \in insertRowInCache(x, r)
    BY <1>2 DEF addQCheckDelay
  <2>2. r \in Rows /\ Quarantined(x, r)
    BY DEF Fetched
  <2>3. Sound(y) /\ y = [x EXCEPT !.cache = y.cache]
    BY <2>1, <2>2, InsertInCache DEF Good
  <2>4. x \in Tables /\ y \in Tables
    BY <2>3 DEF Good, Sound
  <2>5. /\ y.row_To_QR_T = x.row_To_QR_T
        /\ y.QR_To_Row_T = x.QR_To_Row_T
        /\ y.nextFreeQR_ID = x.nextFreeQR_ID
        /\ y.prevQRHead_ID = x.prevQRHead_ID
        /\ y.QRTail_ID = x.QRTail_ID
    BY <2>3, <2>4 DEF Tables
  <2> QED BY <2>3, <2>5 DEF Good, BothWays
<1> QED BY <1>1, <1>2

LEMMA ResetGood ==
  ASSUME NEW x, Good(x)
  PROVE  /\ Good(reset(x))
         /\ reset(x).nextFreeQR_ID = x.nextFreeQR_ID
         /\ reset(x).prevQRHead_ID = x.nextFreeQR_ID
         /\ reset(x).QRTail_ID = x.QRTail_ID
<1> DEFINE y == reset(x)
<1>1. x \in Tables /\ x.nextFreeQR_ID \in QR
  BY DEF Good, Sound, Tables
<1>2. y = [x EXCEPT !.prevQRHead_ID = x.nextFreeQR_ID]
  BY DEF reset
<1>3. /\ y \in Tables
      /\ y.row_To_QR_T = x.row_To_QR_T
      /\ y.QR_To_Row_T = x.QR_To_Row_T
      /\ y.nextFreeQR_ID = x.nextFreeQR_ID
      /\ y.prevQRHead_ID = x.nextFreeQR_ID
      /\ y.QRTail_ID = x.QRTail_ID
      /\ y.bitvector = x.bitvector /\ y.ORR_CBF = x.ORR_CBF /\ y.cache = x.cache
  BY <1>1, <1>2 DEF Tables
<1> HIDE DEF y
<1>4. Sound(y)
  BY <1>3, SoundSame DEF Good
<1>5. BothWays(y)
  BY <1>3 DEF Good, BothWays
<1> QED BY <1>3, <1>4, <1>5 DEF Good, y

-----------------------------------------------------------------------------
\* The arc of the region that the head has covered since the reset, m places
\* from prevQRHead_ID on: the rows F of the window are in it, the head is at
\* its end and the tail has gone round to prevQRHead_ID or is beyond the head.
Arc(x, m, F) ==
  m <= numQREntries =>
    /\ x.nextFreeQR_ID = Ahead(x.prevQRHead_ID, m)
    /\ \E j \in 1 .. numQREntries :
         j >= m /\ x.QRTail_ID = Ahead(x.prevQRHead_ID, j)
    /\ \A r \in F : \E i \in 0 .. m - 1 : x.row_To_QR_T[r] = Ahead(x.prevQRHead_ID, i)

LEMMA AheadPlaces ==
  ASSUME NEW q \in QR
  PROVE  /\ Ahead(q, 0) = q /\ Ahead(q, numQREntries) = q
         /\ \A k \in 0 .. numQREntries : Ahead(q, k) \in QR
         /\ \A k \in 0 .. numQREntries - 1 : NextQR(Ahead(q, k)) = Ahead(q, k + 1)
         /\ \A k, l \in 0 .. numQREntries - 1 : Ahead(q, k) = Ahead(q, l) => k = l
         /\ \A p \in QR : \E k \in 1 .. numQREntries : p = Ahead(q, k)
<1>1. numQREntries \in Nat \ {0} /\ q \in Nat /\ q < numQREntries
  BY QuarantineAssumption DEF QR
<1>2. \A k \in 0 .. numQREntries : Ahead(q, k) \in QR
  BY <1>1 DEF Ahead, QR
<1>3. ASSUME NEW k \in 0 .. numQREntries - 1
      PROVE  NextQR(Ahead(q, k)) = Ahead(q, k + 1)
  <2>1. Ahead(q, k) \in QR
    BY <1>1, <1>2
  <2>2. NextQR(Ahead(q, k)) = Ahead(Ahead(q, k), 1)
    BY <2>1, NextPlace
  <2> QED BY <1>1, <2>2 DEF Ahead
<1>4. ASSUME NEW p \in QR
      PROVE  \E k \in 1 .. numQREntries : p = Ahead(q, k)
  <2> DEFINE k == IF p > q THEN p - q ELSE p - q + numQREntries
  <2>1. k \in 1 .. numQREntries /\ p = Ahead(q, k)
    BY <1>1 DEF Ahead, QR
  <2> QED BY <2>1
<1>5. \A k, l \in 0 .. numQREntries - 1 : Ahead(q, k) = Ahead(q, l) => k = l
  BY <1>1 DEF Ahead
<1>6. Ahead(q, 0) = q /\ Ahead(q, numQREntries) = q
  BY <1>1 DEF Ahead
<1> QED BY <1>2, <1>3, <1>4, <1>5, <1>6

\* A reset starts an empty arc.
LEMMA ResetArc ==
  ASSUME NEW x, Good(x) PROVE Arc(reset(x), 0, {})
<1>1. x.nextFreeQR_ID \in QR /\ x.QRTail_ID \in QR
  BY DEF Good, Sound, Tables
<1>2. /\ reset(x).nextFreeQR_ID = x.nextFreeQR_ID
      /\ reset(x).prevQRHead_ID = x.nextFreeQR_ID
      /\ reset(x).QRTail_ID = x.QRTail_ID
  BY ResetGood
<1>3. x.nextFreeQR_ID = Ahead(x.nextFreeQR_ID, 0)
  BY <1>1, AheadPlaces
<1>4. PICK j \in 1 .. numQREntries : x.QRTail_ID = Ahead(x.nextFreeQR_ID, j)
  BY <1>1, AheadPlaces
<1>5. j >= 0
  BY QuarantineAssumption
<1> QED BY <1>2, <1>3, <1>4, <1>5 DEF Arc

\* A drain leaves the arc alone: it removes the row at the tail.
LEMMA DrainArc ==
  ASSUME NEW x, Good(x), NEW m \in Nat, NEW F \in SUBSET Rows, Arc(x, m, F)
  PROVE  Arc(drainRow(x), m, F)
<1> DEFINE y == drainRow(x)
           p == x.prevQRHead_ID
           t == x.QRTail_ID
           b == x.QR_To_Row_T[t]
<1>1. p \in QR /\ t \in QR /\ numQREntries \in Nat \ {0}
      /\ x.row_To_QR_T \in [Rows -> QR \cup {None}]
  BY QuarantineAssumption DEF Good, Sound, Tables
<1>2. CASE ~Drainable(x)
  BY <1>2, DrainGood
<1>3. CASE Drainable(x) /\ m <= numQREntries
  <2>1. /\ y.nextFreeQR_ID = x.nextFreeQR_ID
        /\ y.prevQRHead_ID = p
        /\ y.QRTail_ID = NextQR(t)
        /\ y.row_To_QR_T = [x.row_To_QR_T EXCEPT ![b] = None]
    BY <1>3, DrainGood
  <2> HIDE DEF y
  <2>2. PICK j \in 1 .. numQREntries : j >= m /\ t = Ahead(p, j)
    BY <1>3 DEF Arc
  <2>3. j # numQREntries
    BY <1>1, <1>3, <2>2, AheadPlaces DEF Drainable
  <2>4. y.QRTail_ID = Ahead(p, j + 1) /\ j + 1 \in 1 .. numQREntries /\ j + 1 >= m
    <3>1. j \in 0 .. numQREntries - 1
      BY <1>1, <2>3
    <3>2. NextQR(Ahead(p, j)) = Ahead(p, j + 1)
      BY <1>1, <3>1, AheadPlaces
    <3> QED BY <1>1, <2>1, <2>2, <2>3, <3>2
  <2>5. x.row_To_QR_T[b] = t
    BY <1>1, <1>3, TakenPlace DEF Drainable
  <2>6. ASSUME NEW r \in F
        PROVE  \E i \in 0 .. m - 1 : y.row_To_QR_T[r] = Ahead(p, i)
    <3>1. PICK i \in 0 .. m - 1 : x.row_To_QR_T[r] = Ahead(p, i)
      BY <1>3 DEF Arc
    <3>2. Ahead(p, i) # t
      <4>1. /\ i \in 0 .. numQREntries - 1 /\ j \in 0 .. numQREntries - 1
            /\ i # j
        BY <1>1, <1>3, <2>2, <2>3
      <4>2. \A k, l \in 0 .. numQREntries - 1 : Ahead(p, k) = Ahead(p, l) => k = l
        BY <1>1, AheadPlaces
      <4> QED BY <2>2, <4>1, <4>2
    <3>3. y.row_To_QR_T[r] = x.row_To_QR_T[r]
      BY <1>1, <2>1, <2>5, <3>1, <3>2
    <3> QED BY <3>1, <3>3
  <2> QED BY <1>3, <2>1, <2>4, <2>6 DEF Arc, y
<1> QED BY <1>2, <1>3 DEF Arc

\* A flagged row takes the place at the end of the arc, unless it was in that
\* very place; no row of the arc is displaced.
LEMMA QuarantineArc ==
  ASSUME NEW x, Good(x), NEW m \in Nat, NEW F \in SUBSET Rows, Arc(x, m, F),
         NEW row \in Rows, NEW z \in quarantineRow(x, row)
  PROVE  Arc(z, m + 1, IF Quarantined(z, row) THEN F \cup {row} ELSE F)
<1> DEFINE N == numQREntries
           p == x.prevQRHead_ID
           h == x.nextFreeQR_ID
           t == x.QRTail_ID
           G == IF Quarantined(z, row) THEN F \cup {row} ELSE F
<1>1. /\ p \in QR /\ h \in QR /\ t \in QR /\ N \in Nat \ {0}
      /\ x.row_To_QR_T \in [Rows -> QR \cup {None}]
      /\ h # None
  BY QuarantineAssumption, NoneAssumption DEF Good, Sound, Tables
<1>2. /\ z.row_To_QR_T = Displaced(x, row)
      /\ z.nextFreeQR_ID = NextQR(h)
      /\ z.prevQRHead_ID = p
      /\ z.QRTail_ID = IF h = t /\ h # p THEN NextQR(t) ELSE t
  BY QuarantineFacts
<1> SUFFICES ASSUME m + 1 <= N
             PROVE  /\ z.nextFreeQR_ID = Ahead(p, m + 1)
                    /\ \E j \in 1 .. N : j >= m + 1 /\ z.QRTail_ID = Ahead(p, j)
                    /\ \A r \in G : \E i \in 0 .. (m + 1) - 1 :
                         z.row_To_QR_T[r] = Ahead(p, i)
  BY <1>2 DEF Arc
<1>3. /\ h = Ahead(p, m)
      /\ \E j \in 1 .. N : j >= m /\ t = Ahead(p, j)
      /\ \A r \in F : \E i \in 0 .. m - 1 : x.row_To_QR_T[r] = Ahead(p, i)
  BY <1>1 DEF Arc
<1>4. /\ Ahead(p, 0) = p /\ Ahead(p, N) = p
      /\ \A k \in 0 .. N - 1 : NextQR(Ahead(p, k)) = Ahead(p, k + 1)
      /\ \A k, l \in 0 .. N - 1 : Ahead(p, k) = Ahead(p, l) => k = l
  BY <1>1, AheadPlaces
<1> HIDE DEF p, h, t, N, G
<1>5. m \in 0 .. N - 1
  BY <1>1
<1>6. z.nextFreeQR_ID = Ahead(p, m + 1)
  BY <1>2, <1>3, <1>4, <1>5
<1>7. \E j \in 1 .. N : j >= m + 1 /\ z.QRTail_ID = Ahead(p, j)
  <2>1. PICK j \in 1 .. N : j >= m /\ t = Ahead(p, j)
    BY <1>3
  <2>2. CASE j = N
    <3>1. t = p
      BY <1>4, <2>1, <2>2
    <3>2. z.QRTail_ID = t
      BY <1>2, <3>1
    <3> QED BY <1>1, <1>5, <2>1, <2>2, <3>2
  <2>3. CASE j # N /\ j = m
    <3>1. h = t /\ 0 \in 0 .. N - 1 /\ m # 0
      BY <1>1, <1>3, <2>1, <2>3
    <3>2. h # p
      BY <1>3, <1>4, <1>5, <3>1
    <3>3. z.QRTail_ID = Ahead(p, m + 1)
      BY <1>2, <1>4, <1>5, <2>1, <2>3, <3>1, <3>2
    <3> QED BY <1>1, <1>5, <3>3
  <2>4. CASE j # N /\ j # m
    <3>1. j \in 0 .. N - 1 /\ j >= m + 1
      BY <1>1, <2>1, <2>4
    <3>2. h # t
      BY <1>3, <1>4, <1>5, <2>1, <2>4, <3>1
    <3>3. z.QRTail_ID = t
      BY <1>2, <3>2
    <3> QED BY <2>1, <3>1, <3>3
  <2> QED BY <2>2, <2>3, <2>4
<1>8. ASSUME NEW r \in F
      PROVE  \E i \in 0 .. (m + 1) - 1 : z.row_To_QR_T[r] = Ahead(p, i)
  <2>1. PICK i \in 0 .. m - 1 : x.row_To_QR_T[r] = Ahead(p, i)
    BY <1>3
  <2>2. i \in 0 .. N - 1 /\ i # m /\ i \in 0 .. (m + 1) - 1 /\ m \in 0 .. (m + 1) - 1
    BY <1>1, <1>5
  <2>3. x.row_To_QR_T[r] # h
    BY <1>3, <1>4, <1>5, <2>1, <2>2
  <2>4. r # x.QR_To_Row_T[h]
    BY <1>1, <2>3 DEF Good, BothWays
  <2>5. z.row_To_QR_T[r] = IF r = row THEN h ELSE x.row_To_QR_T[r]
    BY <1>2, <2>3, <2>4 DEF Displaced, h
  <2> QED BY <1>3, <2>1, <2>2, <2>5
<1>9. ASSUME Quarantined(z, row)
      PROVE  z.row_To_QR_T[row] = Ahead(p, m) /\ m \in 0 .. (m + 1) - 1
  <2>1. z.row_To_QR_T[row] = h
    BY <1>2, <1>9 DEF Displaced, Quarantined, h
  <2> QED BY <1>3, <1>5, <2>1
<1> QED BY <1>6, <1>7, <1>8, <1>9 DEF G

-----------------------------------------------------------------------------
\* The inductive invariant.
IInv ==
  /\ TypeOK
  /\ Good(s)
  /\ Arc(s, moves, fresh)

LEMMA InitIInv == Init => IInv
<1> SUFFICES ASSUME Init PROVE IInv
  OBVIOUS
<1>1. 0 \in QR /\ numQREntries \in Nat \ {0}
  BY QuarantineAssumption DEF QR
<1>2. /\ s.row_To_QR_T = [r \in Rows |-> None]
      /\ s.QR_To_Row_T = [q \in QR |-> None]
      /\ s.nextFreeQR_ID = 0 /\ s.prevQRHead_ID = 0 /\ s.QRTail_ID = 0
      /\ s.bitvector = [g \in Groups |-> 0]
      /\ s.ORR_CBF = [g \in Groups |-> 0]
      /\ s.cache = {}
      /\ s \in Tables
  BY <1>1 DEF Init, NewTables, Tables
<1>3. Counted(s)
  <2> SUFFICES ASSUME NEW g \in Groups PROVE Cardinality(Members(s, g)) = 0
    BY <1>2 DEF Counted
  <2>1. Members(s, g) = {}
    BY <1>2 DEF Members, Quarantined
  <2> QED BY <2>1, FS_EmptySet
<1>4. Good(s)
  BY <1>2, <1>3, NoneAssumption DEF Good, Sound, BothWays
<1>5. Arc(s, moves, fresh)
  <2>1. Ahead(0, 0) = 0 /\ Ahead(0, numQREntries) = 0
    BY <1>1, AheadPlaces
  <2>2. numQREntries \in 1 .. numQREntries /\ numQREntries >= 0
    BY <1>1
  <2> QED BY <1>2, <2>1, <2>2 DEF Init, Arc
<1> QED BY <1>2, <1>4, <1>5 DEF IInv, TypeOK, Tables, Init

LEMMA StepIInv == IInv /\ [Next]_vars => IInv'
<1> SUFFICES ASSUME IInv, [Next]_vars PROVE IInv'
  OBVIOUS
<1>1. CASE UNCHANGED vars
  BY <1>1 DEF vars, IInv, TypeOK, Good, Sound, BothWays, Counted, Members,
              Quarantined, Arc
<1>2. ASSUME NEW row \in Rows, NEW over \in BOOLEAN, NEW mitigate \in BOOLEAN,
             access(row, over, mitigate)
      PROVE  IInv'
  <2> DEFINE start == IF over THEN reset(s) ELSE s
             m == IF over THEN 0 ELSE moves
             born == IF over THEN {} ELSE fresh
             n == (IF Misses(start, row) THEN 1 ELSE 0) + misses
             drain == ~mitigate /\ n >= drain_cache_miss_threshold
  <2>1. m \in Nat /\ born \in SUBSET Rows /\ n \in Nat
    BY DEF IInv, TypeOK
  <2>2. Good(start) /\ Arc(start, m, born)
    BY ResetGood, ResetArc DEF IInv
  <2>3. PICK checked \in addQCheckDelay(start, row) :
          s' \in IF mitigate THEN quarantineRow(checked, row)
                 ELSE IF drain THEN {drainRow(checked)}
                 ELSE {checked}
    BY <1>2 DEF access
  <2>4. /\ num_resets' = IF over THEN num_resets + 1 ELSE num_resets
        /\ misses' = IF drain THEN 0 ELSE n
        /\ moves' = m + (IF mitigate THEN 1 ELSE 0)
        /\ num_moves' = IF mitigate THEN num_moves + 1 ELSE num_moves
        /\ fresh' = IF mitigate /\ Quarantined(s', row) THEN born \cup {row} ELSE born
    BY <1>2 DEF access
  <2> HIDE DEF start, m, born, n, drain
  <2>5. /\ Good(checked)
        /\ checked.row_To_QR_T = start.row_To_QR_T
        /\ checked.nextFreeQR_ID = start.nextFreeQR_ID
        /\ checked.prevQRHead_ID = start.prevQRHead_ID
        /\ checked.QRTail_ID = start.QRTail_ID
    BY <2>2, <2>3, CheckGood
  <2>6. Arc(checked, m, born)
    BY <2>2, <2>5 DEF Arc
  <2>7. Good(s') /\ Arc(s', moves', fresh')
    <3>1. CASE mitigate
      <4>1. s' \in quarantineRow(checked, row)
        BY <2>3, <3>1
      <4>2. Good(s')
        BY <2>5, <4>1, QuarantineGood
      <4>3. Arc(s', m + 1, IF Quarantined(s', row) THEN born \cup {row} ELSE born)
        BY <2>1, <2>5, <2>6, <4>1, QuarantineArc
      <4>4. /\ moves' = m + 1
            /\ fresh' = IF Quarantined(s', row) THEN born \cup {row} ELSE born
        BY <2>4, <3>1
      <4> QED BY <4>2, <4>3, <4>4
    <3>2. CASE ~mitigate
      <4>1. moves' = m /\ fresh' = born
        BY <2>1, <2>4, <3>2
      <4>2. s' = drainRow(checked) \/ s' = checked
        BY <2>3, <3>2
      <4>3. Good(drainRow(checked)) /\ Arc(drainRow(checked), m, born)
        BY <2>1, <2>5, <2>6, DrainGood, DrainArc
      <4> QED BY <2>5, <2>6, <4>1, <4>2, <4>3
    <3> QED BY <3>1, <3>2
  <2>8. TypeOK'
    <3>1. s' \in Tables
      BY <2>7 DEF Good, Sound
    <3>2. /\ misses' \in Nat /\ num_resets' \in Nat /\ moves' \in Nat
          /\ num_moves' \in Nat /\ fresh' \subseteq Rows
      BY <2>1, <2>4 DEF IInv, TypeOK
    <3> QED BY <3>1, <3>2 DEF TypeOK, Tables
  <2>9. Good(s)' /\ Arc(s, moves, fresh)'
    BY <2>7 DEF Good, Sound, BothWays, Counted, Members, Quarantined, Arc
  <2> QED BY <2>8, <2>9 DEF IInv
<1> QED BY <1>1, <1>2 DEF Next

LEMMA IInvHolds == Spec => []IInv
BY InitIInv, StepIInv, PTL DEF Spec

\* In every reachable state the {Row->QR} and {QR->Row} tables are inverse to
\* each other and the bitvector and ORR_CBF of a group count its quarantined
\* rows: the assertions of removeRow() and addQCheckDelay() hold.
THEOREM TablesAgree == Spec => []TablesConsistent
<1>1. IInv => TablesConsistent
  BY DEF IInv, Good, Sound, BothWays, Counted, Members, TablesConsistent
<1> QED BY <1>1, IInvHolds, PTL

\* What addQCheckDelay() concludes from a cache hit, and from a partial hit in
\* a group with one remapped row, is so in every reachable state.
THEOREM CacheTrue == Spec => []CacheAnswersTrue
<1>1. IInv => CacheAnswersTrue
  <2> SUFFICES ASSUME IInv, NEW row \in Rows
               PROVE  /\ row \in s.cache => Quarantined(s, row)
                      /\ (/\ row \notin s.cache
                          /\ PartialLookup(s, row)
                          /\ s.ORR_CBF[GroupOf(row)] = 1) => ~Quarantined(s, row)
    BY DEF CacheAnswersTrue
  <2>1. \A r \in s.cache : r \in Rows /\ Quarantined(s, r)
    BY DEF IInv, Good, Sound, Tables
  <2>2. ASSUME row \notin s.cache, PartialLookup(s, row),
               s.ORR_CBF[GroupOf(row)] = 1, Quarantined(s, row)
        PROVE  FALSE
    <3> DEFINE M == Members(s, GroupOf(row))
    <3>1. PICK r \in s.cache : GroupOf(r) = GroupOf(row)
      BY <2>2 DEF PartialLookup
    <3>2. Cardinality(M) = 1
      BY <2>2, GroupOfRow DEF IInv, Good, Sound, Counted
    <3>3. r \in M /\ row \in M /\ r # row
      BY <2>1, <2>2, <3>1 DEF Members
    <3>4. IsFiniteSet(M)
      BY MembersFinite
    <3> HIDE DEF M
    <3>5. \E y : M = {y}
      BY <3>2, <3>4, FS_Singleton
    <3> QED BY <3>3, <3>5
  <2> QED BY <2>1, <2>2
<1> QED BY <1>1, IInvHolds, PTL

\* A row that entered quarantine in this window is still there as long as the
\* moves of the window fit in the region, whatever quarantineRow() evicted or
\* drainRow() removed since.
THEOREM FreshStays == Spec => []FreshStaysQuarantined
<1>1. IInv => FreshStaysQuarantined
  <2> SUFFICES ASSUME IInv, moves <= numQREntries, NEW row \in fresh
               PROVE  Quarantined(s, row)
    BY DEF FreshStaysQuarantined
  <2>1. s.prevQRHead_ID \in QR /\ moves \in Nat /\ numQREntries \in Nat
    BY QuarantineAssumption DEF IInv, TypeOK
  <2>2. PICK i \in 0 .. moves - 1 : s.row_To_QR_T[row] = Ahead(s.prevQRHead_ID, i)
    BY DEF IInv, Arc
  <2>3. i \in 0 .. numQREntries
    BY <2>1
  <2>4. Ahead(s.prevQRHead_ID, i) \in QR
    BY <2>1, <2>3, AheadPlaces
  <2> QED BY <2>2, <2>4, NoneAssumption DEF Quarantined
<1> QED BY <1>1, IInvHolds, PTL
=============================================================================
