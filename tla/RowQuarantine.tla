---------------------------- MODULE RowQuarantine ----------------------------
(***************************************************************************)
(* Row quarantine: class Row_Quarantine of performance/gem5/src/mem/       *)
(* rowhammer_mitigation.cc.  A row that the detector flags is moved to the *)
(* next place of a circular quarantine region (QR); {Row->QR} and {QR->Row}*)
(* tables say which row is where, a counter per group of rows says how     *)
(* many of the group are quarantined, and a cache holds some of the        *)
(* entries of the {Row->QR} table.                                         *)
(*                                                                         *)
(* Rows are the numbers that randRowID maps addresses to, one to one.  An  *)
(* entry of a table that is not valid is None; its value is never read.    *)
(* Whether the detector flags a row and whether 64 ms have passed are free *)
(* choices, as is the victim of a full cache (RRIP bits are left out).     *)
(* What only adds to the delays of the decision, such as dirty bits, and   *)
(* the statistics other than the count of cache misses are left out.       *)
(* The bitvector and ORR_CBF change together; both are kept.               *)
(***************************************************************************)
EXTENDS Integers, FiniteSets

CONSTANTS numRows, numQREntries,
          rows_per_btv_bit,           \* rows in a group
          m_ways,                     \* entries of the cache, one set
          drain_cache_miss_threshold,
          None, MaxMoves, MaxResets   \* bounds on flagged rows and windows

ASSUME QuarantineAssumption ==
  /\ {numRows, numQREntries, rows_per_btv_bit, m_ways} \subseteq Nat \ {0}
  /\ drain_cache_miss_threshold \in Nat \ {0}
  /\ {MaxMoves, MaxResets} \subseteq Nat

Rows == 0 .. numRows - 1

QR == 0 .. numQREntries - 1

ASSUME NoneAssumption == None \notin Rows \cup QR

VARIABLES
  s,          \* the tables: a record, see NewTables
  misses,     \* s_cache_miss + s_cache_partial_hit_orr_unset
              \*   - prev_drain_cache_miss_val
  num_resets,
  moves,      \* history: rows flagged since the reset
  num_moves,  \* history: rows ever flagged
  fresh       \* history: rows put in quarantine since the reset

vars == <<s, misses, num_resets, moves, num_moves, fresh>>

GroupOf(row) == row \div rows_per_btv_bit

Groups == {GroupOf(r) : r \in Rows}

NewTables ==
  [row_To_QR_T   |-> [r \in Rows |-> None],
   QR_To_Row_T   |-> [q \in QR |-> None],
   nextFreeQR_ID |-> 0,
   prevQRHead_ID |-> 0,
   QRTail_ID     |-> 0,
   bitvector     |-> [g \in Groups |-> 0],
   ORR_CBF       |-> [g \in Groups |-> 0],
   cache         |-> {}]

Init ==
  /\ s = NewTables
  /\ misses = 0
  /\ num_resets = 0 /\ moves = 0 /\ num_moves = 0
  /\ fresh = {}

Quarantined(x, row) == x.row_To_QR_T[row] # None

-----------------------------------------------------------------------------
\* The results of insertRowInCache(): a full cache loses one of its entries.
insertRowInCache(x, row) ==
  IF Cardinality(x.cache) < m_ways
  THEN {[x EXCEPT !.cache = @ \cup {row}]}
  ELSE {[x EXCEPT !.cache = (@ \ {victim}) \cup {row}] : victim \in x.cache}

\* A cached row of the same group.
PartialLookup(x, row) == \E r \in x.cache : GroupOf(r) = GroupOf(row)

\* The row that a cache miss brings in: the row itself, or the only one of
\* its group that is quarantined.
Fetched(x, row) ==
  IF Quarantined(x, row) THEN {row}
  ELSE IF x.ORR_CBF[GroupOf(row)] = 1
  THEN {r \in Rows : GroupOf(r) = GroupOf(row) /\ Quarantined(x, r)}
  ELSE {}

\* addQCheckDelay(row): whether it misses the cache, and what it leaves.
Misses(x, row) ==
  /\ x.bitvector[GroupOf(row)] # 0
  /\ row \notin x.cache
  /\ ~(PartialLookup(x, row) /\ x.ORR_CBF[GroupOf(row)] = 1)

addQCheckDelay(x, row) ==
  IF ~Misses(x, row) \/ Fetched(x, row) = {} THEN {x}
  ELSE UNION {insertRowInCache(x, r) : r \in Fetched(x, row)}

\* Mutant: the row stays in the cache.
removeRowStaysCached(x, q) ==
  LET b == x.QR_To_Row_T[q] IN
  [x EXCEPT !.QR_To_Row_T[q] = None,
            !.row_To_QR_T[b] = None,
            !.bitvector[GroupOf(b)] = @ - 1,
            !.ORR_CBF[GroupOf(b)] = @ - 1]

\* removeRow(q), of a place that is taken.
removeRow(x, q) ==
  LET b == x.QR_To_Row_T[q] IN
  [x EXCEPT !.QR_To_Row_T[q] = None,
            !.row_To_QR_T[b] = None,
            !.bitvector[GroupOf(b)] = @ - 1,
            !.ORR_CBF[GroupOf(b)] = @ - 1,
            !.cache = @ \ {b}]

NextQR(q) == (q + 1) % numQREntries

\* Mutant: the drain stops at the head instead of the last window's head.
DrainableToHead(x) ==
  x.QRTail_ID # x.nextFreeQR_ID /\ x.QR_To_Row_T[x.QRTail_ID] # None

Drainable(x) ==
  x.QRTail_ID # x.prevQRHead_ID /\ x.QR_To_Row_T[x.QRTail_ID] # None

drainRow(x) ==
  IF Drainable(x)
  THEN [removeRow(x, x.QRTail_ID) EXCEPT !.QRTail_ID = NextQR(@)]
  ELSE x

-----------------------------------------------------------------------------
\* quarantineRow(row), in the order of the code.  First the group's counters,
\* if the row was not yet quarantined, and the mapping A->Qi ...
EnterGroup(x, row) ==
  IF Quarantined(x, row) THEN x
  ELSE [x EXCEPT !.bitvector[GroupOf(row)] = @ + 1,
                 !.ORR_CBF[GroupOf(row)] = @ + 1]

MapToHead(x, row) == [EnterGroup(x, row) EXCEPT !.row_To_QR_T[row] = x.nextFreeQR_ID]

\* ... then A in the cache ...
CacheRow(x, row) == IF row \in x.cache THEN {x} ELSE insertRowInCache(x, row)

\* Mutant: the place that the row came from stays taken.
FillHeadOnly(x, row, from) ==
  LET q == x.nextFreeQR_ID
      y == IF x.QR_To_Row_T[q] # None THEN removeRow(x, q) ELSE x
  IN  [y EXCEPT !.QR_To_Row_T[q] = row]

\* ... then B out of Qi, A into Qi and out of the place Qj it came from ...
FillHead(x, row, from) ==
  LET q == x.nextFreeQR_ID
      y == IF x.QR_To_Row_T[q] # None THEN removeRow(x, q) ELSE x
      z == [y EXCEPT !.QR_To_Row_T[q] = row]
  IN  IF from = None THEN z ELSE [z EXCEPT !.QR_To_Row_T[from] = None]

\* ... and the tail makes way for the head, which moves on.
AdvanceHead(x) ==
  LET push == x.nextFreeQR_ID = x.QRTail_ID /\ x.nextFreeQR_ID # x.prevQRHead_ID
  IN  [x EXCEPT !.QRTail_ID = IF push THEN NextQR(@) ELSE @,
                !.nextFreeQR_ID = NextQR(@)]

quarantineRow(x, row) ==
  {AdvanceHead(FillHead(y, row, x.row_To_QR_T[row])) : y \in CacheRow(MapToHead(x, row), row)}

-----------------------------------------------------------------------------
\* reset(): the rows that are in quarantine now may be drained from here on.
reset(x) == [x EXCEPT !.prevQRHead_ID = x.nextFreeQR_ID]

\* Decision& access(currTick, addr, ...): over says that 64 ms have passed,
\* mitigate is the detector's answer.
access(row, over, mitigate) ==
  LET start == IF over THEN reset(s) ELSE s
      n     == (IF Misses(start, row) THEN 1 ELSE 0) + misses
      drain == ~mitigate /\ n >= drain_cache_miss_threshold
      born  == IF over THEN {} ELSE fresh
  IN
  /\ over => num_resets < MaxResets
  /\ num_resets' = IF over THEN num_resets + 1 ELSE num_resets
  /\ \E checked \in addQCheckDelay(start, row) :
       s' \in IF mitigate THEN quarantineRow(checked, row)
              ELSE IF drain THEN {drainRow(checked)}
              ELSE {checked}
  /\ misses' = IF drain THEN 0 ELSE n
  /\ mitigate => num_moves < MaxMoves
  /\ moves' = (IF over THEN 0 ELSE moves) + (IF mitigate THEN 1 ELSE 0)
  /\ num_moves' = IF mitigate THEN num_moves + 1 ELSE num_moves
  /\ fresh' = IF mitigate /\ Quarantined(s', row) THEN born \cup {row} ELSE born

Next == \E row \in Rows, over, mitigate \in BOOLEAN : access(row, over, mitigate)

Spec == Init /\ [][Next]_vars

-----------------------------------------------------------------------------
\* Pointers stay inside the region and counters never go below zero.
TypeOK ==
  /\ s \in [row_To_QR_T   : [Rows -> QR \cup {None}],
            QR_To_Row_T   : [QR -> Rows \cup {None}],
            nextFreeQR_ID : QR,
            prevQRHead_ID : QR,
            QRTail_ID     : QR,
            bitvector     : [Groups -> Nat],
            ORR_CBF       : [Groups -> Nat],
            cache         : SUBSET Rows]
  /\ misses \in Nat
  /\ {num_resets, moves, num_moves} \subseteq Nat
  /\ fresh \subseteq Rows

\* Each of the {Row->QR} and {QR->Row} tables is the inverse of the other, so
\* no two rows share a place and removeRow() always finds the row it removes
\* (its assertion on row_To_QR_T), after moves, evictions and drains; and both
\* counters of a group are the number of its quarantined rows.  Hence a zero
\* never hides a quarantined row (the assertion that the bitvector cannot give
\* a false negative), removeRow() finds its group's bit set, and an ORR_CBF of
\* one means that one row of the group is remapped.
TablesConsistent ==
  /\ TypeOK
  /\ \A row \in Rows, q \in QR : s.row_To_QR_T[row] = q <=> s.QR_To_Row_T[q] = row
  /\ \A g \in Groups :
       LET n == Cardinality({r \in Rows : GroupOf(r) = g /\ Quarantined(s, r)})
       IN  s.bitvector[g] = n /\ s.ORR_CBF[g] = n

\* What addQCheckDelay() concludes from the cache without reading the table is
\* so: a hit is a quarantined row, and a partial hit with one remapped row in
\* the group ("ORR bit is set, A is not remapped") is a row that is not.
CacheAnswersTrue ==
  \A row \in Rows :
    /\ row \in s.cache => Quarantined(s, row)
    /\ (/\ row \notin s.cache
        /\ PartialLookup(s, row)
        /\ s.ORR_CBF[GroupOf(row)] = 1) => ~Quarantined(s, row)

\* A row that entered quarantine in this window is still there, whatever was
\* flagged, evicted or drained since, unless the region is too small for the
\* moves of a window.
FreshStaysQuarantined ==
  moves <= numQREntries => \A row \in fresh : Quarantined(s, row)

\* What the comments in quarantineRow() promise: the flagged row A is moved to
\* Qi, here in windows whose moves fit in the region.  A row that is in Qi
\* already, since an earlier window, loses its place instead.
FlaggedIsQuarantined ==
  [][\A row \in Rows, over \in BOOLEAN :
       access(row, over, TRUE) /\ moves' <= numQREntries
         => Quarantined(s', row)]_vars
=============================================================================
