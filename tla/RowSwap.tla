------------------------------- MODULE RowSwap -------------------------------
(***************************************************************************)
(* Randomized row swap: class Randomized_Row_Swap of performance/gem5/src/ *)
(* mem/rowhammer_mitigation.cc, composed with the Misra_Gries detector it  *)
(* consults.  A row that the detector flags is swapped with a random row;  *)
(* the row indirection table (RIT) keeps the swaps as tuples, at most      *)
(* maxValidTuples of them, and a swap made since the last reset is locked  *)
(* against being undone.                                                   *)
(*                                                                         *)
(* The module models one bank: tables and detector are indexed by channel, *)
(* rank and bank and share only reset(), which comes to all of them at     *)
(* once.  Ticks enter only through the comparison with the 64 ms of a      *)
(* refresh window, so that the window's end is the environment's choice,   *)
(* as is the outcome of rand() within Draw.  The statistics are left out.  *)
(***************************************************************************)
EXTENDS MisraGriesOps, FiniteSets

CONSTANTS numTuples,   \* the RIT's length, 1.428571 * maxValidTuples
          MAX_ACTS,    \* activations of the bank in a window, 1360000
          MaxResets,   \* bound on windows
          Draw(_)      \* the rows that rand() may pick from a set of rows

\* The detector's size and the RIT's are derived from the threshold in the
\* constructor of MemCtrl: rh_rrs_tuples = 2 * rh_mg_entries.
maxValidTuples == 2 * numEntries

ASSUME RowSwapAssumption ==
  /\ numTuples \in Nat /\ numTuples > maxValidTuples
  /\ MAX_ACTS \in Nat /\ numEntries = MAX_ACTS \div threshold
  /\ MaxResets \in Nat
  /\ \A S \in SUBSET Rows : Draw(S) \subseteq S /\ (S # {} => Draw(S) # {})

\* The rows of a bank outnumber those that the RIT and the detector hold.
ASSUME RowsAssumption ==
  IsFiniteSet(Rows) /\ Cardinality(Rows) > 2 * maxValidTuples + numEntries

VARIABLES
  d,           \* the bank's table of the detector
  t,           \* the bank's RIT
  decision,    \* what access() returned: mitigate, validAddrs and addrs[0]
  num_resets,
  acts,        \* history: activations since the reset
  flagged      \* history: rows flagged since the reset

vars == <<d, t, decision, num_resets, acts, flagged>>

Tuples == 1 .. numTuples

NoTuple == [valid |-> FALSE, locked |-> FALSE, origRowID |-> Row0, remappedRowID |-> Row0]

NoDecision == [mitigate |-> FALSE, validAddrs |-> 0, addr |-> Row0]

Init ==
  /\ d = NewTable
  /\ t = [tuples       |-> [i \in Tuples |-> NoTuple],
          rowHasEntry  |-> [r \in Rows |-> 0],
          valid_tuples |-> 0]
  /\ decision = NoDecision
  /\ num_resets = 0
  /\ acts = 0
  /\ flagged = {}

-----------------------------------------------------------------------------
Swapped(rit, row) == rit.rowHasEntry[row] # 0

TupleOf(rit, row) == rit.tuples[rit.rowHasEntry[row]]

getRemappedAddr(rit, row) ==
  IF ~Swapped(rit, row) THEN row
  ELSE IF TupleOf(rit, row).origRowID = row THEN TupleOf(rit, row).remappedRowID
  ELSE TupleOf(rit, row).origRowID

\* Mutant: a row that is already swapped may be drawn.
generateRandomRowAddrAny(rit, det, avoidRow) ==
  Draw({r \in Rows \ {avoidRow} : ~Lookup(det, r)})

\* The rows that generateRandomRowAddr() can return: ten random guesses, then
\* the first row that qualifies.  Without one its assertion fails; that this
\* never happens is RowAlwaysFound.
generateRandomRowAddr(rit, det, avoidRow) ==
  Draw({r \in Rows \ {avoidRow} : ~Swapped(rit, r) /\ ~Lookup(det, r)})

\* Tuple <x, y> in the first free place; without one it is lost.
InstallTuple(rit, x, y) ==
  LET free == {i \in Tuples : ~rit.tuples[i].valid}
      i    == First(free)
  IN IF free = {} THEN rit
     ELSE [tuples       |-> [rit.tuples EXCEPT ![i] =
                               [valid |-> TRUE, locked |-> TRUE,
                                origRowID |-> x, remappedRowID |-> y]],
           rowHasEntry  |-> [rit.rowHasEntry EXCEPT ![x] = i, ![y] = i],
           valid_tuples |-> rit.valid_tuples + 1]

\* Mutant: the tuple <x, a> becomes <x, y> only if x is its first row.
RepointAsOrig(rit, x, y) ==
  LET i == rit.rowHasEntry[x] IN
  [rit EXCEPT !.tuples[i].locked = TRUE,
              !.tuples[i].remappedRowID = y,
              !.rowHasEntry[getRemappedAddr(rit, x)] = 0,
              !.rowHasEntry[y] = i]

\* Tuple <x, a>, in either order, becomes <x, y> and is locked.
Repoint(rit, x, y) ==
  LET i == rit.rowHasEntry[x]
      pair == IF rit.tuples[i].origRowID = x
              THEN [rit.tuples[i] EXCEPT !.locked = TRUE, !.remappedRowID = y]
              ELSE [rit.tuples[i] EXCEPT !.locked = TRUE, !.origRowID = y]
  IN [rit EXCEPT !.tuples[i] = pair,
                 !.rowHasEntry[getRemappedAddr(rit, x)] = 0,
                 !.rowHasEntry[y] = i]

\* Mutant: locked tuples are evicted as well.
EvictableLocked(rit) == {i \in Tuples : rit.tuples[i].valid}

Evictable(rit) == {i \in Tuples : rit.tuples[i].valid /\ ~rit.tuples[i].locked}

ClearReferences(rit, pair) ==
  [rit.rowHasEntry EXCEPT ![pair.origRowID] = 0, ![pair.remappedRowID] = 0]

\* Mutant: a tuple is un-swapped one tuple too late.
OverfullLate(rit) == rit.valid_tuples > maxValidTuples + 1

\* The end of insertTuple(): one tuple too many is un-swapped.
Overfull(rit) == rit.valid_tuples > maxValidTuples

Evict(rit) ==
  LET i == First(Evictable(rit))
  IN IF ~Overfull(rit) \/ Evictable(rit) = {} THEN rit
     ELSE [tuples       |-> [rit.tuples EXCEPT ![i] = NoTuple],
           rowHasEntry  |-> ClearReferences(rit, rit.tuples[i]),
           valid_tuples |-> rit.valid_tuples - 1]

\* insertTuple(x): to re-swap <x, a> to <x, y> and <a, b>, or to swap <x, y>.
insertTuple(rit, det, x) ==
  \E y \in generateRandomRowAddr(rit, det, x) :
    \/ /\ Swapped(rit, x)
       /\ LET a    == getRemappedAddr(rit, x)
              swap == Repoint(rit, x, y)
          IN \E b \in generateRandomRowAddr(swap, det, a) :
               LET both == InstallTuple(swap, a, b) IN
               /\ t' = Evict(both)
               /\ decision' = [mitigate |-> TRUE, addr |-> x,
                               validAddrs |-> IF Overfull(both) THEN 6 ELSE 4]
    \/ /\ ~Swapped(rit, x)
       /\ LET swap == InstallTuple(rit, x, y) IN
          /\ t' = Evict(swap)
          /\ decision' = [mitigate |-> TRUE, addr |-> x,
                          validAddrs |-> IF Overfull(swap) THEN 4 ELSE 2]

\* reset() unlocks every tuple and resets the detector.
\* Mutant: the locks survive the window.
UnlockNone(rit) == rit

Unlock(rit) == [rit EXCEPT !.tuples = [i \in Tuples |-> [@[i] EXCEPT !.locked = FALSE]]]

\* Decision& access(currTick, rowAddr, ...) from the RIT, the detector and
\* the history that the check for the end of the window leaves.
accessIn(rit, det, n, flags, row) ==
  /\ d' = Access(det, row)
  /\ acts' = n + 1
  /\ \/ /\ Detects(det, row)
        /\ insertTuple(rit, d', row)
        /\ flagged' = flags \cup {row}
     \/ /\ ~Detects(det, row)
        /\ t' = rit
        /\ decision' = NoDecision
        /\ flagged' = flags

access(row) ==
  \* within the window
  \/ /\ acts < MAX_ACTS
     /\ accessIn(t, d, acts, flagged, row)
     /\ UNCHANGED num_resets
  \* 64 ms after the last reset
  \/ /\ num_resets < MaxResets
     /\ accessIn(Unlock(t), NewTable, 0, {}, row)
     /\ num_resets' = num_resets + 1

Next == \E row \in Rows : access(row)

Spec == Init /\ [][Next]_vars

-----------------------------------------------------------------------------
(* Every field keeps its type.                                             *)
TypeOK ==
  /\ d \in TableType
  /\ t \in [tuples       : [Tuples -> [valid : BOOLEAN, locked : BOOLEAN,
                                       origRowID : Rows, remappedRowID : Rows]],
            rowHasEntry  : [Rows -> 0 .. numTuples],
            valid_tuples : 0 .. numTuples]
  /\ decision \in [mitigate : BOOLEAN, addr : Rows, validAddrs : {0, 2, 4, 6}]
  /\ num_resets \in 0 .. MaxResets
  /\ acts \in 0 .. MAX_ACTS
  /\ flagged \subseteq Rows

(* The RIT is a permutation of the rows that is its own inverse, through   *)
(* any mix of swaps, re-swaps, un-swaps and resets: no two rows are sent   *)
(* to the same place, and what is sent away comes back.  As getRemappedAddr*)
(* and insertTuple() assert, a reference leads to a valid tuple with the   *)
(* row in it, and the counter of valid tuples is right.                    *)
SwapsPairUp ==
  /\ TypeOK
  /\ \A r \in Rows : /\ getRemappedAddr(t, getRemappedAddr(t, r)) = r
                     /\ Swapped(t, r) <=> getRemappedAddr(t, r) # r
  /\ \A r \in Rows : Swapped(t, r) =>
       TupleOf(t, r).valid /\ r \in {TupleOf(t, r).origRowID, TupleOf(t, r).remappedRowID}
  /\ t.valid_tuples = Cardinality({i \in Tuples : t.tuples[i].valid})

(* assert(ii<numTuples) and assert(valid_tuples <= maxValidTuples): an RIT *)
(* that is over its limit always has a tuple from an earlier window to     *)
(* un-swap, because the detector flags at most numEntries rows a window    *)
(* and each of them locks at most two tuples.                              *)
TuplesFit == t.valid_tuples <= maxValidTuples

(* assert(randRow < numRows) in generateRandomRowAddr(): whichever row the  *)
(* next access flags, within the window or at its end, every draw of the   *)
(* insertTuple() that follows finds a row that is neither swapped nor      *)
(* tracked; the second draw of a re-swap included, which runs on the RIT   *)
(* that the first has already changed.                                     *)
Drawable(rit, det, x) ==
  Detects(det, x) =>
    LET after == Access(det, x) IN
    /\ generateRandomRowAddr(rit, after, x) # {}
    /\ Swapped(rit, x) =>
         \A y \in generateRandomRowAddr(rit, after, x) :
           generateRandomRowAddr(Repoint(rit, x, y), after, getRemappedAddr(rit, x)) # {}

RowAlwaysFound ==
  \A x \in Rows : /\ acts < MAX_ACTS => Drawable(t, d, x)
                  /\ num_resets < MaxResets => Drawable(Unlock(t), NewTable, x)

(* A row flagged in this window stays swapped until the window's end,      *)
(* whatever other rows are flagged, re-swapped or un-swapped after it.     *)
FlaggedStaysSwapped ==
  \A r \in flagged : Swapped(t, r) /\ TupleOf(t, r).locked

(* Each flagging sends the row to a place it was not in, although it may   *)
(* be the first or the second row of a tuple, or in none, and although the *)
(* same call may un-swap another tuple.                                    *)
MovesOnFlag ==
  [][acts' # acts /\ decision'.mitigate =>
       LET r == decision'.addr IN
       getRemappedAddr(t', r) \notin {r, getRemappedAddr(t, r)}]_vars
=============================================================================
