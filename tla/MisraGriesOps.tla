---------------------------- MODULE MisraGriesOps ----------------------------
(***************************************************************************)
(* The aggressor detector of Randomized_Row_Swap and Row_Quarantine: class *)
(* Misra_Gries of performance/gem5/src/mem/rowhammer_detector.cc.  The     *)
(* detector keeps one table per bank; a table is a record with the fields  *)
(* of Misra_Gries::Tracker and each path of access() is an operator from a *)
(* table to the table it leaves behind.                                    *)
(*                                                                         *)
(* Entry ii of the code is ii + 1 here, the number that rowHasEntry keeps; *)
(* 0 says that a row has no entry.  Row0 is the row with address 0, which  *)
(* is also what an entry that is not valid holds.                          *)
(***************************************************************************)
EXTENDS Integers

CONSTANTS numEntries, threshold, Rows, Row0

ASSUME DetectorAssumption ==
  /\ numEntries \in Nat \ {0}
  /\ threshold \in Nat \ {0}
  /\ Row0 \in Rows

Entries == 1 .. numEntries

\* Where a scan from entry 0 upwards stops.
First(S) == CHOOSE i \in S : \A j \in S : i <= j

Unused == [valid |-> FALSE, addr |-> Row0, count |-> 0]

\* The table after the constructor and after reset().
NewTable ==
  [entries       |-> [e \in Entries |-> Unused],
   spill_counter |-> 0,
   rowHasEntry   |-> [r \in Rows |-> 0]]

TableType ==
  [entries       : [Entries -> [valid : BOOLEAN, addr : Rows, count : Nat]],
   spill_counter : Nat,
   rowHasEntry   : [Rows -> 0 .. numEntries]]

-----------------------------------------------------------------------------
\* access() as a functional lookup: whether the row has an entry.
Lookup(d, row) == d.rowHasEntry[row] # 0

\* Entries that the scan for a missing row accepts, and the first of them.
\* Mutant: an entry that is about to fall behind the spill counter is taken.
ReplaceableAbove(d) == {e \in Entries : d.entries[e].count = d.spill_counter + 1}

Replaceable(d) == {e \in Entries : d.entries[e].count = d.spill_counter}

FirstReplaceable(d) == First(Replaceable(d))

\* A row that has an entry.
Hit(d, row) == [d EXCEPT !.entries[d.rowHasEntry[row]].count = @ + 1]

\* Mutant: the new row starts counting from one, not from the entry's count.
InstallFromOne(d, row) ==
  LET e == FirstReplaceable(d) old == d.entries[e] IN
  [d EXCEPT !.entries[e]  = [valid |-> TRUE, addr |-> row, count |-> 1],
            !.rowHasEntry = [r \in Rows |-> IF r = row THEN e
                                            ELSE IF old.valid /\ r = old.addr THEN 0
                                            ELSE @[r]]]

\* A row without an entry takes over the first replaceable entry with its
\* count, and the row it held loses its reference.
Install(d, row) ==
  LET e == FirstReplaceable(d) old == d.entries[e] IN
  [d EXCEPT !.entries[e]  = [valid |-> TRUE, addr |-> row, count |-> @.count + 1],
            !.rowHasEntry = [r \in Rows |-> IF r = row THEN e
                                            ELSE IF old.valid /\ r = old.addr THEN 0
                                            ELSE @[r]]]

\* No entry to take over.
Spill(d) == [d EXCEPT !.spill_counter = @ + 1]

Access(d, row) ==
  IF Lookup(d, row) THEN Hit(d, row)
  ELSE IF Replaceable(d) # {} THEN Install(d, row)
  ELSE Spill(d)

\* Mutant: a row is flagged at most once between two resets.
FlagsOnce(count) == count = threshold

Flags(count) == count % threshold = 0

\* aggressor_detected: the row has an entry after the access and its count
\* is a multiple of the threshold.
Detects(d, row) ==
  LET after == Access(d, row)
  IN  Lookup(after, row) /\ Flags(after.entries[after.rowHasEntry[row]].count)

\* The two assertions of access() for a row: a reference leads to the row's
\* own valid entry; the scan passes only valid entries before it stops.
AccessAsserts(d, row) ==
  IF Lookup(d, row)
  THEN LET entry == d.entries[d.rowHasEntry[row]] IN entry.valid /\ entry.addr = row
  ELSE \A e \in Entries :
         (\A f \in Replaceable(d) : e < f) => d.entries[e].valid

\* The count that the table vouches for: no row was activated more often.
Estimate(d, row) == IF Lookup(d, row) THEN d.entries[d.rowHasEntry[row]].count
                    ELSE d.spill_counter

\* A table that access() can meet: valid entries and references are inverse
\* to each other, no count is below the spill counter, and an entry that was
\* never used still has the count that makes it replaceable.
GoodTable(d) ==
  /\ d \in TableType
  /\ \A r \in Rows : Lookup(d, r) => LET entry == d.entries[d.rowHasEntry[r]]
                                     IN  entry.valid /\ entry.addr = r
  /\ \A e \in Entries :
       /\ d.entries[e].valid => d.rowHasEntry[d.entries[e].addr] = e
       /\ d.entries[e].count >= d.spill_counter
       /\ ~d.entries[e].valid => d.entries[e].count = 0 /\ d.spill_counter = 0
=============================================================================
