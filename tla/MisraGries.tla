----------------------------- MODULE MisraGries -----------------------------
(***************************************************************************)
(* One bank's table of the Misra_Gries detector under any sequence of      *)
(* activations and resets.  The memory controller sizes the table for the  *)
(* MAX_ACTS = 1360000 activations a bank can receive between two resets    *)
(* (MemCtrl::MemCtrl, rh_mg_entries = 1360000/rh_threshold).               *)
(***************************************************************************)
EXTENDS MisraGriesOps, Sums

CONSTANTS MAX_ACTS,    \* activations of a bank between two resets
          MaxResets    \* bound on resets

ASSUME MisraGriesAssumption == MAX_ACTS \in Nat /\ MaxResets \in Nat

VARIABLES
  d,                  \* the table
  uniq_rows,          \* rows ever flagged
  s_num_reset, s_glob_spill_count, s_num_access, s_num_install, s_aggressors,
  truth,              \* history: activations of each row since the reset
  detections          \* history: how often each row was flagged since the reset

vars == <<d, uniq_rows, s_num_reset, s_glob_spill_count, s_num_access,
          s_num_install, s_aggressors, truth, detections>>

Init ==
  /\ d = NewTable
  /\ uniq_rows = {}
  /\ s_num_reset = 0 /\ s_glob_spill_count = 0
  /\ s_num_access = 0 /\ s_num_install = 0 /\ s_aggressors = 0
  /\ truth = [r \in Rows |-> 0]
  /\ detections = [r \in Rows |-> 0]

\* Activations since the reset.
acts == Total(truth, Rows)

counts == [e \in Entries |-> d.entries[e].count]

One(b) == IF b THEN 1 ELSE 0

\* bool Misra_Gries::access(rowAddr, ...), not as a functional lookup.
access(row) ==
  LET aggressor_detected == Detects(d, row) IN
  /\ acts < MAX_ACTS
  /\ d' = Access(d, row)
  /\ s_num_access' = s_num_access + 1
  /\ s_num_install' = s_num_install + One(~Lookup(d, row) /\ Replaceable(d) # {})
  /\ s_aggressors' = s_aggressors + One(aggressor_detected)
  /\ uniq_rows' = IF aggressor_detected THEN uniq_rows \cup {row} ELSE uniq_rows
  /\ truth' = [truth EXCEPT ![row] = @ + 1]
  /\ detections' = [detections EXCEPT ![row] = @ + One(aggressor_detected)]
  /\ UNCHANGED <<s_num_reset, s_glob_spill_count>>

reset ==
  /\ s_num_reset < MaxResets
  /\ d' = NewTable
  /\ s_num_reset' = s_num_reset + 1
  /\ s_glob_spill_count' = s_glob_spill_count + d.spill_counter
  /\ truth' = [r \in Rows |-> 0]
  /\ detections' = [r \in Rows |-> 0]
  /\ UNCHANGED <<uniq_rows, s_num_access, s_num_install, s_aggressors>>

Next == reset \/ \E row \in Rows : access(row)

Spec == Init /\ [][Next]_vars

-----------------------------------------------------------------------------
(* Every field keeps its type.                                             *)
TypeOK ==
  /\ d \in TableType
  /\ uniq_rows \subseteq Rows
  /\ s_num_reset \in Nat
  /\ s_glob_spill_count \in Nat
  /\ s_num_access \in Nat
  /\ s_num_install \in Nat
  /\ s_aggressors \in Nat
  /\ truth \in [Rows -> Nat]
  /\ detections \in [Rows -> Nat]

(* No assertion of access() can fail, whichever row comes next.            *)
AssertsHold == \A row \in Rows : AccessAsserts(d, row)

(* The table's estimate of a row is at least its activations since the     *)
(* reset, through any number of evictions and re-installations of the row, *)
(* and exceeds them by at most the spill counter.                          *)
EstimateBrackets ==
  \A r \in Rows :
    /\ truth[r] <= Estimate(d, r)
    /\ Estimate(d, r) <= truth[r] + d.spill_counter

(* While the spill counter has not reached the threshold, a row has been   *)
(* flagged at least once per threshold activations it received.            *)
NoMissedAggressor ==
  d.spill_counter < threshold =>
    \A r \in Rows : truth[r] \div threshold <= detections[r]

(* What the memory controller sizes by MAX_ACTS \div threshold is enough.   *)
(* Every activation is in some entry's count or in the spill counter, so a *)
(* table with so many entries never reaches the threshold with its spill   *)
(* counter: NoMissedAggressor's condition always holds.  And over all      *)
(* windows the detector flags at most one row per threshold activations,   *)
(* by which the tables of Randomized_Row_Swap are sized.                   *)
SizedForThreshold ==
  /\ acts = d.spill_counter + Total(counts, Entries)
  /\ numEntries = MAX_ACTS \div threshold => d.spill_counter < threshold
  /\ s_aggressors * threshold <= s_num_access
=============================================================================
