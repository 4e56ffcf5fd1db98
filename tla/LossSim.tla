------------------------------- MODULE LossSim -------------------------------
(***************************************************************************)
(* The Monte-Carlo loss simulation, security/0_loss_probability/           *)
(* monte_carlo: sim_monte_carlo() of sim.cpp over the circular tracker of  *)
(* tracker.cpp.  One step is one iteration of its loop: an activation at   *)
(* position act_count % window_size of its refresh window, before which    *)
(* the first activation of each window removes the oldest entry.  The draw *)
(* against PROB_INSERTION is a free choice.  An entry keeps its position   *)
(* (the simulation's addr is the same number) and, as history, the         *)
(* activation that inserted it.                                            *)
(***************************************************************************)
EXTENDS Integers, FiniteSets

CONSTANTS num_entries,   \* tracker_size, one of 1, 2, 4, 8, 16 in main()
          window_size,   \* activations per refresh window, TREFI in the code
          MaxWindows     \* bound on windows, MAX_ITER in the code

ASSUME SimAssumption ==
  /\ num_entries \in Nat \ {0}
  /\ window_size \in Nat \ {0}
  /\ MaxWindows \in Nat

VARIABLES
  act_count,
  entries, num_valids, ptr,    \* the tracker
  s_inserts_pos, s_loss_pos,   \* per position: insertions and losses
  s_inserts, s_loss,
  mitigated_pos                \* history: entries that a refresh removed

simvars == <<act_count, entries, num_valids, ptr,
             s_inserts_pos, s_loss_pos, s_inserts, s_loss, mitigated_pos>>

Positions == 0 .. window_size - 1
Places    == 0 .. num_entries - 1

\* tracker_new(): calloc clears everything.
SimInit ==
  /\ act_count = 0
  /\ entries = [i \in Places |-> [pos |-> 0, born |-> 0]]
  /\ num_valids = 0
  /\ ptr = 0
  /\ s_inserts_pos = [p \in Positions |-> 0]
  /\ s_loss_pos = [p \in Positions |-> 0]
  /\ s_inserts = 0
  /\ s_loss = 0
  /\ mitigated_pos = [p \in Positions |-> 0]

-----------------------------------------------------------------------------
WindowStarts == act_count % window_size = 0

\* do_refresh(): tracker_remove() takes one entry of a non-empty tracker; ptr_r
\* and num_valids_r are the cursors it leaves.
Refreshes == WindowStarts /\ num_valids > 0

ptr_r == IF Refreshes THEN (ptr + 1) % num_entries ELSE ptr

num_valids_r == IF Refreshes THEN num_valids - 1 ELSE num_valids

\* tracker_insert() on a full tracker removes the oldest entry first.
Full == num_valids_r = num_entries

\* With a full tracker the removal moves ptr and num_valids by one each, and
\* the index is the slot just freed.
InsertIndex == (ptr_r + num_valids_r) % num_entries

\* Mutant: the loss is booked to the position of the new entry.
LossPositionNew == act_count % window_size

LossPosition == entries[ptr_r].pos

tracker_insert(pos) ==
  /\ entries' = [entries EXCEPT ![InsertIndex] = [pos |-> pos, born |-> act_count]]
  /\ ptr' = IF Full THEN (ptr_r + 1) % num_entries ELSE ptr_r
  /\ num_valids' = IF Full THEN num_valids_r ELSE num_valids_r + 1
  /\ s_inserts' = s_inserts + 1
  /\ s_inserts_pos' = [s_inserts_pos EXCEPT ![pos] = @ + 1]
  /\ s_loss' = IF Full THEN s_loss + 1 ELSE s_loss
  /\ s_loss_pos' = IF Full THEN [s_loss_pos EXCEPT ![LossPosition] = @ + 1]
                   ELSE s_loss_pos

no_insert ==
  /\ ptr' = ptr_r
  /\ num_valids' = num_valids_r
  /\ UNCHANGED <<entries, s_inserts_pos, s_loss_pos, s_inserts, s_loss>>

\* One iteration of the loop in sim_monte_carlo().
iterate(inserted) ==
  /\ act_count < MaxWindows * window_size
  /\ mitigated_pos' = IF Refreshes
                      THEN [mitigated_pos EXCEPT ![entries[ptr].pos] = @ + 1]
                      ELSE mitigated_pos
  /\ IF inserted THEN tracker_insert(act_count % window_size) ELSE no_insert
  /\ act_count' = act_count + 1

SimNext == \E inserted \in BOOLEAN : iterate(inserted)

SimSpec == SimInit /\ [][SimNext]_simvars

-----------------------------------------------------------------------------
\* The i-th oldest entry, counted from 0.
HeldAt(i) == entries[(ptr + i) % num_entries]

(* The loss probability that the simulation prints is exact bookkeeping:   *)
(* for every position, each insertion was lost, was mitigated by a         *)
(* refresh, or is still held.                                              *)
PositionsAccountedFor ==
  \A p \in Positions :
    s_inserts_pos[p] = s_loss_pos[p] + mitigated_pos[p]
      + Cardinality({i \in 0 .. num_valids - 1 : HeldAt(i).pos = p})
=============================================================================
