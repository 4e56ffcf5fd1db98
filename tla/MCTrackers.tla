----------------------------- MODULE MCTrackers -----------------------------
(***************************************************************************)
(* The two trackers of aggressor rows for TLC: the sampled queue of PrIDE  *)
(* under any order of calls, and the Misra-Gries table of the other        *)
(* defenses.  They share no variable.  The first step decides which of     *)
(* them runs; the other stays in its initial state, so that the states are *)
(* those of each, not those of their product.                              *)
(*                                                                         *)
(* The queue has three slots, and runs long enough to wrap both cursors    *)
(* more than once.  In the table four rows compete for two entries, as     *)
(* many as the memory controller would allocate for eight activations and  *)
(* a threshold of three: enough to fill it, to spill up to the threshold   *)
(* less one, and to flag a row twice.  Its rows other than row 0 are       *)
(* interchangeable.                                                        *)
(***************************************************************************)
EXTENDS Tracker, MisraGries, TLC

MCInit == TrackerInit /\ Init

MCNext ==
  \/ Init /\ TrackerNext /\ UNCHANGED vars
  \/ TrackerInit /\ Next /\ UNCHANGED tr

MCSpec == MCInit /\ [][MCNext]_<<tr, vars>>

RowSymmetry == Permutations(Rows \ {Row0})
=============================================================================
