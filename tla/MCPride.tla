------------------------------- MODULE MCPride -------------------------------
(***************************************************************************)
(* PrIDE for TLC: the trackers of two banks under RFM, and the loss        *)
(* simulation of one tracker with its analysis.  The two share no          *)
(* variable.  The first step decides which of them runs; the other stays   *)
(* in its initial state, so that the states are those of each, not those   *)
(* of their product.                                                       *)
(*                                                                         *)
(* Under RFM, rows are told apart only by the slot they are in, so one row *)
(* address is enough; ticks are scaled so that an interval of two ticks    *)
(* ends in the middle of, at and long after an access.  In the simulation, *)
(* windows of four activations let one window overrun a tracker of three   *)
(* entries, and five windows see an entry through every level of           *)
(* calc_lossprob.                                                          *)
(***************************************************************************)
EXTENDS RFM, LossAnalysis, TLC

MCInit == Init /\ AInit

MCNext ==
  \/ AInit /\ Next /\ UNCHANGED allvars
  \/ Init /\ ANext /\ UNCHANGED vars

MCSpec == MCInit /\ [][MCNext]_<<vars, allvars>>

BankSymmetry == Permutations(Banks)
=============================================================================
