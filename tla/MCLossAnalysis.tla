--------------------------- MODULE MCLossAnalysis ---------------------------
(* The loss models alone, for TLC: a tracker as large as the tables of the *)
(* analysis, and windows of four activations that overrun it.              *)
EXTENDS LossAnalysis
=============================================================================
