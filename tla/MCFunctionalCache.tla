------------------------- MODULE MCFunctionalCache -------------------------
(***************************************************************************)
(* An instance of FunctionalCache for TLC: four rows of two groups that    *)
(* compete for the three ways of one set, and a row of the other set.      *)
(***************************************************************************)
EXTENDS FunctionalCache
============================================================================
