--------------------------- MODULE MCRowQuarantine ---------------------------
(***************************************************************************)
(* TLC instances of RowQuarantine: a region of three places for four rows  *)
(* in two groups, so that the head laps the region and rows of a group     *)
(* share a counter and the cache.                                          *)
(***************************************************************************)
EXTENDS RowQuarantine
=============================================================================
