-------------------------------- MODULE Sums --------------------------------
(***************************************************************************)
(* The sum of a function of numbers over a finite set, by counting: a      *)
(* value n is n units.  Written without recursion, so that the provers can *)
(* reason about it.                                                        *)
(***************************************************************************)
EXTENDS Naturals, FiniteSets

Units(f, S) == UNION {{x} \X (1 .. f[x]) : x \in S}

Total(f, S) == Cardinality(Units(f, S))
=============================================================================
