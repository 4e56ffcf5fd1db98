------------------------------- MODULE MCRank -------------------------------
(***************************************************************************)
(* Simulations for TLC: with power-down or drained, refreshes as close as  *)
(* the timings allow, with a read and a write at one bank, or with a read  *)
(* at either of two banks; and one with bubbles of 10 us, where a tick is  *)
(* 100 ns and refreshes are 7.8 us apart.  Two more are for the runs that  *)
(* end in a violation.                                                     *)
(***************************************************************************)
EXTENDS Rank

Close(powerdown, banks, writes) ==
    [tREFI |-> 22, powerdown |-> powerdown, drains |-> ~powerdown, bubbles |-> {0},
     banks |-> banks, reads |-> 1, writes |-> writes]

MCSetups ==
    {Close(p, 1, 1) : p \in BOOLEAN} \cup {Close(p, 2, 0) : p \in BOOLEAN}
      \cup {[tREFI |-> 78, powerdown |-> FALSE, drains |-> FALSE, bubbles |-> {0, 100},
             banks |-> 1, reads |-> 1, writes |-> 0]}

\* Power-down and drains in one simulation.
MCDrainAsleep == {[Close(TRUE, 1, 0) EXCEPT !.drains = TRUE]}

\* Nothing but refreshes and reads; two ranks of it are in MCRankOther.cfg.
MCPlain == {[Close(FALSE, 1, 0) EXCEPT !.drains = FALSE]}
=============================================================================
