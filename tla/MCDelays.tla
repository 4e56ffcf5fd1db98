------------------------------ MODULE MCDelays ------------------------------
(***************************************************************************)
(* What the delays of a defense do, for TLC: those of banks and bursts in  *)
(* BankTiming, and those of answers in BlockHammer.  The two share no      *)
(* variable.  The first step decides which of them runs; the other stays   *)
(* in its initial state.  A simulation that was killed does not go on.     *)
(***************************************************************************)
EXTENDS BankTiming, BlockHammer

MCInit == Init /\ BlockHammerInit

MCNext ==
  \/ BlockHammerInit /\ Next /\ UNCHANGED BlockHammerVars
  \/ Init /\ BlockHammerNext /\ UNCHANGED vars
  \/ trapped /\ UNCHANGED <<vars, BlockHammerVars>>

MCSpec == MCInit /\ [][MCNext]_<<vars, BlockHammerVars>>

\* A row that is read alone, and the same row of two ranks, one read and one
\* written, which share a counter.
MCRowOf ==
    [ s1 |-> [row |-> 0, bank |-> 0, rank |-> 0],
      s2 |-> [row |-> 1, bank |-> 0, rank |-> 0],
      s3 |-> [row |-> 1, bank |-> 0, rank |-> 1] ]
=============================================================================
