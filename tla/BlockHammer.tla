----------------------------- MODULE BlockHammer -----------------------------
(***************************************************************************)
(* BlockHammer throttling (mem/rowhammer_mitigation.cc, class BlockHammer).*)
(* Every activation of a row is counted; from the blacklist threshold on   *)
(* its answer is delayed so that the activations left are spread over the  *)
(* rest of the window.  Only the answer to a read is delayed: a write was  *)
(* answered when it entered the queue.  Each source is a requester bound   *)
(* to one row that waits for its answer before it asks again; two sources  *)
(* on one row stand for two requests in flight.  Reads are not split: of a *)
(* split one, the last burst alone brings its delay.                       *)
(*                                                                         *)
(* Ticks are counted from the start of the window, and stop at its end     *)
(* until an access notices it.  The arithmetic is unsigned.                *)
(***************************************************************************)
EXTENDS Integers, FiniteSets

CONSTANTS
    Sources,          \* requesters with one request in flight each
    Writers,          \* the sources that write
    RowOf,            \* RowOf[s]: the [row, bank, rank] that s activates
    NumBanks,
    ActualThreshold,  \* rh_actual_threshold: what a row survives
    BlackListPercent, \* rh_bh_black_list_threshold
    Window,           \* 64000000000 ticks in the code
    Latencies,        \* ticks from access() to an answer that is not throttled
    Wrap              \* unsigned arithmetic is modulo Wrap, 2^32 in the code

ASSUME BlockHammerAssumption ==
    /\ ActualThreshold \in Nat /\ Window \in Nat \ {0}
    /\ NumBanks \in Nat \ {0}
    /\ BlackListPercent \in Nat
    /\ Wrap \in Nat /\ Wrap > ActualThreshold
    /\ Latencies \subseteq Nat \ {0}
    /\ \A s \in Sources : RowOf[s].bank \in Nat /\ RowOf[s].row \in Nat

VARIABLES
    elapsed,   \* currTick - last_reset, at most Window
    count,     \* numAccessesToRow of this window
    previous,  \* the counts of the window before (history)
    wait,      \* wait[s]: ticks until the answer to s arrives
    trapped    \* the process was killed by a division by zero

BlockHammerVars == <<elapsed, count, previous, wait, trapped>>

\* Mutant: the threshold is not halved.
WholeThreshold == ActualThreshold

Threshold == ActualThreshold \div 2

BlackListThreshold == (Threshold * BlackListPercent) \div 100

\* The rank is not part of the index.
DRAMRowID(s) == RowOf[s].bank + NumBanks * RowOf[s].row

\* Rows are blacklisted early enough for one delayed activation at least.
ASSUME ThrottleAssumption == Threshold >= 3 /\ BlackListThreshold <= Threshold - 2

RowIDs == {DRAMRowID(s) : s \in Sources}

BlockHammerInit ==
    /\ elapsed = 0
    /\ count = [d \in RowIDs |-> 0]
    /\ previous = [d \in RowIDs |-> 0]
    /\ wait = [s \in Sources |-> 0]
    /\ trapped = FALSE

\* Mutant: the next activation is still free.
RemainingTooMany(c) == IF Threshold > c - 1 THEN (Threshold - c) % Wrap ELSE 1

ACTs_Remaining(c) == IF Threshold > c - 1 THEN (Threshold - c - 1) % Wrap ELSE 1

MC_delay(at, c) ==
    IF c >= BlackListThreshold THEN (Window - at) \div ACTs_Remaining(c) ELSE 0

\* access() of source s, with the window end it may notice.  The delay is
\* computed now and added when the data are there (processRespondEvent): to
\* readyTime, SRAM_delay and the latencies of the controller, l ticks in all.
access(s) ==
    LET ended == elapsed >= Window
        at == IF ended THEN 0 ELSE elapsed
        base == IF ended THEN [d \in RowIDs |-> 0] ELSE count
        c == base[DRAMRowID(s)] + 1
    IN  /\ ~trapped
        /\ wait[s] = 0
        /\ elapsed' = at
        /\ count' = [base EXCEPT ![DRAMRowID(s)] = c]
        /\ previous' = IF ended THEN count ELSE previous
        /\ trapped' = (c >= BlackListThreshold /\ ACTs_Remaining(c) = 0)
        /\ \E l \in Latencies :
              wait' = IF trapped' \/ s \in Writers THEN wait
                      ELSE [wait EXCEPT ![s] = l + MC_delay(at, c)]

TimePasses ==
    /\ ~trapped
    /\ elapsed < Window \/ \E s \in Sources : wait[s] > 0
    /\ elapsed' = IF elapsed < Window THEN elapsed + 1 ELSE Window
    /\ wait' = [s \in Sources |-> IF wait[s] > 0 THEN wait[s] - 1 ELSE 0]
    /\ UNCHANGED <<count, previous, trapped>>

BlockHammerNext == TimePasses \/ \E s \in Sources : access(s)

BlockHammerSpec == BlockHammerInit /\ [][BlockHammerNext]_BlockHammerVars

-----------------------------------------------------------------------------
\* A counter that one source uses, and waits on.
Solo(d) ==
    \A s, t \in Sources :
        DRAMRowID(s) = d /\ DRAMRowID(t) = d => s = t /\ s \notin Writers

\* The variables hold values of their types.
BlockHammerTypeOK ==
    /\ elapsed \in 0..Window
    /\ count \in [RowIDs -> Nat]
    /\ previous \in [RowIDs -> Nat]
    /\ wait \in [Sources -> Nat]
    /\ trapped \in BOOLEAN

\* A row whose reads come one after the other never reaches threshold - 1,
\* where the division is by zero: the last delay before that count is not
\* over before the window is.  Writes and two requests in flight do reach it.
ThrottledBelowThreshold ==
    \A d \in RowIDs : Solo(d) => count[d] < Threshold - 1

\* Two windows that the reset splits badly still add up to less than the row
\* survives: the reason for halving the threshold in the constructor of the
\* controller ("To account for reset mismatch in CBF and DRAM row").
ActualThresholdKept ==
    \A d \in RowIDs : Solo(d) => previous[d] + count[d] < ActualThreshold
=============================================================================
