----------------------------- MODULE BankTiming -----------------------------
(***************************************************************************)
(* The command timing of one rank (mem/mem_interface.cc, DRAMInterface):   *)
(* which tick an activate, a precharge and a burst get, what a mitigation  *)
(* does to the banks (delayBankRowhammer), and the refresh that resets     *)
(* them.  All times are relative to the current tick.  Which row is        *)
(* accessed, whether it is precharged after the burst, when a refresh is   *)
(* due and when the defense asks for a mitigation are free.                *)
(***************************************************************************)
EXTENDS Integers, Sequences, FiniteSets

CONSTANTS
    BanksPerRank, RowsPerBank,
    tRCD, tRP, tRAS, tRRD, tCL, tBURST, tRFC,
    Recoveries,            \* from a burst to the precharge: tRTP, or tCL + tBURST + tWR
    tXAW, ActivationLimit, \* at most so many activates in a window
    tACT,                  \* 45 ns, the time of one activate of a mitigation
    BankDelays,            \* the delays of a bank a mitigation may ask for
    BusDelay,              \* the delay of the bus that comes with it
    Bubbles,               \* the delays of a burst a mitigation may ask for
    FetchBubble            \* 90 ns, the bubble that counts up to the data

Longest(S) == CHOOSE a \in S : \A b \in S : b <= a

ASSUME TimingAssumption ==
    /\ {BanksPerRank, RowsPerBank, ActivationLimit, tACT, FetchBubble} \subseteq Nat \ {0}
    /\ {tRCD, tRP, tRAS, tRRD, tCL, tBURST, tRFC, tXAW, BusDelay} \subseteq Nat
    /\ Recoveries \subseteq Nat
    /\ BankDelays \subseteq Nat /\ 0 \in BankDelays
    /\ Bubbles \subseteq Nat /\ IsFiniteSet(Bubbles) /\ 0 \in Bubbles
    /\ tXAW <= tRFC
    /\ \A d \in BankDelays : d <= tRAS + tRP + tRFC

Banks == 1..BanksPerRank

Rows == 0..(RowsPerBank - 1)

NO_ROW == -1

VARIABLES
    bank,           \* the banks: open row, and the ticks before which no
                    \* activate, precharge or burst is allowed
    numBanksActive,
    actTicks,       \* the last activates, latest first
    nextBurstAt,
    prechargeAt,    \* when the last precharge is done
    refreshState,
    refreshAt,      \* when the refresh that runs is done
    lastAct,        \* history: when each bank was last activated
    mitigated,      \* history: when the mitigation of each bank is over
    cmd             \* history: the last step's burst

vars == <<bank, numBanksActive, actTicks, nextBurstAt, prechargeAt, refreshState, refreshAt,
          lastAct, mitigated, cmd>>

NoCmd == [bank |-> 0, act |-> FALSE, actAt |-> 0, busy |-> 0]

Most(a, b) == IF a > b THEN a ELSE b

-----------------------------------------------------------------------------
(* The handlers, on a record of the variables they change                  *)

Now == [bank |-> bank, active |-> numBanksActive, ticks |-> actTicks, pre |-> prechargeAt]

\* No activate of any bank before t.
HoldAll(x, t) == [x EXCEPT !.bank = [b \in Banks |-> [x.bank[b] EXCEPT !.act = Most(@, t)]]]

\* Mutant: the bank may be activated as soon as it is precharged.
prechargeAtOnce(x, b, pre_at, auto) ==
    LET closed == [x EXCEPT !.bank[b].openRow = NO_ROW, !.active = @ - 1,
                            !.pre = Most(@, pre_at + tRP)]
    IN  IF auto THEN [closed EXCEPT !.bank[b].pre = pre_at]
        ELSE [closed EXCEPT !.bank = [c \in Banks |->
                  [closed.bank[c] EXCEPT !.pre = Most(@, pre_at)]]]

prechargeBank(x, b, pre_at, auto) ==
    LET closed == [x EXCEPT !.bank[b].openRow = NO_ROW, !.active = @ - 1,
                            !.bank[b].act = Most(@, pre_at + tRP),
                            !.pre = Most(@, pre_at + tRP)]
    IN  IF auto THEN [closed EXCEPT !.bank[b].pre = pre_at]
        ELSE [closed EXCEPT !.bank = [c \in Banks |->
                  [closed.bank[c] EXCEPT !.pre = Most(@, pre_at)]]]

\* Mutant: the activates are recorded, and no limit is enforced.
activateUnlimited(x, b, row, act_at) ==
    HoldAll([x EXCEPT !.bank[b] = [openRow |-> row, act |-> @.act, pre |-> act_at + tRAS,
                                   col |-> Most(@.col, act_at + tRCD)],
                      !.active = @ + 1,
                      !.ticks = <<act_at>> \o SubSeq(@, 1, ActivationLimit - 1)],
            act_at + tRRD)

activateBank(x, b, row, act_at) ==
    LET opened == [x EXCEPT !.bank[b] = [openRow |-> row, act |-> @.act, pre |-> act_at + tRAS,
                                         col |-> Most(@.col, act_at + tRCD)],
                            !.active = @ + 1,
                            !.ticks = <<act_at>> \o SubSeq(@, 1, ActivationLimit - 1)]
        oldest == opened.ticks[ActivationLimit]
    IN  HoldAll(opened, Most(act_at + tRRD,
                             IF act_at - oldest < tXAW THEN oldest + tXAW ELSE 0))

\* Mutant: the bank is held as long as every other.
delayBankAsOthers(x, b, row, act_at, delay) == HoldAll(x, act_at + tRRD * (delay \div tACT))

\* The mitigation leaves a neighbour's row open instead of the one accessed.
delayBankRowhammer(x, b, row, act_at, delay) ==
    LET held == HoldAll(x, act_at + tRRD * (delay \div tACT))
        row_neighbour == IF row - 1 > 0 THEN row - 1 ELSE row + 1
    IN  [held EXCEPT !.bank[b].act = @ + delay,
                     !.bank[b].openRow = IF @ = NO_ROW THEN @ ELSE row_neighbour]

-----------------------------------------------------------------------------
(* The steps                                                               *)

Init ==
    /\ bank = [b \in Banks |-> [openRow |-> NO_ROW, act |-> 0, pre |-> 0, col |-> 0]]
    /\ numBanksActive = 0
    /\ actTicks = [i \in 1..ActivationLimit |-> -tXAW]
    /\ nextBurstAt = 0
    /\ prechargeAt = 0
    /\ refreshState = "REF_IDLE"
    /\ refreshAt = 0
    /\ lastAct = [b \in Banks |-> -(tRAS + tRP)]
    /\ mitigated = [b \in Banks |-> 0]
    /\ cmd = NoCmd

Keep(x) ==
    /\ bank' = x.bank
    /\ numBanksActive' = x.active
    /\ actTicks' = x.ticks
    /\ prechargeAt' = x.pre

\* A burst to a row of bank b.  The defense is asked only on an activate, and
\* answers with a delay of the bank and the bus (RFM, PARA), or with a bubble
\* (swaps and moves).
doBurstAccess(b, row, recovery, auto, delay, bubble) ==
    LET miss == bank[b].openRow # row
        closed == IF miss /\ bank[b].openRow # NO_ROW
                  THEN prechargeBank(Now, b, bank[b].pre, FALSE) ELSE Now
        act_tick == closed.bank[b].act
        opened == IF miss THEN activateBank(closed, b, row, act_tick) ELSE Now
        early == IF bubble = FetchBubble THEN tCL + tBURST ELSE 0
        cmd_at == Most(opened.bank[b].col, Most(nextBurstAt + bubble - early, 0))
        moved == [opened EXCEPT !.bank[b].pre = Most(@, cmd_at + recovery)]
        done == IF auto THEN prechargeBank(moved, b, moved.bank[b].pre, TRUE) ELSE moved
    IN  /\ refreshState = "REF_IDLE"
        /\ nextBurstAt - tRP - tRCD <= 0
        /\ ~miss => delay = 0 /\ bubble = 0
        /\ delay = 0 \/ bubble = 0
        /\ Keep(IF delay = 0 THEN done ELSE delayBankRowhammer(done, b, row, act_tick, delay))
        /\ nextBurstAt' = cmd_at + tBURST + (IF delay = 0 THEN 0 ELSE BusDelay)
        /\ lastAct' = IF miss THEN [lastAct EXCEPT ![b] = act_tick] ELSE lastAct
        /\ mitigated' = IF delay = 0 THEN mitigated
                        ELSE [mitigated EXCEPT ![b] = act_tick + delay]
        /\ cmd' = [bank |-> b, act |-> miss, actAt |-> IF miss THEN act_tick ELSE 0,
                   busy |-> mitigated[b]]
        /\ UNCHANGED <<refreshState, refreshAt>>

\* A refresh is due: all banks are precharged at the first tick that suits all.
RefreshPre ==
    LET pre_at == Longest({0} \cup {bank[b].pre : b \in Banks})
        open == {b \in Banks : bank[b].openRow # NO_ROW}
    IN  /\ refreshState = "REF_IDLE"
        /\ refreshState' = "REF_PRE"
        /\ IF open = {} THEN Keep(Now)
           ELSE /\ bank' = [b \in Banks |->
                      [bank[b] EXCEPT !.openRow = NO_ROW, !.act = Most(@, pre_at + tRP),
                                      !.pre = Most(@, pre_at)]]
                /\ numBanksActive' = numBanksActive - Cardinality(open)
                /\ prechargeAt' = Most(prechargeAt, pre_at + tRP)
                /\ UNCHANGED actTicks
        /\ cmd' = NoCmd
        /\ UNCHANGED <<nextBurstAt, refreshAt, lastAct, mitigated>>

RefreshStart ==
    /\ refreshState = "REF_PRE"
    /\ prechargeAt = 0
    /\ refreshState' = "REF_RUN"
    /\ refreshAt' = tRFC
    /\ bank' = [b \in Banks |-> [bank[b] EXCEPT !.act = tRFC]]
    /\ cmd' = NoCmd
    /\ UNCHANGED <<numBanksActive, actTicks, nextBurstAt, prechargeAt, lastAct, mitigated>>

RefreshRun ==
    /\ refreshState = "REF_RUN"
    /\ refreshAt = 0
    /\ refreshState' = "REF_IDLE"
    /\ cmd' = NoCmd
    /\ UNCHANGED <<bank, numBanksActive, actTicks, nextBurstAt, prechargeAt, refreshAt,
                   lastAct, mitigated>>

Less(t) == Most(t - 1, 0)

Tick ==
    /\ refreshState = "REF_PRE" => prechargeAt > 0
    /\ refreshState = "REF_RUN" => refreshAt > 0
    /\ bank' = [b \in Banks |-> [bank[b] EXCEPT !.act = Less(@), !.pre = Less(@),
                                                !.col = Less(@)]]
    /\ actTicks' = [i \in 1..ActivationLimit |-> Most(actTicks[i] - 1, -tXAW)]
    /\ nextBurstAt' = Most(nextBurstAt - 1, -Longest(Bubbles))
    /\ prechargeAt' = Less(prechargeAt)
    /\ refreshAt' = Less(refreshAt)
    /\ lastAct' = [b \in Banks |-> Most(lastAct[b] - 1, -(tRAS + tRP))]
    /\ mitigated' = [b \in Banks |-> Less(mitigated[b])]
    /\ cmd' = NoCmd
    /\ UNCHANGED <<numBanksActive, refreshState>>

Burst ==
    \E b \in Banks, row \in Rows, recovery \in Recoveries, auto \in BOOLEAN,
       delay \in BankDelays, bubble \in Bubbles :
        doBurstAccess(b, row, recovery, auto, delay, bubble)

Next == Burst \/ RefreshPre \/ RefreshStart \/ RefreshRun \/ Tick

Spec == Init /\ [][Next]_vars

-----------------------------------------------------------------------------
(* Properties                                                              *)

\* No more than ActivationLimit activates of the rank lie in a window of tXAW,
\* whatever mitigations and refreshes come between (the panic of activateBank).
WindowKept == [][cmd'.act => cmd'.actAt - actTicks[ActivationLimit] >= tXAW]_vars

\* Two activates of a bank are a row cycle apart, with a precharge between.
RowCycleKept ==
    [][cmd'.act => cmd'.actAt - lastAct[cmd'.bank] >= tRAS + tRP]_vars

\* A bank is not activated before its mitigation is over: neither the refresh,
\* which overwrites the tick of every bank, nor an access of another bank
\* shortens the delay (delayBankRowhammer, processRefreshEvent).
MitigationKept == cmd.act => cmd.actAt >= cmd.busy
=============================================================================
