-------------------------------- MODULE Rank --------------------------------
(***************************************************************************)
(* The ranks of a DRAM channel (mem/mem_interface.cc, DRAMInterface::Rank): *)
(* the refresh, power and wake-up events that hand control to each other,  *)
(* driven by the controller's request and response events.                 *)
(*                                                                         *)
(* The event queue is the one of sim/eventq.cc: ordered by time, and among *)
(* events of one tick the one scheduled last runs first.  A handler is an  *)
(* operator from state to state, in the order of its statements; a failed  *)
(* assertion or a panic is recorded in s.err and ends the run.  All times  *)
(* are relative to the current tick.  Which row a burst goes to, the page  *)
(* policy and the controller's choice between reads and writes are free.   *)
(***************************************************************************)
EXTENDS Integers, Sequences, FiniteSets, SequencesExt

CONSTANTS
    RanksPerChannel, BanksPerRank,
    tCK, tRCD, tRP, tRAS, tRTP, tWR, tRRD, tBURST, tRFC, tXP, tXS,
    tDATA,               \* tCL + tBURST
    Setups,              \* the simulations, records of: tREFI; powerdown, that is
                         \* enable_dram_powerdown; drains, whether the system is ever
                         \* drained; bubbles, the delays that a mitigation may ask for
                         \* before a burst; banks, how many of them are accessed; and
                         \* bounds on the reads and writes that wait at a rank
    BubbleCap,           \* 7.8 us: a bubble of this size or more is cut ...
    BubbleLimit          \* ... to 7.0 us

ASSUME RankAssumption ==
    /\ {RanksPerChannel, BanksPerRank} \subseteq Nat \ {0}
    /\ {tCK, tRCD, tRP, tRAS, tRTP, tBURST, tDATA, tRFC} \subseteq Nat \ {0}
    /\ {tWR, tRRD, tXP, tXS} \subseteq Nat
    /\ {BubbleCap, BubbleLimit} \subseteq Nat
    /\ \A u \in Setups :
         /\ DOMAIN u =
              {"tREFI", "powerdown", "drains", "bubbles", "banks", "reads", "writes"}
         /\ u.banks \in 1..BanksPerRank
         /\ u.tREFI \in Nat /\ u.tREFI > tRFC + tRP
         /\ {u.powerdown, u.drains} \subseteq BOOLEAN
         /\ 0 \in u.bubbles /\ u.bubbles \cup {u.reads, u.writes} \subseteq Nat

Ranks == 0..(RanksPerChannel - 1)

Banks == 0..(BanksPerRank - 1)

PDN == {"PWR_PRE_PDN", "PWR_ACT_PDN", "PWR_SREF"}

VARIABLE s

\* Every bank of a rank is closed, and free of constraints.
NewBank == [open |-> FALSE, actAllowedAt |-> 0, preAllowedAt |-> 0, colAllowedAt |-> 0]

NewRank ==
    [pwrState |-> "PWR_IDLE", pwrStateTrans |-> "PWR_IDLE",
     pwrStatePostRefresh |-> "PWR_IDLE", refreshState |-> "REF_IDLE",
     inLowPowerState |-> FALSE, outstandingEvents |-> 0, wakeUpAllowedAt |-> 0,
     refreshDueAt |-> 0, readEntries |-> 0, writeEntries |-> 0,
     banks |-> [i \in Banks |-> NewBank]]

Most(a, b) == IF a > b THEN a ELSE b

Least(S) == CHOOSE a \in S : \A b \in S : a <= b

-----------------------------------------------------------------------------
(* The event queue                                                         *)

\* An event e of rank k; the events of the controller have rank 0.
Scheduled(x, e, k) == \E i \in 1..Len(x.q) : x.q[i].e = e /\ x.q[i].k = k

When(x, e, k) == (CHOOSE v \in ToSet(x.q) : v.e = e /\ v.k = k).at

Fail(x, what) == IF x.err = "none" THEN [x EXCEPT !.err = what] ELSE x

Checked(x, holds, what) == IF holds THEN x ELSE Fail(x, what)

\* Mutant: among events of one tick the first scheduled runs first.
InsertLast(q, v) ==
    SelectSeq(q, LAMBDA u : u.at <= v.at) \o <<v>> \o SelectSeq(q, LAMBDA u : u.at > v.at)

Insert(q, v) ==
    SelectSeq(q, LAMBDA u : u.at < v.at) \o <<v>> \o SelectSeq(q, LAMBDA u : u.at >= v.at)

\* "now" marks an event that was scheduled for the tick it was scheduled in.
schedule(x, e, k, t) ==
    IF Scheduled(x, e, k) THEN Fail(x, "event is already scheduled")
    ELSE IF t < 0 THEN Fail(x, "event lies in the past")
    ELSE [x EXCEPT !.q = Insert(@, [e |-> e, k |-> k, at |-> t, now |-> t = 0])]

reschedule(x, e, k, t) ==
    schedule([x EXCEPT !.q = SelectSeq(@, LAMBDA v : ~(v.e = e /\ v.k = k))], e, k, t)

restartScheduler(x) ==
    IF Scheduled(x, "nextReq", 0) THEN x ELSE schedule(x, "nextReq", 0, 0)

-----------------------------------------------------------------------------
(* Banks                                                                   *)

Active(x, k) == {i \in Banks : x.r[k].banks[i].open}

\* A constraint on every bank of rank k.
NotBefore(x, k, field, t) ==
    [x EXCEPT !.r[k].banks = [i \in Banks |-> [@[i] EXCEPT ![field] = Most(@, t)]]]

\* The precharge of bank i at pre_at, and the event when the last one is done.
prechargeBank(x, k, i, pre_at, auto) ==
    LET closed == [x EXCEPT !.r[k].banks[i].open = FALSE,
                            !.r[k].banks[i].actAllowedAt = Most(@, pre_at + tRP)]
        fixed == IF auto THEN [closed EXCEPT !.r[k].banks[i].preAllowedAt = pre_at]
                 ELSE NotBefore(closed, k, "preAllowedAt", pre_at)
    IN  IF ~Scheduled(x, "precharge", k)
        THEN schedule([fixed EXCEPT !.r[k].outstandingEvents = @ + 1],
                      "precharge", k, pre_at + tRP)
        ELSE IF When(x, "precharge", k) < pre_at + tRP
        THEN reschedule(fixed, "precharge", k, pre_at + tRP)
        ELSE fixed

activateBank(x, k, i, act_at) ==
    LET opened == [x EXCEPT !.r[k].banks[i].open = TRUE,
                            !.r[k].banks[i].preAllowedAt = act_at + tRAS,
                            !.r[k].banks[i].colAllowedAt = Most(@, act_at + tRCD)]
        spaced == NotBefore(opened, k, "actAllowedAt", act_at + tRRD)
    IN  IF ~Scheduled(x, "activate", k) THEN schedule(spaced, "activate", k, act_at)
        ELSE IF When(x, "activate", k) > act_at THEN reschedule(spaced, "activate", k, act_at)
        ELSE spaced

-----------------------------------------------------------------------------
(* Power states                                                            *)

isQueueEmpty(x, k) ==
    IF x.busStateNext = "READ" THEN x.r[k].readEntries = 0 ELSE x.r[k].writeEntries = 0

schedulePowerEvent(x, k, state, t) ==
    IF Scheduled(x, "power", k) THEN Fail(x, "power event is already scheduled")
    ELSE schedule([x EXCEPT !.r[k].pwrStateTrans = state], "power", k, t)

powerDownSleep(x, k, state) ==
    LET y == Checked(x, state = "PWR_SREF" =>
                         x.r[k].pwrStatePostRefresh = "PWR_PRE_PDN", "SREF not from PRE_PDN")
        z == schedulePowerEvent(y, k, IF state = "PWR_REF" THEN "PWR_PRE_PDN" ELSE state, 0)
    IN  [z EXCEPT !.r[k].wakeUpAllowedAt = tCK, !.r[k].inLowPowerState = TRUE]

scheduleWakeUpEvent(x, k, exit_delay) ==
    LET t == x.r[k].wakeUpAllowedAt
        post == IF x.r[k].refreshState = "REF_PD_EXIT" THEN x.r[k].pwrState ELSE "PWR_IDLE"
        y == schedule([x EXCEPT !.r[k].pwrStatePostRefresh = post,
                                !.r[k].inLowPowerState = FALSE], "wakeUp", k, t)
    IN  NotBefore(NotBefore(NotBefore(y, k, "actAllowedAt", t + exit_delay),
                            k, "preAllowedAt", t + exit_delay),
                  k, "colAllowedAt", t + exit_delay)

processWakeUpEvent(x, k) ==
    schedulePowerEvent(Checked(x, x.r[k].pwrState \in PDN, "wake-up while awake"), k,
        IF x.r[k].pwrState = "PWR_ACT_PDN" THEN "PWR_ACT" ELSE "PWR_IDLE", 0)

processActivateEvent(x, k) ==
    IF x.r[k].pwrState = "PWR_ACT" THEN x ELSE schedulePowerEvent(x, k, "PWR_ACT", 0)

processPrechargeEvent(x, k) ==
    LET y == [Checked(x, x.r[k].outstandingEvents > 0, "no precharge outstanding")
                 EXCEPT !.r[k].outstandingEvents = @ - 1]
    IN  IF Active(y, k) # {} THEN y
        ELSE IF isQueueEmpty(y, k) /\ y.r[k].outstandingEvents = 0 /\ y.setup.powerdown
        THEN powerDownSleep(Checked(y, y.r[k].pwrState = "PWR_ACT", "precharged while not active"),
                            k, "PWR_PRE_PDN")
        ELSE schedulePowerEvent(y, k, "PWR_IDLE", 0)

processWriteDoneEvent(x, k) ==
    [Checked(x, x.r[k].outstandingEvents > 0, "no write outstanding")
        EXCEPT !.r[k].outstandingEvents = @ - 1]

Draining(x) == x.drainState # "Running"

\* The four parts of processPowerEvent(): the end of a refresh ...
RefreshEnds(x, k) ==
    LET y == Checked(Checked(x, x.r[k].outstandingEvents = 1, "events left after refresh"),
                    x.r[k].pwrState \in {"PWR_IDLE", "PWR_PRE_PDN"}, "state after refresh")
    IN  restartScheduler([y EXCEPT !.r[k].outstandingEvents = @ - 1,
                                   !.r[k].refreshState = "REF_IDLE"])

\* ... the banks are open again, after active power-down ...
ActiveAgain(x, k, prev) ==
    schedule([Checked(x, prev = "PWR_ACT_PDN", "active not from ACT_PDN")
                 EXCEPT !.r[k].refreshState = "REF_PRE"], "refresh", k, 0)

\* ... the rank is idle, with a refresh waiting for that ...
IdleNow(x, k, prev) ==
    IF prev = "PWR_SREF"
    THEN schedule([x EXCEPT !.r[k].refreshState = "REF_SREF_EXIT"], "refresh", k, tXS)
    ELSE IF x.r[k].refreshState \notin {"REF_PRE", "REF_PD_EXIT"} THEN x
    ELSE IF Scheduled(x, "activate", k)
    THEN Checked(x, Scheduled(x, "precharge", k), "no precharge after activate")
    ELSE IF x.r[k].refreshState = "REF_PD_EXIT"
    THEN schedulePowerEvent(Checked(x, prev = "PWR_PRE_PDN", "idle not from PRE_PDN"),
                            k, "PWR_REF", tXP)
    ELSE [x EXCEPT !.r[k].pwrState = "PWR_REF"]

\* ... and the refresh itself, unless the rank may refresh itself instead.
RefreshBegins(x, k) ==
    LET y == Checked(x, x.r[k].refreshState \in {"REF_PRE", "REF_PD_EXIT"}, "no refresh waits")
    IN  IF /\ x.r[k].pwrStatePostRefresh = "PWR_PRE_PDN" /\ isQueueEmpty(x, k)
           /\ ~Draining(x) /\ x.setup.powerdown
        THEN LET z == Checked(powerDownSleep(y, k, "PWR_SREF"),
                             x.r[k].outstandingEvents = 1, "events left at self-refresh")
             IN  [z EXCEPT !.r[k].outstandingEvents = @ - 1, !.r[k].pwrState = "PWR_IDLE"]
        ELSE schedule([y EXCEPT !.r[k].refreshState = "REF_START"], "refresh", k, 0)

processPowerEvent(x, k) ==
    LET prev == x.r[k].pwrState
        moved == [x EXCEPT !.r[k].pwrState = x.r[k].pwrStateTrans]
        ended == IF prev = "PWR_REF" THEN RefreshEnds(moved, k) ELSE moved
        next == IF ended.r[k].pwrState = "PWR_ACT" /\ ended.r[k].refreshState = "REF_PD_EXIT"
                THEN ActiveAgain(ended, k, prev)
                ELSE IF ended.r[k].pwrState = "PWR_IDLE" THEN IdleNow(ended, k, prev)
                ELSE ended
    IN  IF next.r[k].pwrState = "PWR_REF" THEN RefreshBegins(next, k) ELSE next

-----------------------------------------------------------------------------
(* Refresh                                                                 *)

\* The precharge of all banks at the first tick that suits them all.
PrechargeAll(x, k) ==
    LET pre_at == Least({t \in {0} \cup {x.r[k].banks[i].preAllowedAt : i \in Banks} :
                            \A i \in Banks : x.r[k].banks[i].preAllowedAt <= t})
        One(y, i) ==
            IF y.r[k].banks[i].open THEN prechargeBank(y, k, i, pre_at, TRUE)
            ELSE [y EXCEPT !.r[k].banks[i].actAllowedAt = Most(@, pre_at + tRP),
                           !.r[k].banks[i].preAllowedAt = Most(@, pre_at)]
    IN  FoldLeft(One, x, [i \in 1..BanksPerRank |-> i - 1])

\* The banks must be closed and every transfer over before the refresh.
RefreshPre(x, k) ==
    LET y == [x EXCEPT !.r[k].refreshState = "REF_PRE"]
    IN  IF Active(y, k) # {} THEN PrechargeAll(y, k)
        ELSE IF y.r[k].pwrState = "PWR_IDLE" /\ y.r[k].outstandingEvents = 1
        THEN schedulePowerEvent(y, k, "PWR_REF", 0)
        ELSE Checked(y, Scheduled(y, "precharge", k) \/ Scheduled(y, "respond", 0),
                    "nothing for the refresh to wait for")

RefreshPdExit(x, k) ==
    LET y == [x EXCEPT !.r[k].refreshState = "REF_PD_EXIT"]
    IN  IF y.r[k].inLowPowerState THEN scheduleWakeUpEvent(y, k, tXP) ELSE RefreshPre(y, k)

\* A refresh falls due; a burst that is about to go to this rank comes first.
RefreshDue(x, k) ==
    LET y == [x EXCEPT !.r[k].refreshDueAt = 0, !.r[k].refreshState = "REF_DRAIN",
                       !.r[k].outstandingEvents = @ + 1]
    IN  IF x.activeRank = k /\ Scheduled(x, "nextReq", 0) THEN y ELSE RefreshPdExit(y, k)

Quiet(x, k) ==
    Checked(x, Active(x, k) = {} /\ x.r[k].pwrState = "PWR_REF", "refresh of an active rank")

RefreshStart(x, k) ==
    LET y == [Quiet(x, k) EXCEPT
                !.r[k].banks = [i \in Banks |-> [@[i] EXCEPT !.actAllowedAt = tRFC]],
                !.r[k].refreshDueAt = @ + x.setup.tREFI,
                !.r[k].refreshState = "REF_RUN"]
    IN  schedule(Checked(y, y.r[k].refreshDueAt >= tRFC, "refresh cannot catch up"),
                 "refresh", k, tRFC)

RefreshRun(x, k) ==
    LET y == Quiet(x, k)
        z == IF Draining(y) THEN schedulePowerEvent(y, k, "PWR_IDLE", 0)
             ELSE IF y.r[k].pwrStatePostRefresh # "PWR_IDLE"
             THEN powerDownSleep(y, k, "PWR_REF")
             ELSE IF isQueueEmpty(y, k) /\ y.setup.powerdown
             THEN powerDownSleep(Checked(y, y.r[k].outstandingEvents = 1, "events left"),
                                 k, "PWR_PRE_PDN")
             ELSE schedulePowerEvent(y, k, "PWR_IDLE", 0)
    IN  schedule(z, "refresh", k, z.r[k].refreshDueAt - tRP)

processRefreshEvent(x, k) ==
    CASE x.r[k].refreshState \in {"REF_IDLE", "REF_SREF_EXIT"} -> RefreshDue(x, k)
      [] x.r[k].refreshState = "REF_PD_EXIT" -> RefreshPdExit(x, k)
      [] x.r[k].refreshState = "REF_PRE" -> RefreshPre(x, k)
      [] x.r[k].refreshState = "REF_START" -> RefreshStart(x, k)
      [] x.r[k].refreshState = "REF_RUN" -> RefreshRun(x, k)

-----------------------------------------------------------------------------
(* The controller                                                          *)

Queued(x, k) == x.r[k].readEntries
                  - Cardinality({j \in 1..Len(x.respQueue) : x.respQueue[j].k = k})

allRanksDrained(x) ==
    \A k \in Ranks : x.r[k].pwrState = "PWR_IDLE" /\ x.r[k].refreshState = "REF_IDLE"

NoneQueued(x) == \A k \in Ranks : Queued(x, k) = 0 /\ x.r[k].writeEntries = 0

Quiesced(x) == NoneQueued(x) /\ x.respQueue = <<>> /\ allRanksDrained(x)

\* The ranks that a burst of the current direction could go to.
Ready(x) ==
    {k \in Ranks : /\ x.r[k].refreshState = "REF_IDLE"
                   /\ IF x.busStateNext = "READ" THEN Queued(x, k) > 0
                      ELSE x.r[k].writeEntries > 0}

Busy(x, k) == x.r[k].refreshState # "REF_IDLE" /\ x.r[k].pwrState # "PWR_SREF"

\* Mutant: only writes wake a rank.
forceExitForWrites(x, k) == x.busStateNext = "WRITE" /\ x.r[k].writeEntries # 0

forceSelfRefreshExit(x, k) ==
    \/ x.r[k].readEntries # 0
    \/ x.busStateNext = "WRITE" /\ x.r[k].writeEntries # 0

\* isBusy() lets a refresh go on that waited for the request loop, and wakes
\* a rank from self-refresh that has requests waiting.
checkRanks(x) ==
    LET One(y, k) ==
          IF Busy(y, k)
          THEN IF y.r[k].refreshState = "REF_DRAIN"
               THEN schedule([y EXCEPT !.r[k].refreshState = "REF_PD_EXIT"], "refresh", k, 0)
               ELSE y
          ELSE IF /\ y.r[k].pwrState = "PWR_SREF" /\ y.r[k].inLowPowerState
                  /\ y.r[k].refreshState # "REF_IDLE" /\ forceSelfRefreshExit(y, k)
          THEN scheduleWakeUpEvent(y, k, tXS)
          ELSE y
    IN  FoldLeft(One, x, [k \in 1..RanksPerChannel |-> k - 1])

scheduleNext(x) ==
    IF Scheduled(x, "nextReq", 0) THEN x
    ELSE schedule(x, "nextReq", 0, Most(x.nextBurstAt - tRP - tRCD, 0))

\* The bubble that is put on the bus for a mitigation.
Bubble(size) == IF size >= BubbleCap THEN BubbleLimit ELSE size

\* A burst to bank i of rank k: a row hit or not, with auto-precharge or not,
\* and with a bubble on the bus before it.
doBurstAccess(x, k, i, hit, auto, bubble) ==
    LET isRead == x.busStateNext = "READ"
        awake == IF x.r[k].inLowPowerState
                 THEN scheduleWakeUpEvent(
                        Checked(x, x.r[k].pwrState # "PWR_SREF", "burst in self-refresh"), k, tXP)
                 ELSE x
        closed == IF ~hit /\ awake.r[k].banks[i].open
                  THEN prechargeBank(awake, k, i, awake.r[k].banks[i].preAllowedAt, FALSE)
                  ELSE awake
        opened == IF hit THEN awake
                  ELSE activateBank(closed, k, i, closed.r[k].banks[i].actAllowedAt)
        cmd_at == Most(opened.r[k].banks[i].colAllowedAt, x.nextBurstAt + Bubble(bubble))
        ready == cmd_at + tDATA
        moved == [opened EXCEPT
                    !.activeRank = k,
                    !.nextBurstAt = cmd_at + tBURST,
                    !.r[k].banks[i].preAllowedAt =
                        Most(@, IF isRead THEN cmd_at + tRTP ELSE ready + tWR)]
        done == IF auto
                THEN prechargeBank(moved, k, i, moved.r[k].banks[i].preAllowedAt, TRUE)
                ELSE moved
        read == [done EXCEPT !.r[k].outstandingEvents = @ + 1,
                             !.respQueue = Append(@, [k |-> k, at |-> ready])]
        write == [done EXCEPT !.r[k].writeEntries = @ - 1]
    IN  IF isRead
        THEN IF x.respQueue = <<>> THEN schedule(read, "respond", 0, ready) ELSE read
        ELSE IF ~Scheduled(x, "writeDone", k)
        THEN schedule([write EXCEPT !.r[k].outstandingEvents = @ + 1], "writeDone", k, ready)
        ELSE IF When(x, "writeDone", k) < ready
        THEN reschedule(write, "writeDone", k, ready)
        ELSE write

\* The bus may turn to the writes that wait, or to reads.
Turns(x) ==
    {"READ"} \cup (IF \E k \in Ranks : x.r[k].writeEntries > 0 THEN {"WRITE"} ELSE {})

Issued(x) ==
    UNION {{scheduleNext([y EXCEPT !.busStateNext = turn]) : turn \in Turns(y)} :
           y \in {doBurstAccess(x, c[1], c[2], c[3], c[4], c[5]) :
                  c \in {d \in Ready(x) \X (0..x.setup.banks - 1) \X BOOLEAN \X BOOLEAN \X x.setup.bubbles :
                         d[3] => x.r[d[1]].banks[d[2]].open /\ d[5] = 0}}}

\* What processNextReqEvent() may leave behind.
processNextReqEvent(x) ==
    LET y == checkRanks(x)
        idle == y.busStateNext = "READ" /\ \A k \in Ranks : Queued(y, k) = 0
        writes == \E k \in Ranks : y.r[k].writeEntries > 0
    IN  IF \A k \in Ranks : Busy(x, k) THEN {y}
        ELSE IF idle
        THEN (IF writes THEN {scheduleNext([y EXCEPT !.busStateNext = "WRITE"])} ELSE {})
               \cup (IF writes /\ y.drainState = "Draining" THEN {}
                     ELSE {[y EXCEPT !.drainState =
                              IF @ = "Draining" /\ Quiesced(y) THEN "Drained" ELSE @]})
        ELSE IF Ready(y) = {} THEN {y}
        ELSE Issued(y)

\* The answer of a read arrives; the last one to wait for may have kept the
\* rank from power-down, or its refresh from going on.
RespondRank(x, k) ==
    LET y == [x EXCEPT !.r[k].readEntries = @ - 1, !.r[k].outstandingEvents = @ - 1]
        z == Checked(Checked(y, x.r[k].outstandingEvents > 0, "no read outstanding"),
                    x.r[k].pwrState \notin PDN, "answer while asleep")
    IN  IF /\ isQueueEmpty(z, k) /\ z.r[k].outstandingEvents = 0
           /\ z.r[k].refreshState = "REF_IDLE" /\ z.setup.powerdown
        THEN powerDownSleep(
               Checked(z, ~Scheduled(z, "activate", k) /\ ~Scheduled(z, "precharge", k),
                      "sleep with events left"),
               k, IF z.r[k].pwrState = "PWR_IDLE" THEN "PWR_PRE_PDN" ELSE "PWR_ACT_PDN")
        ELSE z

\* Mutant: the answer does not restart the refresh.
checkRefreshStateNever(x, k) == x

checkRefreshState(x, k) ==
    IF x.r[k].refreshState = "REF_PRE" /\ ~Scheduled(x, "precharge", k)
    THEN schedule(x, "refresh", k, 0) ELSE x

processRespondEvent(x) ==
    LET k == Head(x.respQueue).k
        y == [RespondRank(x, k) EXCEPT !.respQueue = Tail(@)]
    IN  IF y.respQueue # <<>> THEN schedule(y, "respond", 0, Head(y.respQueue).at)
        ELSE IF y.drainState = "Draining" /\ Quiesced(y)
        THEN [y EXCEPT !.drainState = "Drained"]
        ELSE checkRefreshState(y, k)

drainRanks(x) ==
    LET One(y, k) == IF y.r[k].pwrState = "PWR_SREF"
                     THEN scheduleWakeUpEvent(y, k, tXS) ELSE y
    IN  FoldLeft(One, x, [k \in 1..RanksPerChannel |-> k - 1])

-----------------------------------------------------------------------------
(* The steps                                                               *)

Init ==
    \E u \in Setups :
    s = [setup |-> u,
         q |-> [k \in 1..RanksPerChannel |->
                  [e |-> "refresh", k |-> RanksPerChannel - k, at |-> u.tREFI - tRP, now |-> FALSE]],
         r |-> [k \in Ranks |-> NewRank],
         respQueue |-> <<>>, busStateNext |-> "READ", nextBurstAt |-> 0,
         activeRank |-> 0, drainState |-> "Running", err |-> "none"]

\* Nothing else runs before the events scheduled for the current tick.
Between == s.err = "none" /\ (s.q # <<>> => ~Head(s.q).now)

Request(k) ==
    /\ Between
    /\ \/ /\ s.r[k].readEntries < s.setup.reads
          /\ s' = restartScheduler([s EXCEPT !.r[k].readEntries = @ + 1])
       \/ /\ s.r[k].writeEntries < s.setup.writes
          /\ s' = restartScheduler([s EXCEPT !.r[k].writeEntries = @ + 1])

\* Runs the first event of the current tick.
Fire ==
    /\ s.err = "none"
    /\ s.q # <<>> /\ Head(s.q).at = 0
    /\ LET x == [s EXCEPT !.q = Tail(@)]
           k == Head(s.q).k
       IN  CASE Head(s.q).e = "refresh" -> s' = processRefreshEvent(x, k)
             [] Head(s.q).e = "power" -> s' = processPowerEvent(x, k)
             [] Head(s.q).e = "wakeUp" -> s' = processWakeUpEvent(x, k)
             [] Head(s.q).e = "activate" -> s' = processActivateEvent(x, k)
             [] Head(s.q).e = "precharge" -> s' = processPrechargeEvent(x, k)
             [] Head(s.q).e = "writeDone" -> s' = processWriteDoneEvent(x, k)
             [] Head(s.q).e = "respond" -> s' = processRespondEvent(x)
             [] Head(s.q).e = "nextReq" -> s' \in processNextReqEvent(x)

Ended == s.q # <<>> => Head(s.q).at > 0

\* How far back the end of the last burst still matters to a bubble.
Longest == CHOOSE b \in s.setup.bubbles : \A c \in s.setup.bubbles : c <= b

Less(t) == IF t > 0 THEN t - 1 ELSE 0

Tick ==
    /\ s.err = "none"
    /\ Ended
    /\ s' = [s EXCEPT
         !.q = [j \in DOMAIN @ |-> [@[j] EXCEPT !.at = @ - 1]],
         !.respQueue = [j \in DOMAIN @ |-> [@[j] EXCEPT !.at = @ - 1]],
         !.nextBurstAt = Most(@ - 1, -Longest),
         !.r = [k \in Ranks |-> [@[k] EXCEPT
             !.wakeUpAllowedAt = Less(@), !.refreshDueAt = Most(@ - 1, -s.setup.tREFI),
             !.banks = [i \in Banks |-> [@[i] EXCEPT
                 !.actAllowedAt = Less(@), !.preAllowedAt = Less(@),
                 !.colAllowedAt = Less(@)]]]]]

drain ==
    /\ s.setup.drains /\ s.err = "none" /\ Ended
    /\ s.drainState \in {"Running", "Drained"}
    /\ s' = IF Quiesced(s) THEN [s EXCEPT !.drainState = "Drained"]
            ELSE drainRanks([(IF \A k \in Ranks : s.r[k].writeEntries = 0
                              THEN restartScheduler(s) ELSE s)
                               EXCEPT !.drainState = "Draining"])

drainResume ==
    /\ s.err = "none" /\ Ended
    /\ s.drainState = "Drained" /\ Quiesced(s)
    /\ s' = [s EXCEPT !.drainState = "Running"]

Next == (\E k \in Ranks : Request(k)) \/ Fire \/ Tick \/ drain \/ drainResume

Spec == Init /\ [][Next]_s

\* The simulation goes on: every event of a tick is run, and time passes.
FairSpec == Spec /\ WF_s(Tick) /\ []<>(Ended \/ s.err # "none")

-----------------------------------------------------------------------------
(* Properties                                                              *)

\* No assertion of the rank's handlers fails, no event is scheduled twice or
\* in the past, no two power transitions meet, and no refresh comes so late
\* that the next cannot follow (the asserts, the panic and the fatal of
\* mem_interface.cc, and the asserts of EventQueue::schedule).
NothingFails == s.err = "none"

\* Every rank is refreshed again and again, or refreshes itself: no order of
\* bursts, precharges, power-downs and wake-ups leaves the refresh loop waiting
\* for an event that was not scheduled (Rank::processRefreshEvent).
RefreshedForever ==
    \A k \in Ranks : []<>(s.r[k].refreshState = "REF_RUN" \/ s.r[k].pwrState = "PWR_SREF")

\* A read of a rank that refreshes, is powered down or refreshes itself is
\* answered: the rank is woken for it (DRAMInterface::isBusy, doBurstAccess).
ReadsAnswered == \A k \in Ranks : s.r[k].readEntries > 0 ~> s.r[k].readEntries = 0
=============================================================================
