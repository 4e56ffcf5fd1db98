------------------------------ MODULE MemCtrl ------------------------------
(***************************************************************************)
(* The memory controller of the gem5 model (mem/mem_ctrl.cc): the read,    *)
(* write and response queues, the two events that empty them, the refusal  *)
(* and retry of requests, the turns of the data bus between reads and      *)
(* writes, and draining.  The DRAM ranks appear by what the controller     *)
(* sees of them: whether a refresh keeps a rank from being used, whether a *)
(* refresh waits for the request loop, and whether banks are open.         *)
(*                                                                         *)
(* One action is one handler run of the event queue or one call from the   *)
(* port or the drain manager.  Time is left out but for one thing: an      *)
(* event scheduled for the current tick runs before a refresh that falls   *)
(* due later (nextReqEvent = "now").                                       *)
(***************************************************************************)
EXTENDS Naturals, Sequences, FiniteSets, SequencesExt

CONSTANTS
    Requests,            \* the packets the port may send, each once
    Workloads,           \* the sets of requests that are sent together
    Writes,              \* the ones among them that write
    Pieces,              \* Pieces[r]: the bursts r is split into, a sequence
                         \* of [addr, bytes] records with distinct addr
    RanksPerChannel,
    RankOf,              \* RankOf[a]: the rank that holds burst address a
    ReadBufferSize,
    WriteBufferSize,
    WriteHighThreshold,
    WriteLowThreshold,
    MinWritesPerSwitch

Ranks == 0..(RanksPerChannel - 1)

ASSUME RequestAssumption ==
    /\ RanksPerChannel \in Nat \ {0}
    /\ RankOf \in [DOMAIN RankOf -> Ranks]
    /\ Writes \subseteq Requests /\ Workloads \subseteq SUBSET Requests
    /\ \A r \in Requests :
          /\ Pieces[r] \in Seq([addr : DOMAIN RankOf, bytes : SUBSET Nat])
          /\ Len(Pieces[r]) > 0
          /\ \A i, j \in 1..Len(Pieces[r]) :
                Pieces[r][i].addr = Pieces[r][j].addr => i = j

\* Without the last two conjuncts some request would be refused for ever.
ASSUME SizeAssumption ==
    /\ {ReadBufferSize, WriteBufferSize, WriteHighThreshold, WriteLowThreshold,
        MinWritesPerSwitch} \subseteq Nat
    /\ WriteLowThreshold < WriteHighThreshold
    /\ WriteHighThreshold <= WriteBufferSize
    /\ \A r \in Requests \ Writes : Len(Pieces[r]) <= ReadBufferSize
    /\ \A r \in Writes : WriteLowThreshold + Len(Pieces[r]) <= WriteBufferSize

VARIABLES
    status,          \* the port's view of each request
    readQueue, writeQueue, respQueue,
    isInWriteQueue,  \* the burst addresses in writeQueue
    serviced,        \* BurstHelper::burstsServiced of each split read
    nextReqEvent,    \* "none", "now" (at the current tick) or "later"
    respondEvent,    \* is respondEvent scheduled?
    busState, busStateNext,
    writesThisTime,
    retryRdReq, retryWrReq,
    drainState,
    refreshState,    \* per rank: "REF_IDLE", "REF_DRAIN", or "REF_RUN" for
                     \* every state after the drain
    banksOpen,       \* per rank: the power state is not PWR_IDLE
    activeRank,      \* the rank of the last burst
    due              \* the ranks whose refresh of this tREFI is still to come

portVars  == <<status>>
queueVars == <<readQueue, writeQueue, respQueue, isInWriteQueue, serviced>>
busVars   == <<busState, busStateNext, writesThisTime>>
rankVars  == <<refreshState, banksOpen, activeRank, due>>
vars == <<status, queueVars, nextReqEvent, respondEvent, busVars,
          retryRdReq, retryWrReq, drainState, rankVars>>

Init ==
    /\ \E load \in Workloads :
          status = [r \in Requests |-> IF r \in load THEN "new" ELSE "unsent"]
    /\ readQueue = <<>> /\ writeQueue = <<>> /\ respQueue = <<>>
    /\ isInWriteQueue = {}
    /\ serviced = [r \in Requests |-> 0]
    /\ nextReqEvent = "none" /\ respondEvent = FALSE
    /\ busState = "READ" /\ busStateNext = "READ" /\ writesThisTime = 0
    /\ retryRdReq = FALSE /\ retryWrReq = FALSE
    /\ drainState = "Running"
    /\ refreshState = [k \in Ranks |-> "REF_IDLE"]
    /\ banksOpen = [k \in Ranks |-> FALSE]
    /\ activeRank = 0
    /\ due = Ranks

-----------------------------------------------------------------------------
(* Helpers                                                                 *)

\* The elements of q at the positions in I, in the order of q.
Sift(q, I) ==
    [n \in 1..Cardinality(I) |->
        q[CHOOSE i \in I : Cardinality({j \in I : j <= i}) = n]]

Packets(r, pieces) ==
    [i \in 1..Len(pieces) |-> [req |-> r, addr |-> pieces[i].addr,
                               bytes |-> pieces[i].bytes]]

readQueueFull(needed) ==
    Len(readQueue) + Len(respQueue) + needed > ReadBufferSize

writeQueueFull(needed) ==
    Len(writeQueue) + needed > WriteBufferSize

\* The write queue holds every byte of piece p.
FoundInWrQ(p) ==
    /\ p.addr \in isInWriteQueue
    /\ \E w \in ToSet(writeQueue) : w.addr = p.addr /\ p.bytes \subseteq w.bytes

\* Mutant: the event is left as it is.
NotKicked(ev) == ev

\* if (!nextReqEvent.scheduled()) schedule(nextReqEvent, curTick())
Kicked(ev) == IF ev = "none" THEN "now" ELSE ev

allIntfDrained ==
    \A k \in Ranks : refreshState[k] = "REF_IDLE" /\ ~banksOpen[k]

Quiesced ==
    /\ writeQueue = <<>> /\ readQueue = <<>> /\ respQueue = <<>>
    /\ allIntfDrained

packetReady(p) == refreshState[RankOf[p.addr]] = "REF_IDLE"

\* Mutant: the flag is cleared and nothing is sent.
sendNothing(st) == st

\* port.sendRetryReq(): the port may send its refused request again.
sendRetryReq(st) == [q \in Requests |-> IF st[q] = "refused" THEN "again" ELSE st[q]]

-----------------------------------------------------------------------------
(* Requests from the port                                                  *)

addToReadQueue(r) ==
    LET missed == Sift(Pieces[r], {i \in DOMAIN Pieces[r] : ~FoundInWrQ(Pieces[r][i])})
    IN  IF missed = <<>>
        THEN /\ status' = [status EXCEPT ![r] = "answered"]
             /\ UNCHANGED <<readQueue, serviced, nextReqEvent>>
        ELSE /\ status' = [status EXCEPT ![r] = "accepted"]
             /\ readQueue' = readQueue \o Packets(r, missed)
             /\ serviced' = [serviced EXCEPT ![r] = Len(Pieces[r]) - Len(missed)]
             /\ nextReqEvent' = Kicked(nextReqEvent)

\* Mutant: writes are never merged.
addToWriteQueueUnmerged(r) ==
    /\ writeQueue' = writeQueue \o Packets(r, Pieces[r])
    /\ isInWriteQueue' = isInWriteQueue \cup {p.addr : p \in ToSet(Pieces[r])}
    /\ status' = [status EXCEPT ![r] = "answered"]
    /\ nextReqEvent' = Kicked(nextReqEvent)

addToWriteQueue(r) ==
    LET fresh == Sift(Pieces[r], {i \in DOMAIN Pieces[r] :
                                     Pieces[r][i].addr \notin isInWriteQueue})
    IN  /\ writeQueue' = writeQueue \o Packets(r, fresh)
        /\ isInWriteQueue' = isInWriteQueue \cup {p.addr : p \in ToSet(fresh)}
        /\ status' = [status EXCEPT ![r] = "answered"]
        /\ nextReqEvent' = Kicked(nextReqEvent)

RecvRead(r) ==
    /\ r \notin Writes
    /\ IF readQueueFull(Len(Pieces[r]))
       THEN /\ retryRdReq' = TRUE
            /\ status' = [status EXCEPT ![r] = "refused"]
            /\ UNCHANGED <<readQueue, serviced, nextReqEvent>>
       ELSE addToReadQueue(r) /\ UNCHANGED retryRdReq
    /\ UNCHANGED <<writeQueue, isInWriteQueue, retryWrReq>>

RecvWrite(r) ==
    /\ r \in Writes
    /\ IF writeQueueFull(Len(Pieces[r]))
       THEN /\ retryWrReq' = TRUE
            /\ status' = [status EXCEPT ![r] = "refused"]
            /\ UNCHANGED <<writeQueue, isInWriteQueue, nextReqEvent>>
       ELSE addToWriteQueue(r) /\ UNCHANGED retryWrReq
    /\ UNCHANGED <<readQueue, serviced, retryRdReq>>

\* A port whose request was refused sends nothing until it is told to retry.
recvTimingReq(r) ==
    /\ status[r] \in {"new", "again"}
    /\ \A q \in Requests : status[q] # "refused"
    /\ RecvRead(r) \/ RecvWrite(r)
    /\ UNCHANGED <<respQueue, respondEvent, busVars, drainState, rankVars>>

-----------------------------------------------------------------------------
(* The response event                                                      *)

\* Mutant: the first burst answers a split read.
FirstBurst(r) == TRUE

\* The last burst of a split read answers it; an unsplit read has one.
LastBurst(r) == Len(Pieces[r]) = 1 \/ serviced[r] + 1 = Len(Pieces[r])

RespondAgain(q) == q # <<>>

RetryRead == retryRdReq

processRespondEvent ==
    LET r == Head(respQueue).req
        st == IF LastBurst(r) THEN [status EXCEPT ![r] = "answered"] ELSE status
    IN  /\ respondEvent
        /\ serviced' = IF Len(Pieces[r]) > 1
                       THEN [serviced EXCEPT ![r] = @ + 1] ELSE serviced
        /\ respQueue' = Tail(respQueue)
        /\ respondEvent' = RespondAgain(respQueue')
        /\ drainState' = IF /\ drainState = "Draining"
                            /\ respQueue' = <<>>
                            /\ writeQueue = <<>> /\ readQueue = <<>>
                            /\ allIntfDrained
                         THEN "Drained" ELSE drainState
        /\ status' = IF RetryRead THEN sendRetryReq(st) ELSE st
        /\ retryRdReq' = FALSE
        /\ UNCHANGED <<readQueue, writeQueue, isInWriteQueue, nextReqEvent,
                       busVars, retryWrReq, rankVars>>

-----------------------------------------------------------------------------
(* The request event                                                       *)

\* Every run of the handler takes the bus turn decided before, and isBusy()
\* lets the refreshes that waited for the request loop go on.
StartRequestEvent ==
    /\ nextReqEvent # "none"
    /\ busState' = busStateNext
    /\ refreshState' = [k \in Ranks |-> IF refreshState[k] = "REF_DRAIN"
                                        THEN "REF_RUN" ELSE refreshState[k]]
    /\ UNCHANGED <<due, serviced, retryRdReq>>

isBusy == \A k \in Ranks : refreshState[k] # "REF_IDLE"

\* writesThisTime is cleared when the bus turns from writes to reads.
WritesSoFar ==
    IF busState = "WRITE" /\ busStateNext = "READ" THEN 0 ELSE writesThisTime

\* The early returns: nothing is scheduled, nothing is issued.
Return ==
    /\ nextReqEvent' = "none"
    /\ writesThisTime' = WritesSoFar
    /\ UNCHANGED <<status, readQueue, writeQueue, respQueue, isInWriteQueue,
                   respondEvent, busStateNext, retryWrReq, banksOpen, activeRank>>

\* Mutant: a refused write is never sent again.
ScheduleNextNoRetry(n) ==
    /\ nextReqEvent' = "later"
    /\ UNCHANGED <<retryWrReq, status, drainState>>

\* The end of the handler, for a write queue of length n: the next request
\* event is scheduled, and a refused write may be sent again.
ScheduleNext(n) ==
    /\ nextReqEvent' = "later"
    /\ IF retryWrReq /\ n < WriteBufferSize
       THEN retryWrReq' = FALSE /\ status' = sendRetryReq(status)
       ELSE UNCHANGED <<retryWrReq, status>>
    /\ UNCHANGED drainState

doBurstAccess(p) ==
    /\ activeRank' = RankOf[p.addr]
    /\ banksOpen' = [banksOpen EXCEPT ![RankOf[p.addr]] = TRUE]

AllRanksBusy ==
    /\ StartRequestEvent
    /\ isBusy
    /\ Return
    /\ UNCHANGED drainState

\* No read waits and the writes are too few to bother with.
NothingToDo ==
    /\ StartRequestEvent
    /\ ~isBusy
    /\ busStateNext = "READ" /\ readQueue = <<>>
    /\ \/ writeQueue = <<>>
       \/ drainState # "Draining" /\ Len(writeQueue) <= WriteLowThreshold
    /\ drainState' = IF drainState = "Draining" /\ respQueue = <<>> /\ allIntfDrained
                     THEN "Drained" ELSE drainState
    /\ Return

SwitchToWrites ==
    /\ StartRequestEvent
    /\ ~isBusy
    /\ busStateNext = "READ" /\ readQueue = <<>>
    /\ writeQueue # <<>>
    /\ drainState = "Draining" \/ Len(writeQueue) > WriteLowThreshold
    /\ busStateNext' = "WRITE"
    /\ writesThisTime' = WritesSoFar
    /\ ScheduleNext(Len(writeQueue))
    /\ UNCHANGED <<readQueue, writeQueue, respQueue, isInWriteQueue,
                   respondEvent, banksOpen, activeRank>>

\* Every packet of this turn's queue goes to a rank that is refreshing.
NoneFound ==
    /\ StartRequestEvent
    /\ ~isBusy
    /\ \/ busStateNext = "READ" /\ readQueue # <<>>
             /\ \A p \in ToSet(readQueue) : ~packetReady(p)
       \/ busStateNext = "WRITE" /\ \A p \in ToSet(writeQueue) : ~packetReady(p)
    /\ Return
    /\ UNCHANGED drainState

IssueRead(i) ==
    /\ StartRequestEvent
    /\ ~isBusy
    /\ busStateNext = "READ"
    /\ packetReady(readQueue[i])
    /\ doBurstAccess(readQueue[i])
    /\ respQueue' = Append(respQueue, readQueue[i])
    /\ respondEvent' = TRUE
    /\ readQueue' = RemoveAt(readQueue, i)
    /\ busStateNext' = IF Len(writeQueue) > WriteHighThreshold THEN "WRITE" ELSE "READ"
    /\ writesThisTime' = WritesSoFar
    /\ ScheduleNext(Len(writeQueue))
    /\ UNCHANGED <<writeQueue, isInWriteQueue>>

\* Back to reads when the writes are gone, few enough, or enough for this turn.
ReadsNext(n, done) ==
    \/ n = 0
    \/ n + MinWritesPerSwitch < WriteLowThreshold /\ drainState # "Draining"
    \/ readQueue # <<>> /\ done >= MinWritesPerSwitch

IssueWrite(i) ==
    LET p == writeQueue[i]
    IN  /\ StartRequestEvent
        /\ ~isBusy
        /\ busStateNext = "WRITE"
        /\ packetReady(p)
        /\ doBurstAccess(p)
        /\ writeQueue' = RemoveAt(writeQueue, i)
        /\ isInWriteQueue' = isInWriteQueue \ {p.addr}
        /\ writesThisTime' = WritesSoFar + 1
        /\ busStateNext' = IF ReadsNext(Len(writeQueue) - 1, writesThisTime')
                           THEN "READ" ELSE "WRITE"
        /\ ScheduleNext(Len(writeQueue) - 1)
        /\ UNCHANGED <<readQueue, respQueue, respondEvent>>

processNextReqEvent ==
    \/ AllRanksBusy \/ NothingToDo \/ SwitchToWrites \/ NoneFound
    \/ \E i \in 1..Len(readQueue) : IssueRead(i)
    \/ \E i \in 1..Len(writeQueue) : IssueWrite(i)

-----------------------------------------------------------------------------
(* The ranks, as far as the controller sees them                           *)

\* Mutant: the refresh waits although no request event is scheduled.
WaitsAlways(k) == activeRank = k

WaitsForRequests(k) == activeRank = k /\ nextReqEvent # "none"

\* A refresh falls due.  It waits for the request loop if that is about to
\* run and the last burst went to this rank.
RefreshDue(k) ==
    /\ k \in due
    /\ refreshState[k] = "REF_IDLE"
    /\ nextReqEvent # "now"
    /\ due' = due \ {k}
    /\ refreshState' = [refreshState EXCEPT ![k] =
           IF WaitsForRequests(k) THEN "REF_DRAIN" ELSE "REF_RUN"]
    /\ UNCHANGED <<status, queueVars, nextReqEvent, respondEvent, busVars,
                   retryRdReq, retryWrReq, drainState, banksOpen, activeRank>>

\* The refresh is over: its banks are closed, its reads had arrived before it
\* began, and the request loop is started again if it was not scheduled.
RefreshDone(k) ==
    /\ refreshState[k] = "REF_RUN"
    /\ \A p \in ToSet(respQueue) : RankOf[p.addr] # k
    /\ refreshState' = [refreshState EXCEPT ![k] = "REF_IDLE"]
    /\ banksOpen' = [banksOpen EXCEPT ![k] = FALSE]
    /\ nextReqEvent' = Kicked(nextReqEvent)
    /\ due' = IF due = {} /\ \A j \in Ranks \ {k} : refreshState[j] = "REF_IDLE"
              THEN Ranks ELSE due
    /\ UNCHANGED <<status, queueVars, respondEvent, busVars, retryRdReq,
                   retryWrReq, drainState, activeRank>>

\* The last open bank of a rank was precharged after its access.
CloseBanks(k) ==
    /\ banksOpen[k]
    /\ banksOpen' = [banksOpen EXCEPT ![k] = FALSE]
    /\ UNCHANGED <<status, queueVars, nextReqEvent, respondEvent, busVars, retryRdReq,
                   retryWrReq, drainState, refreshState, activeRank, due>>

-----------------------------------------------------------------------------
(* Draining                                                                *)

\* The drain manager asks again, as long as some object is not drained.
drain ==
    /\ drainState \in {"Running", "Drained"}
    /\ drainState' = IF Quiesced THEN "Drained" ELSE "Draining"
    /\ nextReqEvent' = IF ~Quiesced /\ writeQueue = <<>>
                       THEN Kicked(nextReqEvent) ELSE nextReqEvent
    /\ UNCHANGED <<status, queueVars, respondEvent, busVars, retryRdReq,
                   retryWrReq, rankVars>>

\* Every object has just answered "Drained"; the simulation goes on.
drainResume ==
    /\ drainState = "Drained"
    /\ Quiesced
    /\ drainState' = "Running"
    /\ UNCHANGED <<status, queueVars, nextReqEvent, respondEvent, busVars, retryRdReq,
                   retryWrReq, rankVars>>

-----------------------------------------------------------------------------
Next ==
    \/ \E r \in Requests : recvTimingReq(r)
    \/ processRespondEvent
    \/ processNextReqEvent
    \/ \E k \in Ranks : RefreshDue(k) \/ RefreshDone(k) \/ CloseBanks(k)
    \/ drain
    \/ drainResume

Spec == Init /\ [][Next]_vars

\* The event queue runs every event it holds, refreshes come round every
\* tREFI, and a port that is told to retry sends its request again.
Fairness ==
    /\ WF_vars(processRespondEvent)
    /\ WF_vars(processNextReqEvent)
    /\ \A k \in Ranks : WF_vars(RefreshDue(k)) /\ WF_vars(RefreshDone(k))
    /\ \A r \in Requests : WF_vars(status[r] = "again" /\ recvTimingReq(r))

FairSpec == Spec /\ Fairness

-----------------------------------------------------------------------------
(* Properties                                                              *)

PacketsOf(r) ==
    {i \in 1..Len(readQueue) : readQueue[i].req = r}
        \cup {Len(readQueue) + i : i \in {j \in 1..Len(respQueue) : respQueue[j].req = r}}

Packet == [req : Requests, addr : DOMAIN RankOf, bytes : SUBSET Nat]

\* The variables hold values of their types.
TypeOK ==
    /\ status \in [Requests -> {"unsent", "new", "refused", "again", "accepted", "answered"}]
    /\ readQueue \in Seq(Packet) /\ writeQueue \in Seq(Packet) /\ respQueue \in Seq(Packet)
    /\ isInWriteQueue \subseteq DOMAIN RankOf
    /\ serviced \in [Requests -> Nat]
    /\ nextReqEvent \in {"none", "now", "later"}
    /\ {respondEvent, retryRdReq, retryWrReq} \subseteq BOOLEAN
    /\ {busState, busStateNext} \subseteq {"READ", "WRITE"}
    /\ writesThisTime \in Nat
    /\ drainState \in {"Running", "Draining", "Drained"}
    /\ refreshState \in [Ranks -> {"REF_IDLE", "REF_DRAIN", "REF_RUN"}]
    /\ banksOpen \in [Ranks -> BOOLEAN]
    /\ activeRank \in Ranks
    /\ due \subseteq Ranks

\* What the handlers keep in two places agrees, as their asserts say: the
\* queues fit their buffers, where a read keeps its slot until its data has
\* been sent back; isInWriteQueue is exactly the set of burst addresses in the
\* write queue, each there once; every burst of an accepted read is counted as
\* serviced or still in a queue, and one of them is; and the response event is
\* scheduled while some read waits for its data.
QueuesConsistent ==
    /\ TypeOK
    /\ Len(readQueue) + Len(respQueue) <= ReadBufferSize
    /\ Len(writeQueue) <= WriteBufferSize
    /\ isInWriteQueue = {w.addr : w \in ToSet(writeQueue)}
    /\ Cardinality(isInWriteQueue) = Len(writeQueue)
    /\ \A r \in Requests :
          IF status[r] = "accepted"
          THEN /\ PacketsOf(r) # {}
               /\ serviced[r] + Cardinality(PacketsOf(r)) = Len(Pieces[r])
          ELSE PacketsOf(r) = {}
    /\ respondEvent <=> respQueue # <<>>

\* The request loop and the refresh loop never wait for each other.  The
\* controller may only sleep on waiting reads, or on more writes than the low
\* threshold, while some rank is refreshing, since the end of that refresh
\* starts the request loop again; a refresh that waits for the request loop
\* finds it scheduled; and a write turn of the bus always has a write left,
\* without which the handler would return and never turn back to the reads.
NeverSleepsOnWork ==
    /\ (nextReqEvent = "none" /\ (readQueue # <<>> \/ Len(writeQueue) > WriteLowThreshold))
          => \E k \in Ranks : refreshState[k] # "REF_IDLE"
    /\ \A k \in Ranks : refreshState[k] = "REF_DRAIN" => nextReqEvent # "none"
    /\ busStateNext = "WRITE" => writeQueue # <<>>

\* A refused request is remembered by the flag of its own kind, and no flag
\* stays up without a refused request; a retry is then never lost and never
\* sent to a port that waits for nothing.
RetryRemembered ==
    /\ retryRdReq <=> \E r \in Requests \ Writes : status[r] = "refused"
    /\ retryWrReq <=> \E r \in Writes : status[r] = "refused"

\* The controller implements the service its port relies on: the bursts left
\* of a request are its packets in the two queues.
Service == INSTANCE MemService WITH
    Size <- [r \in Requests |-> Len(Pieces[r])],
    left <- [r \in Requests |-> Cardinality(PacketsOf(r))],
    answered <- {r \in Requests : status[r] = "answered"},
    blocked <- {r \in Requests : status[r] = "refused"}

ImplementsService == Service!Spec

\* Every request that was sent is answered in the end, refused ones and reads
\* to refreshing ranks included.
EveryRequestAnswered ==
    \A r \in Requests : status[r] \notin {"unsent", "new"} ~> status[r] = "answered"

\* A drain completes: the writes below the low threshold are written, the
\* banks closed and the manager told.
DrainCompletes == drainState = "Draining" ~> drainState = "Drained"
=============================================================================
