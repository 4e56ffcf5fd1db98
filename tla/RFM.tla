--------------------------------- MODULE RFM ---------------------------------
(***************************************************************************)
(* PrIDE's mitigation scheduling in the memory controller: class RFM of    *)
(* performance/gem5/src/mem/rowhammer_mitigation.cc.  The controller calls *)
(* access() for every activation (ACT).  Each bank has a Tracker; rows are *)
(* sampled into it at random and leave it when a mitigation slot comes:    *)
(* one per bank when an access finds that a refresh interval (tREFI) has   *)
(* passed, and one for the accessed bank whenever it has received          *)
(* rfm_act_threshold ACTs since the counters were last cleared (an RFM).   *)
(* With rh_mitigation = "PARA" the refresh interval is not looked at.      *)
(*                                                                         *)
(* Banks stands for the (channel, rank, bank) triples, which access() maps *)
(* one to one to 0 .. numDRAMBanks-1.  The random draw against sample_rate *)
(* is a free choice.  Statistics that are only printed (the histogram of   *)
(* ACTs per bank in reset()) are left out.                                 *)
(***************************************************************************)
EXTENDS TrackerOps, Sums

CONSTANTS Banks,              \* act_in_trefi_per_bank's index set
          rh_mitigation,      \* "RFM" or "PARA"
          rfm_act_threshold,  \* ACTs of a bank between two RFMs
          TREFI,              \* the refresh interval, 3900000 ticks in the code
          delay_ticks_tRFC,   \* how long an RFM keeps the bank busy
          MaxTick,            \* bound on simulated time
          MaxAccesses         \* bound on calls of access()

ASSUME RFMAssumption ==
  /\ rh_mitigation \in {"RFM", "PARA"}
  /\ rfm_act_threshold \in Nat \ {0}
  /\ TREFI \in Nat \ {0}
  /\ delay_ticks_tRFC \in Nat \ {0}
  /\ MaxTick \in Nat /\ MaxAccesses \in Nat
  /\ IsFiniteSet(Banks)

VARIABLES
  mytracker,               \* bank -> Tracker
  act_in_trefi_per_bank,   \* bank -> ACTs since the last reset()
  last_reset,              \* tick of the last reset(), 0 before the first access
  curTick,                 \* the simulator's clock
  decision,                \* what access() returned to the controller
  s_num_accesses, s_rfms, s_mitigs, s_num_resets,
  age                      \* history: bank -> slot -> ACTs of the bank since
                           \* the row in the slot was inserted, 0 if none is

vars == <<mytracker, act_in_trefi_per_bank, last_reset, curTick, decision,
          s_num_accesses, s_rfms, s_mitigs, s_num_resets, age>>

NoDecision == [mitigate |-> FALSE, bank_delay |-> 0]

Init ==
  /\ mytracker = [b \in Banks |-> NewTracker]
  /\ act_in_trefi_per_bank = [b \in Banks |-> 0]
  /\ last_reset = 0
  /\ curTick = 0
  /\ decision = NoDecision
  /\ s_num_accesses = 0 /\ s_rfms = 0 /\ s_mitigs = 0 /\ s_num_resets = 0
  /\ age = [b \in Banks |-> [s \in Slots |-> 0]]

-----------------------------------------------------------------------------
\* The slots of a tracker that hold a row.
ValidSlots(t) == {SlotAt(t, i) : i \in 0 .. t.num_valid - 1}

\* Slots that no longer hold a row have no age.
Forget(a, t) == [s \in Slots |-> IF s \in ValidSlots(t) THEN a[s] ELSE 0]

\* The reference point of the first interval is the first access, which need
\* not be at tick 0 (a simulation restored from a checkpoint).
RefPoint(now) == IF last_reset = 0 THEN now ELSE last_reset

\* Mutant: the interval ends one tick early.
IntervalOverEarly(now) == rh_mitigation = "RFM" /\ now - RefPoint(now) >= TREFI - 1

IntervalOver(now) == rh_mitigation = "RFM" /\ now - RefPoint(now) >= TREFI

\* Mutant: a slot that finds no row is counted as a mitigation.
AnswersOfEmpty(trackers, banks) == Cardinality(banks)

\* The number of trackers that answer a mitigation slot with a row.
Answers(trackers, banks) ==
  Cardinality({b \in banks : Victim(trackers[b]) # NoRow})

\* Mutant: only banks that were accessed in the interval get a slot.
AfterIntervalActiveBanks(now) ==
  LET served == {b \in Banks : act_in_trefi_per_bank[b] > 0}
  IN IF IntervalOver(now)
     THEN [trackers |-> [b \in Banks |-> IF b \in served THEN IssueMitig(mytracker[b])
                                         ELSE mytracker[b]],
           acts     |-> [b \in Banks |-> 0],
           mitigs   |-> Answers(mytracker, served)]
     ELSE [trackers |-> mytracker, acts |-> act_in_trefi_per_bank, mitigs |-> 0]

\* Trackers and counters after the refresh-interval part of access(): reset()
\* clears every counter and every tracker gets one mitigation slot.
AfterInterval(now) ==
  IF IntervalOver(now)
  THEN [trackers |-> [b \in Banks |-> IssueMitig(mytracker[b])],
        acts     |-> [b \in Banks |-> 0],
        mitigs   |-> Answers(mytracker, Banks)]
  ELSE [trackers |-> mytracker,
        acts     |-> act_in_trefi_per_bank,
        mitigs   |-> 0]

\* Mutant: the RFM is due one ACT late.
RfmDueLate(n) == n % (rfm_act_threshold + 1) = 0

RfmDue(n) == n % rfm_act_threshold = 0

\* Mutant: the row is sampled before the RFM picks its victim.
AfterRfmSampledFirst(t, due, row, sampled) ==
  LET u == IF sampled THEN Insert(t, row) ELSE t
  IN IF due THEN IssueMitig(u) ELSE u

\* The accessed bank's tracker: the RFM slot first, then the sampled row.
AfterRfm(t, due, row, sampled) ==
  LET u == IF due THEN IssueMitig(t) ELSE t
  IN IF sampled THEN Insert(u, row) ELSE u

\* Ages after an access to bank b: its rows have seen one more ACT, the row
\* inserted now has seen none, and rows that left are forgotten.
AgesAfter(b, trackers, t, sampled) ==
  [c \in Banks |->
     IF c # b THEN Forget(age[c], trackers[c])
     ELSE LET grown == [s \in Slots |-> age[b][s] + 1]
              fresh == IF sampled
                       THEN [grown EXCEPT ![SlotAt(t, t.num_valid - 1)] = 0]
                       ELSE grown
          IN Forget(fresh, t)]

\* Decision& RFM::access(currTick, rowID, bank): the sampling outcome and the
\* time since the last call are the environment's.
access(b, row, now, sampled) ==
  LET over == IntervalOver(now)
      mid  == AfterInterval(now)
      n    == mid.acts[b] + 1
      due  == RfmDue(n)
      t    == AfterRfm(mid.trackers[b], due, row, sampled)
  IN
  /\ s_num_accesses < MaxAccesses
  /\ curTick' = now
  /\ s_num_accesses' = s_num_accesses + 1
  /\ last_reset' = IF over THEN now ELSE RefPoint(now)
  /\ s_num_resets' = IF over THEN s_num_resets + 1 ELSE s_num_resets
  /\ act_in_trefi_per_bank' = [mid.acts EXCEPT ![b] = n]
  /\ mytracker' = [mid.trackers EXCEPT ![b] = t]
  /\ decision' = IF due THEN [mitigate |-> TRUE, bank_delay |-> delay_ticks_tRFC]
                 ELSE NoDecision
  /\ s_rfms' = IF due THEN s_rfms + 1 ELSE s_rfms
  /\ s_mitigs' = s_mitigs + mid.mitigs
                   + (IF due THEN Answers(mid.trackers, {b}) ELSE 0)
  /\ age' = AgesAfter(b, mid.trackers, t, sampled)

Next ==
  \E b \in Banks, row \in RowAddrs, now \in curTick .. MaxTick, sampled \in BOOLEAN :
    access(b, row, now, sampled)

Spec == Init /\ [][Next]_vars

-----------------------------------------------------------------------------
(* Every field keeps its type.                                             *)
TypeOK ==
  /\ mytracker \in [Banks -> TrackerType]
  /\ act_in_trefi_per_bank \in [Banks -> Nat]
  /\ last_reset \in Nat
  /\ curTick \in Nat
  /\ decision \in [mitigate : BOOLEAN, bank_delay : {0, delay_ticks_tRFC}]
  /\ s_num_accesses \in Nat
  /\ s_rfms \in Nat
  /\ s_mitigs \in Nat
  /\ s_num_resets \in Nat
  /\ age \in [Banks -> [Slots -> Nat]]

(* get_tardy(buf_size, window_size) of 1_reliability/sim-reliability.cpp,  *)
(* the closed-page case (OPEN_PAGE_TARDY is 0): how many more ACTs a row   *)
(* can receive between its sampling and its mitigation.                    *)
get_tardy(buf_size, window_size) == buf_size * window_size - 1

(* Tardiness: while a row waits in its bank's tracker, the bank receives   *)
(* no more ACTs than the reliability analysis adds to TRH* for it, however *)
(* accesses to other banks, refresh intervals, RFMs and evictions fall     *)
(* between them.                                                           *)
TardinessBound ==
  \A b \in Banks : \A s \in ValidSlots(mytracker[b]) :
    age[b][s] <= get_tardy(Size, rfm_act_threshold)

(* The rows of tracker t have waited, by the ages a, at most one RFM       *)
(* window for every place between them and the last place, and m ACTs.     *)
Waited(t, a, m) ==
  \A i \in 0 .. t.num_valid - 1 :
    a[SlotAt(t, i)] <= (Size - 1 - i) * rfm_act_threshold + m

(* Each place of the queue leaves one RFM window less to wait: a row may   *)
(* have seen a window of ACTs for each place it has moved towards the      *)
(* head, and those of the window that is running.                          *)
AgeByPlace ==
  \A b \in Banks :
    Waited(mytracker[b], age[b], act_in_trefi_per_bank[b] % rfm_act_threshold)

(* Per bank: the rows that were inserted, those that were evicted or are   *)
(* still held, and the mitigation slots.                                   *)
Inserted(trackers) == [b \in Banks |-> trackers[b].num_insert]

Kept(trackers) == [b \in Banks |-> trackers[b].num_evict + trackers[b].num_valid]

Offered(trackers) == [b \in Banks |-> trackers[b].num_remove]

(* The books balance over all banks.  No sampled row disappears: every row *)
(* ever inserted was evicted, is still held, or is one of the mitigations  *)
(* that s_mitigs reports; an empty slot is never counted as one.  The      *)
(* mitigation slots the trackers saw are those the controller pays for,    *)
(* one per bank and refresh interval and one per RFM.  And RFMs never come *)
(* faster than one per rfm_act_threshold ACTs, although the counters they  *)
(* are derived from are cleared at every interval.                         *)
EveryRowAccountedFor ==
  /\ Total(Inserted(mytracker), Banks) = s_mitigs + Total(Kept(mytracker), Banks)
  /\ Total(Offered(mytracker), Banks) = s_num_resets * Cardinality(Banks) + s_rfms
  /\ s_rfms * rfm_act_threshold <= s_num_accesses

(* Intervals never come faster than one per TREFI, although the interval   *)
(* restarts at whichever access notices its end and starts at a first      *)
(* access that need not be at tick 0.                                      *)
IntervalPace == s_num_resets * TREFI <= last_reset /\ last_reset <= curTick

(* A refresh interval clears the counters of all banks and serves all      *)
(* trackers in the same step: no access leaves a bank whose tracker missed *)
(* its slot while another bank's got one.                                  *)
IntervalServesEveryBank ==
  [][ s_num_resets' # s_num_resets =>
        /\ rh_mitigation = "RFM"
        /\ \A b \in Banks :
             /\ mytracker'[b].num_remove > mytracker[b].num_remove
             /\ mytracker[b].num_valid > 0 /\ mytracker[b].num_insert = mytracker'[b].num_insert
                  => mytracker'[b].num_valid < mytracker[b].num_valid ]_vars

(* A mitigation slot comes before the row sampled by the same access: the  *)
(* place it frees is there for the row, and a tracker that gets a slot, by *)
(* an RFM or at the end of an interval, loses no row in that access.  In   *)
(* the other order a full tracker would drop the very row whose turn it is *)
(* and mitigate the next one, with the books still balanced.               *)
NoLossBesideSlot ==
  [][ \A b \in Banks :
        mytracker'[b].num_remove # mytracker[b].num_remove =>
          mytracker'[b].num_evict = mytracker[b].num_evict ]_vars
=============================================================================
