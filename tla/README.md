# PrIDE: models, checks and proofs

This directory holds TLA+ specifications of the row-hammer mitigations of the
PrIDE repository, the TLC configurations that check them and the TLAPS proofs
about them. Paths below are relative to the repository root.

## 1. The system

The repository consists of a patched gem5 memory controller
(`performance/gem5/src/mem`) and a security analysis (`security`). Everything
of its own is sequential: gem5 is an event-driven, single-threaded simulator,
and the analyses are single-threaded programs. What makes the code hard is not
threads but long sequences of legal calls over bounded tables: cursors that
wrap, windows whose end is only noticed by the next call, random choices, and
two schedules (refresh intervals and activation counts) that interleave.

| Component | State | Operations | Interacts with |
|---|---|---|---|
| `Tracker` (`tracker.h`) | circular vector of sampled rows, `head`, `tail`, `num_valid`, counters | `insert`, `issue_mitig` (via `remove`) | one per bank, called by `RFM` |
| `RFM` (also used for PARA) | a `Tracker` and an ACT counter per bank, `last_reset` | `access`, `reset` | called by `MemCtrl` at every activation; its `Decision` delays the bank |
| `Misra_Gries` | per bank a table of (row, count), a spill counter | `access`, `reset` | called by row swap and row quarantine |
| `Randomized_Row_Swap` | row indirection table: tuples, references, locks | `access`, `insertTuple`, `getRemappedAddr`, `reset` | owns a detector; called by `MemCtrl` |
| `Row_Quarantine` | {Row->QR} and {QR->Row} tables, head, previous head, tail, bitvector, `ORR_CBF`, cache | `access`, `addQCheckDelay`, `quarantineRow`, `drainRow`, `removeRow`, `reset` | owns a detector and a `Functional_Cache` |
| `Functional_Cache` | sets of blocks with tag and RRIP bits | `Lookup`, `PartialLookup`, `Fill`, `Invalidate`, `Find_Victim` | used by row quarantine |
| `BlockHammer` | activations per row | `access`, `reset` | called by `MemCtrl` |
| Monte-Carlo simulation | circular tracker, counters per position | `tracker_insert`, `tracker_remove`, `do_refresh`, the loop | stand-alone |
| Analytical loss model | tables `prob_n`, `cprob_n`, Markov matrix | `init`, `calc_lossprob`, `init_markov_chain` | abstracts the Monte-Carlo tracker |
| Reliability model | none that changes | `get_tardy`, failure rates | uses the loss probabilities and the tardiness of the tracker |
| `MemCtrl` | read, write and response queues, retry flags, bus state, drain state | `recvTimingReq`, the request and respond events, `drain`, `drainResume` | calls `access` of the mitigation at each activation and applies its delays |
| `DRAMInterface` | per bank the open row and the ticks from which commands are allowed | `doBurstAccess`, `activateBank`, `prechargeBank`, `delayBankRowhammer` | called by `MemCtrl` for each burst |
| `DRAMInterface::Rank` | refresh and power states, six events | refresh, power, wake-up, activate, precharge and write-done events | hands control to and fro with the events of `MemCtrl` |

What makes each of them correct:

- tracker: it is a FIFO queue, and no row leaves it except mitigated or
  overwritten by a younger one;
- RFM: a sampled row waits no longer than the analysis assumes, a slot comes
  before the row sampled with it and so makes room for it, and the slots and RFMs
  the controller pays for are those that were needed;
- detector: it never underestimates a row and flags every row that reaches a
  multiple of the threshold;
- row swap: the indirection is always a permutation, swaps of the current
  window are never undone, the table never overflows, and a row to swap with is
  always found;
- row quarantine: both tables say the same, the filters in front of them never
  hide a quarantined row, and a row flagged in a window stays to its end;
- cache: a victim is always found, a row is in one way at most, and every row
  of a group is found by a partial lookup;
- BlockHammer: a throttled row stays below the threshold, also over two windows;
- memory controller: each request is answered once, refused ones are retried,
  no event loop waits for one that waits for it, a drain completes;
- rank: no event finds the rank in a state its assertions exclude, and every
  rank is refreshed for ever;
- bank timing: the activation window and the row cycle are kept, mitigations are
  not cut short;
- the two loss models: they agree on what happens to an entry.

## 2. Modules

`TrackerOps` and `MisraGriesOps` define the data structures as operators on
records, so that a single instance (`Tracker`, `MisraGries`) and the
components that contain them (`RFM`, `RowSwap`) use the same definitions.

| Module | Models |
|---|---|
| `TrackerOps` | `tracker.h`: `NewTracker`, `Insert`, `IssueMitig`, `Remove` on a record with the fields of the class |
| `MitigationFifo` | what a tracker promises: a bounded queue that is independent of the storage |
| `Tracker` | one tracker under any order of calls; `Fifo` is the refinement mapping. Its initial predicate, step and specification are `TrackerInit`, `TrackerNext` and `TrackerSpec`, so that `PrideProofs` extends it together with `RFM` |
| `RFM` | class `RFM`, all banks; the trackers are those of `TrackerOps` |
| `MisraGriesOps`, `MisraGries` | `Misra_Gries`, one bank (banks share nothing) |
| `RowSwap` | `Randomized_Row_Swap` of one bank with its detector |
| `RowQuarantine` | `Row_Quarantine` with its cache |
| `RowCache`, `FunctionalCache` | the cache that row quarantine assumes, and `Functional_Cache` with its RRIP values |
| `BlockHammer` | class `BlockHammer`, with the sources whose answers `MemCtrl` delays. Its specification is `BlockHammerSpec`, so that `ControllerProofs` extends it together with `MemCtrl` |
| `MemService`, `MemCtrl` | what the port of a memory controller relies on, and class `MemCtrl` |
| `Rank` | the events of all ranks of a channel, on the event queue of gem5 |
| `BankTiming` | the ticks that activates, precharges and bursts of a rank get, with mitigations and refreshes |
| `LossSim` | the Monte-Carlo loop. Its `TREFI` is called `window_size`, as the argument of `print_loss_prob`, and its initial predicate and step `SimInit` and `SimNext`, so that `MCPride` extends it together with `RFM` |
| `LossAnalysis` | extends `LossSim`: the analytical case analysis runs beside the simulated tracker |
| `Sums` | the sum of a function over a finite set, by counting units; used by `RFM` and `MisraGries` |
| `PrideProofs` (`Tracker` and `RFM`), `MisraGriesProofs`, `RowSwapProofs`, `RowQuarantineProofs`, `FunctionalCacheProofs`, `BankTimingProofs`, `ControllerProofs` (`MemCtrl` and `BlockHammer`), `LossProofs` | the proofs |
| `MC...` | instances for TLC |

Variables and fields carry the names of the source. Variables marked *history*
are not in the code; they record what a property needs and no guard reads them,
except where they are the measure of a bound (`acts` in `MisraGries` and
`RowSwap`, the activations DRAM timing allows in a window; `num_moves` in
`RowQuarantine`). Definitions introduced by a comment "Mutant:" are wrong versions
of the definition that follows; they are not part of a specification. They show
that the properties can fail.

Correspondence and abstractions:

- `RFM!access` is the whole of `RFM::access` in its order: the reference point
  of the first interval, the end of the interval with `reset` and one slot for
  every bank, the ACT counter, the RFM, the sampled row. The draw against
  `sample_rate` is a free choice and so is the time of the call; the
  histogram that `reset` prints is left out.
- `MisraGries!access` increments a hit, else replaces the first entry that is
  as low as the spill counter, else raises the spill counter. The functional
  lookup, which changes nothing, is `Lookup`.
- `RowSwap!accessIn` consults the detector and `insertTuple`, which has the
  cases of the code: a row in no tuple, the first or the second row of one
  (both are then re-swapped), and the un-swap of an unlocked tuple when there
  are too many. `generateRandomRowAddr` guesses ten times, then scans the bank and
  asserts that it found a row; it is modelled by its result, one of the rows that the
  guesses and the scan accept, restricted by the constant operator `Draw`. That there
  is such a row at every flagging is `RowAlwaysFound`, not an assumption.
- `RowQuarantine!access` takes the window's end and the detector's answer as
  inputs. `quarantineRow` is split in the order of the code (`EnterGroup`,
  `MapToHead`, `CacheRow`, `FillHead`, `AdvanceHead`), which matters when the
  row already is where it is moved to. The rows of a group always fall in the
  same set of the cache, so one set is modelled, and its victim is a free
  choice. `filter` is NULL in every configuration.
- `FunctionalCache` keeps ways, tags and RRIP values; `Find_Victim` is the number
  of rounds its loop makes and the first way that is then zero. `insertRowInCache`
  fills without looking whether the row is there, as the code does; that a row is not
  put in two ways is due to its callers, which are modelled with it: `addQCheckDelay`
  fetches the row itself only after it missed it, and another row of the group only
  if none of them was found (`Fetchable`); `quarantineRow` fills after its own lookup;
  and a removal follows an eviction from quarantine.
  `ImplementsRowCache` shows that the free choice of a victim in `RowQuarantine`
  covers it.
- `BlockHammer!access` is the count, the blacklist and the delay of `access`,
  with the index that leaves the rank out. A source sends its next access when
  it has its answer; writes are answered before they are throttled and are never
  held (`Writers`). The delay is computed at the access, but `processRespondEvent`
  adds it to the time of the data, the SRAM delay and the latencies of the
  controller: `Latencies` holds what these may come to, and each answer takes any of
  them besides its delay. The last answers of a window therefore arrive after its end.
  Reads are not split. A window has a few ticks instead of 64 ms.
- `MemCtrl` keeps the queues as sequences of bursts with the address and the
  rank; data, addresses within a burst and latencies are left out. The request
  event is one action from its start to its return, with one disjunct per
  return. Which ready packet it takes is free (FR-FCFS picks one of them).
  Ranks are reduced to a refresh that is due, waits for the request loop, runs
  and is done; `Rank` has the detail. `due` bounds nothing: it says which ranks'
  refreshes are to come in this round.
- `Rank` runs the handlers on a queue in which, as in `sim/eventq.cc`, the event
  scheduled last runs first among those of one tick. The handlers are operators
  from state to state; a failed assertion, a panic, or an event scheduled twice or
  in the past sets `err`. Times are relative to the current tick. Hits, the page
  policy, the choice of a packet and the read/write switch are free choices, a
  superset of what the controller does. Turnaround delays are left out.
- `BankTiming` is about ticks only: refreshes come at any time, and the events
  that lead to them are those of `Rank`. A bubble of 90 ns (`FetchBubble`) counts up to
  the data and is shortened by `tCL + tBURST`, as in `doBurstAccess`. Bank groups (the longer `tRRD_L`) and
  the command window of `verifySingleCmd` are left out; both only delay
  commands.
- `LossSim!iterate` is one iteration of the loop, that is one activation.
  `LossAnalysis` replaces probabilities by the events they are attached to.

## 3. Runs

The mitigations are handlers that only run when called; nothing obliges a caller
to call, so their properties are invariants, action properties and refinements
without fairness. The controller and the ranks are driven by events, and there
liveness is checked.

Fairness. gem5 runs every event that is scheduled. In `MemCtrl` that is weak
fairness of the request event and the respond event; the refresh of a rank comes
round every `tREFI` and is carried out when the controller lets it
(`RefreshDue`, `RefreshDone`); and a port that was told to retry sends its
request again. Requests themselves and drains need not come. `RefreshDone`
takes for granted that a refresh gets to its end once its rank is left alone,
which `Rank` shows (`RefreshedForever`), except in the case of the run
`rank_other`. In `Rank` the fairness is that time passes and that the events of a
tick are all run; that the handlers of one tick come to an end follows from the
bounds on requests.

The runs whose behaviours end at a bound switch the deadlock check off; it would
only report the bound. In `delays` a simulation that BlockHammer's division by zero has
killed stands still.

| Run | Bounds | What it shows |
|---|---|---|
| `trackers` | `Tracker`: 3 slots, 2 rows, 8 inserts, 6 slots of mitigation | cursors agree over several wraps and evictions, no stale slot is mitigated, `ImplementsFifo` |
| | `MisraGries`: 2 entries, threshold 3, 4 rows, 8 ACTs per window, 2 windows | `EstimateBrackets`, `NoMissedAggressor`; the sizing in `MemCtrl` suffices |
| `pride` | `RFM`: 2 banks of 2 slots, RFM every 2 ACTs, interval of 2 ticks, 7 accesses, 5 ticks | `TardinessBound`; a slot comes before the row sampled with it (`NoLossBesideSlot`); rows, slots and RFMs are accounted for; intervals are answered at their pace and for every bank |
| | `LossAnalysis`: 3 entries of at most 4, windows of 4 ACTs, 5 windows | every insertion of every position is booked once; `calc_lossprob` and the Markov matrix follow the simulated tracker exactly |
| `loss_tails` | 3 entries, the size of the tables | violation of `TailsTabulated`, see section 5 |
| `row_swap` | 2 flaggings per window, 11 rows, limit of 4 tuples, 3 windows | the table stays a permutation, fits, keeps this window's swaps, and moves a row each time it is flagged; a row to swap with is always found |
| `functional_cache` | 3 ways, 5 rows in 2 sets, groups of 2 | a victim is found without wrap-around, no row is cached twice, a block that was hit survives two evictions, `ImplementsRowCache` |
| `row_quarantine` | 3 places, 4 rows in 2 groups, cache of 2, 6 moves, 3 windows | tables, counters and cache agree; rows of the window stay |
| `row_quarantine_lap` | 2 places, 2 rows | violation of `FlaggedIsQuarantined`, see section 5 |
| `delays` | `BankTiming`: 2 banks, 3 rows, window of 2 activates, mitigations of 4 ticks, bubbles of 2 and of 3 (the one that counts up to the data) | no command cuts a mitigation short; the activation window and the row cycle are kept |
| | `BlockHammer`: threshold 7 of 14, blacklisting at 50 %, 3 sources (one a writer) on 2 counters, windows of 17 ticks, latencies of 1 and 3 | `ThrottledBelowThreshold`, `ActualThresholdKept` |
| `rank` | 1 rank; power-down or drains, a read and a write at one bank or a read at either of two; bubbles of 10 us | `NothingFails`; refreshes go on for ever and reads are answered |
| `rank_drain` | 1 rank, power-down and drains together, one read | violation of `NothingFails`, see section 5 |
| `rank_other` | 2 ranks without power-down or drains, one read, `tDATA` 4 | violation of `RefreshedForever`, see section 5 |
| `mem_ctrl` | 2 ranks, buffers of 2 and 3; a split read with 2 split writes, or 2 reads that fill their buffer | queues, index, retries, no lost wake-up, `ImplementsService`; every request is answered and drains complete |

`trackers`, `pride` and `delays` hold two models each that share no variable. The first
step of a behaviour decides which of them runs, and the other stays in its initial state:
the run has the states of each, not of their product.

`rank` and `mem_ctrl` are checked under `FairSpec`; their state includes the set-up
(`Setups`) or the workload (`Workloads`) that the initial state picks, so that one
run covers several simulations.

Why these bounds are enough: a tracker of three slots with eight inserts wraps
each cursor twice and meets every combination of full, empty and wrapped. With
two banks, one bank's interval falls between the other's RFMs in every way, and
seven accesses let a row cross both places of a tracker under either schedule; the
rows themselves are never compared, so one address suffices there. The
Misra-Gries table of two entries with four rows replaces, re-installs and
spills past a multiple of the threshold. Row swap has exactly the ratio of
table sizes that `MemCtrl` chooses, so the limit of tuples is met in the third
window, when tuples of the first must make way, and one row more than table and
detector can hold, the fewest that `RowsAssumption` allows. There `rand()` picks the
least eligible row: eligible rows are in neither table and nothing tells them apart. In
quarantine six moves lap the region of three twice. In the loss models five
windows exceed the three or four that an entry can survive, and a window is
longer than the tracker.

For the controller, two or three requests fill both buffers, are refused, merged
and forwarded from the write queue, and two ranks refresh one at a time and both
at once. In `Rank` the request bound lets a burst fall into every state of a
refresh, a `tREFI` of 22 leaves room for two refreshes between which the rank goes
to sleep (self-refresh needs the second), and delays of one tick with `tRAS`, `tRFC`
and `tXS` longer keep the order of the stock DDR4 timings; a shorter `tREFI` would
make the refresh itself late. Data arrive after the precharge (`tDATA` 4), which is
the case in which a refresh must wait for an answer. In the set-up with bubbles a
tick is 100 ns, `tREFI` is 7.8 us and a bubble of 10 us is longer than the limit of
7 us that the controller keeps to; smaller delays are rounded up to a tick. In
`delays` two banks reach the limit of two activates per window, and a
mitigation (4) fits in `tRC + tRFC` (7) as 175 ns do in 395 ns.

In `MisraGries` the rows other than the one with which the table is initialised are
symmetric, since no definition orders rows, and in `RFM` the banks are.

## 4. Proofs

TLAPS proves the following for every value of the constants that the named
assumptions allow.

| Theorem | Statement | Argument |
|---|---|---|
| `PrideProofs!TrackerTypeCorrect`, `Cursors`, `NoPhantom` | `TrackerTypeOK`, `CursorsAgree`, `NoPhantomRow` of `Tracker` | inductive invariant `GoodTracker` (types, cursors, valid slots hold rows) |
| `PrideProofs!Refinement` | `TrackerSpec => Fifo!Spec` | each call maps to `Admit`, `AdmitAndLose`, `Mitigate` or a stutter; the first lemmas of the module relate the circular vector to the queue |
| `PrideProofs!TypeCorrect`, `Tardiness`, `Intervals` | `TypeOK`, `TardinessBound`, `IntervalPace` of `RFM` | places pay for windows, *Tardiness* below |
| `PrideProofs!RowsAccountedFor`, `EveryBankServed`, `SlotFirst` | `EveryRowAccountedFor`, `IntervalServesEveryBank`, `NoLossBesideSlot` of `RFM` | `Balance` and running windows, *Books of the RFM* |
| `MisraGriesProofs!TypeCorrect`, `Assertions`, `Brackets`, `Aggressors` | `TypeOK`, `AssertsHold`, `EstimateBrackets`, `NoMissedAggressor` of `MisraGries` | `GoodTable`, `FlaggedInTable`, *Detector* |
| `MisraGriesProofs!LargeEnough` | `SizedForThreshold` of `MisraGries` | activations are units of counts, *Detector* |
| `RowSwapProofs!PairsUp`, `StaysSwapped`, `FlagMoves`, `TuplesAlwaysFit`, `RowFound` | `SwapsPairUp`, `FlaggedStaysSwapped`, `MovesOnFlag`, `TuplesFit`, `RowAlwaysFound` of `RowSwap` | *Row swap* |
| `RowQuarantineProofs!TablesAgree`, `CacheTrue`, `FreshStays` | `TablesConsistent`, `CacheAnswersTrue`, `FreshStaysQuarantined` of `RowQuarantine` | *Row quarantine* |
| `FunctionalCacheProofs!AlwaysVictim`, `HitsSurvive`, `OneWay`, `CacheRefines` | `VictimFound`, `HitSurvives`, `OneWayEach`, `ImplementsRowCache` of `FunctionalCache` | *Cache* |
| `BankTimingProofs!Mitigations`, `Windows`, `RowCycles` | `MitigationKept`, `WindowKept`, `RowCycleKept` of `BankTiming` | *Time of a mitigation* |
| `ControllerProofs!TypeCorrect`, `QueuesAgree`, `NeverAsleep`, `RetriesKept` | `TypeOK`, `QueuesConsistent`, `NeverSleepsOnWork`, `RetryRemembered` of `MemCtrl` | one inductive invariant, *Controller* |
| `ControllerProofs!ServiceImplemented` | `Spec => Service!Spec` | each handler maps to `Refuse`, `Take`, `Serve`, `Unblock` or a stutter, *Controller* |
| `ControllerProofs!BlockHammerTypeCorrect`, `ThrottlingWorks`, `HalvingSuffices` | `BlockHammerTypeOK`, `ThrottledBelowThreshold`, `ActualThresholdKept` of `BlockHammer` | *BlockHammer* |
| `LossProofs!LossBooks`, `CasesExact`, `ChainExact` | `PositionsAccountedFor`, `AnalysisExact`, `OccupancyExact` of `LossSim` and `LossAnalysis` | *Loss models* |

Assumptions: sizes and thresholds are positive naturals, row addresses are
naturals (so that -1 is none), the sets of banks and rows are finite. Beyond
that, `ThrottleAssumption` says that the blacklist begins at least two activations
before the threshold, `RowSwapAssumption` has the sizes that the constructor of
`MemCtrl` chooses (as many detector entries as the threshold fits into the
activations of a window, more places than the limit of tuples) and that `rand()`
draws a row that is accepted if there is one, `RowsAssumption` that a bank has more
rows than the tuples at their limit (two each) and the entries of the detector (one
each) can hold, and `TableAssumption` that the simulated tracker is
no larger than the tables of the analysis, `GroupAssumption` that a group of rows lies
within a block of the cache, `RequestAssumption` that the bursts of a request have
different addresses, each in some rank, and `TimingAssumption` that a window of activates is no
longer than a refresh and a mitigation no longer than a row cycle and a refresh. They
stand in the module that declares the constants, and TLC evaluates them in each run.

*Tardiness.* The bound is not inductive: a row one step from the bound may be
at the tail. `AgeByPlace` is: a row at place `i` has waited at most
`(Size - 1 - i)` windows of `rfm_act_threshold` activations and those of the
running window. A mitigation slot moves each row one place on and so pays for a
window (`IssueWaited`); an eviction does too (`InsertWaited`); a refresh
interval clears the running count, but also gives every tracker a slot
(`IntervalFacts`). `IntervalPace` and `GoodTracker` complete the invariant.

*Books of the RFM.* `Balance` relates the trackers of all banks to the numbers of
slots: `ServeBalance` says that a set of banks given one slot each keeps it, and
`SampleBalance` that a sampled row does. That RFMs are no faster than one per
`rfm_act_threshold` activations is not inductive, because a refresh interval clears
the ACT counters: the invariant `Books` also counts the running window of each
bank, which pays for its next RFM. Sums over banks are the number of units below the
values (`Sums`); a step that raises one value by one adds one unit and one that
clears a value removes that bank's (`UnitsRaised`, `UnitsCleared`), so that no
induction over the banks is needed. `SlotFirst` is about the order within `access`: the
slot of an interval or an RFM leaves the tracker a free place (`SlotSavesRow`), so the
row sampled by the same call pushes none out (`RfmLosses`). The books alone do not
tell that order: code that samples first and counts what it then mitigates would
balance as well.

*BlockHammer.* A count of `threshold - 1` would divide by zero, and nothing tests
for it. It is not reached by one reader at a time because of the access before:
at `threshold - 2` one activation is left, so the delay is the whole rest of the
window, and the next access comes after the counters are cleared. The invariant
needs that fact (`LastIsHeld`: a source whose counter is at `threshold - 2` is
held to the end of the window at least), and that the blacklist begins early enough for
such an access to exist (`ThrottleAssumption`). Halving the threshold then gives
the bound over two windows. What an answer takes besides its delay only lengthens
the hold, so any positive `Latencies` will do.

*Controller.* The queues, the port and the events need each other's invariants, so there
is one (`IInv`). `Fits` has the bounds of the queues and the response event; `Written` says
that no address is twice in the write queue, without which taking one packet out of it
could leave `isInWriteQueue` too small; `Counted` has `serviced` and the pending bursts of
every accepted read; `OneRefused` says that the port waits with one request only, from
which it follows that the two retry flags are never up together (`OneFlag`) and the retry
for one kind cannot wake a request of the other whose flag then stays up. The rest is
`NeverSleepsOnWork`, whose third conjunct (a write turn has a write left) is what lets
`NoneFound` conclude that some rank is refreshing, and `RetryRemembered`. Pending bursts
are counted as the places of a request in the two queues; what appending, removing at a
place and taking the head do to that number and to the set of addresses are lemmas about
sequences (`CountConcat`, `CountRemoved`, `CountTail`, `AddrsConcat`, `AddrsRemoved`), and
`Sifted` says that the bursts a request adds are different ones of its own. Each handler
has a lemma for its effect and one for the invariant; the refinement uses the effects
(`RecvService`, `RespondService`, `RequestService`). The last two conjuncts of
`SizeAssumption` are not used: they matter to liveness only.

*Detector.* `EstimateBrackets` needs to know that no entry is below the spill
counter and that no row is in two entries (`GoodTable`). `NoMissedAggressor`
needs `FlaggedInTable`: an entry's count, divided by the threshold, is at most
the number of times its row was flagged, as long as the spill counter is below
the threshold. The lemmas `HitFacts`, `InstallFacts` and `SpillFacts` say what
each outcome of an access does to the table. `SizedForThreshold` rests on `Books`:
every activation of the window is one unit of an entry's count or of the spill
counter, and since no entry is below the spill counter, a spill counter as high as
the threshold would take more activations than a window has (`SpillFits`). The number
of flaggings is bounded by the sum of the counts' quotients by the threshold
(`Quotients`).

*Row swap.* `Linked` says that the references of the two rows of a tuple lead to
each other and that no row is in two tuples; each of the cases of `insertTuple`
undoes whole tuples before it forms new ones, and so keeps it. A tuple that the
window locked is left alone by the un-swap (`Undisturbed`), which gives
`StaysSwapped`. `TuplesFit` is a count: each flagging locks at most two tuples, the
flaggings of a window are at most the multiples of the threshold that the counts
of the detector have passed (`Budget`), and these are at most `MAX_ACTS / threshold`.
Hence an unlocked tuple exists whenever one must make way. `RowFound` counts too: at
most two rows per valid tuple are swapped (`SwappedFew`), and an entry of the
detector stands for at most one row (`Owned`, `TrackedFew`). The row that is flagged
is tracked, so that avoiding it costs no further row, and by `RowsAssumption` one
that the scan accepts is left (`FlaggedDrawable`, `DrawFinds`).

*Row quarantine.* The invariant is that each table refers to what the other knows
and the filters count what is there (`Sound`), and that the two are inverse to each
other (`BothWays`). `Sound` survives each piece of `quarantineRow`; `BothWays` is broken
by its first assignment and restored by its last, so the lemmas about the pieces say
how far it is broken. `FreshStays` adds the arc of places that the head has
covered since the last reset (`Arc`): rows of the window are there, the head has not
lapped it, and the tail drains no place of it.

*Cache.* The invariant says of each set that no row is in two ways and every row is at
home (`GoodSet`), and what the RRIP values tell (`Ranked`): a way that was not hit since
its fill has a value of at most 1, and a block that still expects to survive two or one
evictions has 3 or at least 2. So while some way was not hit, `Find_Victim` lowers the
values at most once, and what it finds is not such a block; `HitSurvives` alone is not
inductive, because it does not know the values after the next eviction. For the
refinement the rows of a set are counted by a bijection with its valid ways
(`RowsCounted`), so that a victim is taken exactly when the abstract set has no room.

*Time of a mitigation.* `MitigationKept` is not inductive, because a refresh overwrites the
activate tick of every bank with its own end. `Spaced` adds why nothing is lost: the
mitigation of an open bank is over `tRP + tRFC` after the tick of its precharge, that of
a closed one `tRFC` after the last precharge, and the refresh begins only when that is
done. `Limited` does the same for the window of activates: each of those remembered is
before a precharge, done or to come, and `tXAW <= tRFC`. One lemma is about each of
`prechargeBank`, `activateBank`, the burst and `delayBankRowhammer` (`PrechargeKeeps`,
`ActivateKeeps`, `BurstKeeps`, `DelayKeeps`), and `BurstStep` strings them together in the
order of `doBurstAccess`.

*Loss models.* `QueueStep` describes an iteration of the Monte-Carlo loop as a step
of a queue of positions, with no cursors. As no position is held twice
(`BornOnce`), what leaves is booked at its own position. For the analysis the
invariant (`AnaInv`) places the followed entry: after `n` insertions it has moved from
`ptr` towards the oldest place by as many as have overrun the tracker (`Overrun`,
`OnTrack`). One lemma each is about the step that begins to follow an entry, one that
follows none, one within a window and one with a refresh (`FollowStep`, `IdleStep`,
`WindowStep`, `RefreshStep`). `OccInv` does the same for the column of the Markov matrix.

Only model-checked: `Rank`, and liveness. `NothingFails` is not true of all timings (a
`tRFC` that fills `tREFI`, or a bubble above the limit, makes the next refresh come too
late), and what of it is rests on the order in which events of one tick run; the event
queue and the loops over banks and ranks are folds and filters of sequences, of which the
prover would need inductions over their length. Liveness under fairness
(`EveryRequestAnswered`, `DrainCompletes`, `RefreshedForever`, `ReadsAnswered`) stays with
TLC because the prover does not offer it. Every other property of the runs that are
expected to pass is the statement of a theorem.

The theorems about `RFM` hold for both values of `rh_mitigation`; PARA is the one
without refresh intervals, and its tardiness bound therefore rests on RFMs alone.

## 5. Divergences met while modelling

Four are runs that end in a violation:

- `row_quarantine_lap`: `quarantineRow` (`rowhammer_mitigation.cc:998`) says "Move row
  A, which is possibly already in Qj, to Qi". If the head has come round to the place
  A is in, the eviction of what is there removes A itself, and the flagged row ends
  outside quarantine. Tables and counters stay consistent, so no assertion notices.
- `loss_tails`: `init` fills the tails `cprob_n` below `MAX_SIZE` only
  (`loss_probability_analytical.cpp:67`), and `calc_lossprob` reads the next one for a
  tracker of `MAX_SIZE` entries, which `print_loss_prob` always runs (16). The entry
  is 0 instead of the probability of "s or more" (`:120`). It is below the digits
  printed with the default window and sampling rate.
- `rank_drain`: `drainRanks` (`mem_interface.cc:1086`) wakes every rank in
  self-refresh, also one that `isBusy` has just begun to wake for a read; its event
  is then scheduled twice, which the event queue asserts against. The set-ups of the
  run `rank` have power-down or drains, not both.
- `rank_other`: `processRespondEvent` (`mem_ctrl.cc:691`) restarts a refresh that
  waits for an answer only when the response queue is empty, and only for the rank of
  the last packet. Where banks are precharged before the data of a read arrive
  (`tRTP + tRP < tCL + tBURST`, as in the LPDDR5 interfaces) another rank's refresh
  stays where it is. With one rank, or with DDR4 and DDR5 timings, it does not happen.

The others are limits of what the runs show, and where the code is:

- `drain` (`mem_ctrl.cc:1694`) says that it kicks things into action because the
  write queue is not drained by itself, but schedules the request event only when
  that queue is empty. The drain completes all the same (`DrainCompletes`), after
  the next refresh.
- After a mitigation the bank counts as open on the neighbour of the row that was
  accessed (`mem_interface.cc:315`), and an access to that row is served while the
  comments call the bank busy and precharged. `MitigationKept` is about activates
  for that reason.
- The bubble of a swap or a move is added to the end of the last burst
  (`mem_ctrl.cc:1013`); after an idle time it delays nothing. It is limited to 7 us
  because refreshes are 7.8 us apart (`mem_ctrl.cc:1011`), and the set-up with bubbles
  of the run `rank` has that interval. With the 3.9 us of the DDR5 interface a refresh
  behind such a bubble comes too late, and the simulation ends with the fatal error
  of `mem_interface.cc:1519`. The scripts have the lines that would run a defense with
  such bubbles on that interface commented out.
- `BlockHammer` counts what `access` sees, and the throttling is shown for rows that
  one reader uses at a time (`Solo`). Two requests in flight to one row, or writes,
  which are never held, can bring its count to `threshold - 1`, where the delay is
  divided by zero (`trapped`).

## 6. Not modelled

- The floating-point numbers of the loss and reliability models: out of TLC's
  reach. Their combinatorics are in `LossAnalysis`.
- The delays of a `Decision` in the models of the defenses (`BankTiming` and `Rank`
  take them as free inputs), dirty bits and
  statistics that are only printed.
- The counting Bloom filter, never instantiated; the NVM interface; the rest of
  gem5, its scripts and plots.
- In `MemCtrl`: atomic and functional accesses (no state of the controller
  changes), NVM packets, QoS priorities and turn policies, the switch between
  timing and atomic mode in `drainResume`. In `DRAMInterface`: address decoding,
  the FR-FCFS order, bank groups, bus turnaround, DRAMPower and statistics.
- The number of lines of the repository is that of the vendored gem5 (instruction
  sets, devices, SystemC, tests), nearly a million, of which the code that PrIDE
  adds or changes is about five thousand. The models cover the state-changing part
  of those and the parts of gem5 that drive them.

## 7. Plan

Done, in this order: tracker and its refinement; RFM; loss simulation and
analysis; detector; row swap composed with the detector; row quarantine; the
memory controller; BlockHammer; the cache and its refinement; the ranks; the bank
timing with mitigations; the theorems of section 4.

Left: an inductive invariant for `NothingFails` in `Rank` under assumptions on the timings
that cover the interfaces of the configurations.
