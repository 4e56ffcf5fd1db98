---------------------------- MODULE LossAnalysis ----------------------------
(***************************************************************************)
(* The case analysis behind the analytical loss probability, security/     *)
(* 0_loss_probability/analytical, run beside the Monte-Carlo tracker that  *)
(* it abstracts.  calc_lossprob(capacity, ptr, size) follows one entry     *)
(* through the windows by two numbers, how many entries are before it and  *)
(* how many there are; init_markov_chain() follows the occupancy after     *)
(* each mitigation.  The probabilities themselves are left out: the module *)
(* checks that the events they are attached to are the events of the       *)
(* tracker.                                                                *)
(***************************************************************************)
EXTENDS LossSim

CONSTANT MAX_SIZE    \* the tables prob_n and cprob_n have MAX_SIZE + 1 entries

ASSUME TableAssumption == MAX_SIZE \in Nat /\ num_entries <= MAX_SIZE

VARIABLES
  tag,       \* the activation that inserted the followed entry, -1 if none yet
  level,     \* calc_lossprob's arguments and case: [ptr, size, case]
  inserts,   \* insertions in the running window, after the followed entry's
  fate,      \* what the tracker did with the entry
  occupied,  \* entries held when the running window began, after its refresh
  window_inserts  \* all insertions in the running window

avars == <<tag, level, inserts, fate, occupied, window_inserts>>

allvars == <<simvars, avars>>

AInit ==
  /\ SimInit
  /\ tag = -1
  /\ level = [ptr |-> 0, size |-> 0, case |-> "none"]
  /\ inserts = 0
  /\ fate = "none"
  /\ occupied = 0
  /\ window_inserts = 0

-----------------------------------------------------------------------------
\* The entries of cprob_n that the loop of init() assigns; the one it leaves
\* out keeps the value 0 of a global.
cprob_n_assigned == 0 .. MAX_SIZE - 1

\* full_th: how many insertions fill the buffer up to the followed entry.
full_th(l) == (num_entries - l.size) + l.ptr

\* Mutant: entries overwritten in this window still count as being in front.
CaseANoOverwrite(l, n) ==
  [ptr  |-> l.ptr - 1,
   size |-> (IF l.size + n > num_entries THEN num_entries ELSE l.size + n) - 1,
   case |-> "A"]

CaseA(l, n) ==
  LET remain == num_entries - l.size IN
  [ptr  |-> (IF n > remain THEN l.ptr - (n - remain) ELSE l.ptr) - 1,
   size |-> (IF l.size + n > num_entries THEN num_entries ELSE l.size + n) - 1,
   case |-> "A"]

\* One level of calc_lossprob for a window with n further insertions: case C
\* loses the entry, case B (and everything else when ptr is 0) mitigates it,
\* case A goes on with the entries that are left.
calc_lossprob(l, n) ==
  IF n > full_th(l) THEN [l EXCEPT !.case = "C"]
  ELSE IF l.ptr = 0 \/ n = full_th(l) THEN [l EXCEPT !.case = "B"]
  ELSE CaseA(l, n)

\* Mutant: row 0 treated like the others.
MarkovColumnRow0(i, n) == IF i + n - 1 >= num_entries - 1 THEN num_entries - 1
                          ELSE i + n - 1

\* The column of init_markov_chain's matrix that row i gives the probability
\* of n insertions to: row 0 stays for none or one, and the last column takes
\* the balance of every row.
MarkovColumn(i, n) ==
  IF i = 0 /\ n = 0 THEN 0
  ELSE IF i + n - 1 >= num_entries - 1 THEN num_entries - 1
  ELSE i + n - 1

-----------------------------------------------------------------------------
Following == tag # -1 /\ level.case = "A"

\* The level after the window that ends now, if one ends.
LevelNow == IF Following /\ WindowStarts THEN calc_lossprob(level, inserts) ELSE level

\* The first entry inserted at the start of a window may be the one followed,
\* with the occupied entries before it: calc_lossprob(capacity, s, s + 1).
Follow(inserted) ==
  /\ tag = -1
  /\ WindowStarts
  /\ inserted
  /\ tag' = act_count
  /\ level' = [ptr |-> num_valids_r, size |-> num_valids_r + 1, case |-> "A"]
  /\ fate' = "held"
  /\ inserts' = 0

\* What the tracker does with the followed entry in this activation.
FateNow(inserted) ==
  IF fate # "held" THEN fate
  ELSE IF Refreshes /\ entries[ptr].born = tag THEN "mitigated"
  ELSE IF inserted /\ Full /\ entries[ptr_r].born = tag THEN "lost"
  ELSE fate

\* What the activation adds to a count of its window's insertions.
CountIn(n, inserted) ==
  (IF WindowStarts THEN 0 ELSE n) + (IF inserted THEN 1 ELSE 0)

GoOn(inserted) ==
  /\ tag' = tag
  /\ level' = LevelNow
  /\ fate' = FateNow(inserted)
  /\ inserts' = CountIn(inserts, inserted)

Step(inserted) ==
  /\ iterate(inserted)
  /\ window_inserts' = CountIn(window_inserts, inserted)
  /\ occupied' = IF WindowStarts THEN num_valids_r ELSE occupied
  /\ Follow(inserted) \/ GoOn(inserted)

ANext == \E inserted \in BOOLEAN : Step(inserted)

ASpec == AInit /\ [][ANext]_allvars

-----------------------------------------------------------------------------
(* calc_lossprob's case analysis is exact: case C is reached exactly for   *)
(* entries the tracker evicts and case B exactly for entries a refresh     *)
(* takes, and in between ptr and size are the entry's place and the        *)
(* tracker's occupancy, whatever was inserted when.                        *)
AnalysisExact ==
  /\ level.case = "C" => fate = "lost"
  /\ level.case = "B" => fate = "mitigated"
  /\ Following /\ fate = "lost" => inserts > full_th(level)
  /\ Following /\ fate = "mitigated" => FALSE
  /\ Following /\ fate = "held" =>
       LET over == num_entries - level.size
           lostBefore == IF inserts > over THEN inserts - over ELSE 0
       IN /\ num_valids = IF inserts > over THEN num_entries ELSE level.size + inserts
          /\ level.ptr >= lostBefore
          /\ HeldAt(level.ptr - lostBefore).born = tag

(* The occupancy chain is exact: from occupancy i after a refresh, n       *)
(* insertions and the next refresh lead to the column the matrix gives     *)
(* them.                                                                   *)
OccupancyExact ==
  [][ (WindowStarts /\ act_count > 0) =>
        occupied' = MarkovColumn(occupied, window_inserts) ]_allvars

(* A loss that the tracker suffers is counted: calc_lossprob adds          *)
(* cprob_n[full_th + 1] for case C, "failure if insert > leftover" and     *)
(* "s or more" in its comments, and that is an entry that init() has       *)
(* assigned.  It is not for a tracker as large as the tables, the last one *)
(* of print_loss_prob(): the entry keeps its initial 0.                    *)
TailsTabulated ==
  level.case = "C" => full_th(level) + 1 \in cprob_n_assigned
=============================================================================
