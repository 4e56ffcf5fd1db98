--------------------------- MODULE FunctionalCache ---------------------------
(***************************************************************************)
(* The set-associative cache of the {Row->QR} table (class                 *)
(* Functional_Cache of mem/rowhammer_mitigation.cc), with the way its      *)
(* victims are chosen: every way carries an RRIP value, 3 after a hit and  *)
(* 1 after a fill; a full set lowers all of its values until one is zero.  *)
(* An action is what Row_Quarantine does to the cache in addQCheckDelay(), *)
(* in quarantineRow() and in removeRow(); which rows the {Row->QR} table   *)
(* holds is a free choice here.  The dirty bit only adds to delays and is  *)
(* left out, and so is the ORR bit, which no caller sets.                  *)
(***************************************************************************)
EXTENDS Integers, FiniteSets

CONSTANTS
    Rows,                  \* the addresses that are looked up
    m_sets, m_ways,
    BlockSize,             \* 2^m_blk_offset, 32 in the code
    partial_lookup_factor, \* rows_per_btv_bit
    Wrap                   \* 2^32: the range of an RRIP value

ASSUME CacheAssumption ==
    /\ Rows \subseteq Nat
    /\ {m_sets, m_ways, BlockSize, partial_lookup_factor} \subseteq Nat \ {0}
    /\ Wrap \in Nat /\ Wrap > 4

\* A group of rows lies within a block: 16 rows in one of 32 by default.
ASSUME GroupAssumption == BlockSize % partial_lookup_factor = 0

Sets == 0..(m_sets - 1)

Ways == 0..(m_ways - 1)

VARIABLES
    m_cache,  \* m_cache[set][way]: [valid, tag, rrip]
    used,     \* history: used[set], the ways hit since they were filled
    spared    \* history: spared[set][way], the evictions of its set that a
              \* block may still expect to survive, see Spare

vars == <<m_cache, used, spared>>

SetOf(addr) == (addr \div BlockSize) % m_sets

EmptyBlock == [valid |-> FALSE, tag |-> 0, rrip |-> 0]

Init ==
    /\ m_cache = [set \in Sets |-> [way \in Ways |-> EmptyBlock]]
    /\ used = [set \in Sets |-> {}]
    /\ spared = [set \in Sets |-> [way \in Ways |-> 0]]

FirstOf(S) == CHOOSE n \in S : \A m \in S : n <= m

\* The ways of a set of blocks b that hold addr.
Holding(b, addr) == {way \in Ways : b[way].valid /\ b[way].tag = addr}

\* The ways that hold a row of the group of addr.
HoldingPartly(b, addr) ==
    {way \in Ways : /\ b[way].valid
                    /\ b[way].tag \div partial_lookup_factor
                          = addr \div partial_lookup_factor}

\* Mutant: a hit raises the value to the range of three bits.
HitTooHigh(b, way) == [b EXCEPT ![way].rrip = 7]

Hit(b, way) == [b EXCEPT ![way].rrip = 3]

\* What four rounds of lowering find: a way whose value is zero, and after how
\* many rounds.  Without one the way is m_ways, and the code asserts.
ZeroAfter(b, rounds) == {way \in Ways : (b[way].rrip - rounds) % Wrap = 0}

Rounds(b) == {n \in 0..3 : ZeroAfter(b, n) # {}}

Find_Victim(b) ==
    LET free == {way \in Ways : ~b[way].valid}
    IN  IF free # {} THEN [way |-> FirstOf(free), rounds |-> 0]
        ELSE IF Rounds(b) # {}
        THEN [way |-> FirstOf(ZeroAfter(b, FirstOf(Rounds(b)))),
              rounds |-> FirstOf(Rounds(b))]
        ELSE [way |-> m_ways, rounds |-> 4]

Aged(b, rounds) ==
    [way \in Ways |-> [b[way] EXCEPT !.rrip = (@ - rounds) % Wrap]]

\* Mutant: a new block is taken for one that was just hit.
FillAsHit(b, way, addr) ==
    [b EXCEPT ![way] = [valid |-> TRUE, tag |-> addr, rrip |-> 3]]

Fill(b, way, addr) ==
    [b EXCEPT ![way] = [valid |-> TRUE, tag |-> addr, rrip |-> 1]]

\* Mutant: the whole set is invalidated.
InvalidateSet(b, way) == [w \in Ways |-> EmptyBlock]

Invalidate(b, way) == [b EXCEPT ![way] = EmptyBlock]

-----------------------------------------------------------------------------
(* The calls, on the blocks of one set and their history                   *)

SetState(addr) ==
    [b |-> m_cache[SetOf(addr)], used |-> used[SetOf(addr)],
     spared |-> spared[SetOf(addr)]]

Become(addr, s) ==
    /\ m_cache' = [m_cache EXCEPT ![SetOf(addr)] = s.b]
    /\ used' = [used EXCEPT ![SetOf(addr)] = s.used]
    /\ spared' = [spared EXCEPT ![SetOf(addr)] = s.spared]

HitIn(s, way) ==
    [b |-> Hit(s.b, way), used |-> s.used \cup {way},
     spared |-> [s.spared EXCEPT ![way] = 2]]

\* What PartialLookup() leaves of a set.
PartialLookup(s, addr) ==
    LET ways == HoldingPartly(s.b, addr)
    IN  IF ways = {} THEN s ELSE HitIn(s, FirstOf(ways))

\* The expectations of a full set after an eviction: one less, and none at
\* all if every block had been hit since it was filled.
Spare(hit, expected) ==
    [way \in Ways |-> IF hit # Ways /\ expected[way] > 0 THEN expected[way] - 1 ELSE 0]

\* Find_Victim(), Invalidate() and Fill().  Nothing asks whether the row is
\* there already.
insertRowInCache(s, addr) ==
    LET v == Find_Victim(s.b)
        kept == IF s.b[v.way].valid THEN Spare(s.used, s.spared) ELSE s.spared
    IN  [b |-> Fill(Invalidate(Aged(s.b, v.rounds), v.way), v.way, addr),
         used |-> s.used \ {v.way},
         spared |-> [kept EXCEPT ![v.way] = 0]]

-----------------------------------------------------------------------------
(* The callers                                                             *)

GroupOf(addr) ==
    {row \in Rows : row \div partial_lookup_factor = addr \div partial_lookup_factor}

\* Mutant: the row that the group has in the table is fetched after a partial
\* hit as well.
FetchableAlways(b, addr) == GroupOf(addr)

\* The rows that a miss on addr may fetch from the {Row->QR} table: addr, if
\* it is remapped; otherwise the one row of its group that is (ORR_CBF = 1),
\* if none of the group was cached.  A group lies within a set.
Fetchable(b, addr) == IF HoldingPartly(b, addr) # {} THEN {addr} ELSE GroupOf(addr)

\* addQCheckDelay() of a row that Lookup() finds.
Lookup(addr) ==
    LET ways == Holding(m_cache[SetOf(addr)], addr)
    IN  ways # {} /\ Become(addr, HitIn(SetState(addr), FirstOf(ways)))

\* addQCheckDelay() of a row that it misses: PartialLookup(), and the entry
\* that the table has, if it is asked and has one.
Miss(addr) ==
    LET looked == PartialLookup(SetState(addr), addr)
    IN  /\ Holding(m_cache[SetOf(addr)], addr) = {}
        /\ \/ Become(addr, looked)
           \/ \E row \in Fetchable(m_cache[SetOf(addr)], addr) :
                 /\ Find_Victim(looked.b).way \in Ways
                 /\ Become(addr, insertRowInCache(looked, row))

\* quarantineRow() puts the row in unless it is there: only the dirty bit
\* changes then, and no RRIP value.
CacheRow(addr) ==
    /\ Holding(m_cache[SetOf(addr)], addr) = {}
    /\ Find_Victim(m_cache[SetOf(addr)]).way \in Ways
    /\ Become(addr, insertRowInCache(SetState(addr), addr))

removeRowFromCache(addr) ==
    LET s == SetState(addr)
        ways == Holding(s.b, addr)
        way == FirstOf(ways)
    IN  /\ ways # {}
        /\ Become(addr, [b |-> Invalidate(s.b, way), used |-> s.used \ {way},
                         spared |-> [s.spared EXCEPT ![way] = 0]])

Next ==
    \E addr \in Rows :
        Lookup(addr) \/ Miss(addr) \/ CacheRow(addr) \/ removeRowFromCache(addr)

Spec == Init /\ [][Next]_vars

-----------------------------------------------------------------------------
(* Properties                                                              *)

Block == [valid : BOOLEAN, tag : Nat, rrip : 0..3]

\* The blocks hold values of their types; an RRIP value never leaves the two
\* bits it stands for, so lowering it never wraps around.
TypeOK ==
    /\ m_cache \in [Sets -> [Ways -> Block]]
    /\ used \in [Sets -> SUBSET Ways]
    /\ spared \in [Sets -> [Ways -> 0..2]]

\* A full set always has a victim: the four rounds before the assertion of
\* Find_Victim() suffice, whatever hits and fills came before.
VictimFound ==
    \A set \in Sets : Find_Victim(m_cache[set]).way \in Ways

\* A row is in at most one way, and in the set where it is looked up; and a
\* lookup by group finds a cached row of the group wherever it is, since the
\* blocks of a group never spread over two sets.
OneWayEach ==
    /\ TypeOK
    /\ \A set \in Sets : \A w, v \in Ways :
          m_cache[set][w].valid =>
              /\ SetOf(m_cache[set][w].tag) = set
              /\ (m_cache[set][v].valid /\ m_cache[set][v].tag = m_cache[set][w].tag)
                    => v = w
    /\ \A addr \in Rows :
          (\E set \in Sets : HoldingPartly(m_cache[set], addr) # {})
              <=> HoldingPartly(m_cache[SetOf(addr)], addr) # {}

\* A block that was hit is not the victim of the next two evictions of its
\* set, unless every block of the set had been hit since it was filled: a run
\* of rows that are used once does not wash out the ones in use.
HitSurvives ==
    \A set \in Sets : \A way \in Ways :
        (/\ \A w \in Ways : m_cache[set][w].valid
         /\ used[set] # Ways
         /\ spared[set][way] > 0)
            => Find_Victim(m_cache[set]).way # way

\* The cache is the one that row quarantine relies on.
Contents == {row \in Rows : Holding(m_cache[SetOf(row)], row) # {}}

Abstract == INSTANCE RowCache WITH
    Home <- [r \in Rows |-> SetOf(r)],
    Room <- m_ways,
    cached <- Contents

ImplementsRowCache == Abstract!Spec
=============================================================================
