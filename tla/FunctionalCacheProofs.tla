------------------------- MODULE FunctionalCacheProofs -------------------------
(***************************************************************************)
(* The cache of the quarantine table for every number of rows, sets and    *)
(* ways: the RRIP values always lead to a victim, blocks in use survive,   *)
(* and the choice of the victim is one that the cache assumed by           *)
(* RowQuarantine, RowCache, allows for.                                    *)
(***************************************************************************)
EXTENDS FunctionalCache, FiniteSetTheorems, WellFoundedInduction, TLAPS

USE CacheAssumption

\* The blocks of a set are of rows of the set, and no two of the same row.
GoodSet(b, set) ==
  /\ b \in [Ways -> Block]
  /\ \A w \in Ways : b[w].valid =>
       b[w].tag \in Rows /\ SetOf(b[w].tag) = set
  /\ \A w, v \in Ways :
       b[w].valid /\ b[v].valid /\ b[w].tag = b[v].tag => w = v

\* What the RRIP values say of the history: a way that was not hit since it was
\* filled has one of the two lowest, and a way with e evictions to survive is
\* above them by then.
Ranked(b, hit, expected) ==
  /\ hit \in SUBSET Ways
  /\ expected \in [Ways -> 0 .. 2]
  /\ \A w \in Ways :
       /\ w \notin hit => b[w].rrip <= 1
       /\ expected[w] = 2 => b[w].rrip = 3
       /\ expected[w] = 1 => b[w].rrip >= 2

\* The inductive invariant of the cache.  HitSurvives is not inductive: the next
\* eviction lowers the values, which Ranked keeps account of.
CacheInv ==
  /\ TypeOK
  /\ \A set \in Sets :
       GoodSet(m_cache[set], set) /\ Ranked(m_cache[set], used[set], spared[set])

\* A scan over a non-empty set of numbers stops at the least.
LEMMA FirstWay ==
  ASSUME NEW S \in SUBSET Nat, S # {}
  PROVE  FirstOf(S) \in S /\ \A n \in S : FirstOf(S) <= n
<1> DEFINE Less == {ss \in Nat \X Nat : ss[1] < ss[2]}
<1>1. IsWellFoundedOn(Less, Nat)
  BY NatLessThanWellFounded, Zenon DEF OpToRel
<1> HIDE DEF Less
<1>2. PICK e \in S : \A f \in S : ~(<<f, e>> \in Less)
  BY <1>1, WFMin, Zenon
<1>3. \A f \in S : ~(f < e)
  BY <1>2 DEF Less
<1>4. \A f \in S : e <= f
  BY <1>3
<1> QED BY <1>4 DEF FirstOf

LEMMA HomeSet ==
  ASSUME NEW r \in Rows PROVE SetOf(r) \in Sets
<1>1. r \in Nat
  OBVIOUS
<1>2. r \div BlockSize \in Nat
  BY <1>1
<1>3. (r \div BlockSize) % m_sets \in 0 .. m_sets - 1
  BY <1>2
<1> QED BY <1>3 DEF SetOf, Sets

\* Find_Victim() finds a way within the rounds that the lowest value allows:
\* an empty one, or one that the rounds bring to zero.
LEMMA VictimFacts ==
  ASSUME NEW b \in [Ways -> Block]
  PROVE  /\ Find_Victim(b).way \in Ways
         /\ Find_Victim(b).rounds \in 0 .. 3
         /\ \A w \in Ways : b[w].rrip >= Find_Victim(b).rounds
         /\ (\E w \in Ways : ~b[w].valid) =>
               ~b[Find_Victim(b).way].valid /\ Find_Victim(b).rounds = 0
         /\ (\A w \in Ways : b[w].valid) =>
               b[Find_Victim(b).way].rrip = Find_Victim(b).rounds
<1>1. /\ Ways \in SUBSET Nat /\ 0 \in Ways
      /\ \A w \in Ways : b[w].valid \in BOOLEAN /\ b[w].rrip \in 0 .. 3
  BY DEF Ways, Block
<1> DEFINE free == {w \in Ways : ~b[w].valid}
<1>2. CASE free # {}
  <2>1. Find_Victim(b) = [way |-> FirstOf(free), rounds |-> 0]
    BY <1>2 DEF Find_Victim
  <2>2. FirstOf(free) \in free
    BY <1>1, <1>2, FirstWay
  <2>3. PICK f \in Ways : f = FirstOf(free) /\ ~b[f].valid
    BY <2>2
  <2>4. Find_Victim(b).way = f /\ Find_Victim(b).rounds = 0
    BY <2>1, <2>3
  <2> QED BY <1>1, <2>3, <2>4
<1>3. CASE free = {}
  <2>1. \A w \in Ways, n \in 0 .. 3 : (b[w].rrip - n) % Wrap = 0 <=> b[w].rrip = n
    <3> SUFFICES ASSUME NEW w \in Ways, NEW n \in 0 .. 3
                 PROVE  (b[w].rrip - n) % Wrap = 0 <=> b[w].rrip = n
      OBVIOUS
    <3>1. Wrap \in Nat /\ Wrap > 4 /\ b[w].rrip - n \in -3 .. 3
      BY <1>1
    <3>2. \A m \in -3 .. 3 : m % Wrap = 0 <=> m = 0
      BY <3>1
    <3> QED BY <1>1, <3>1, <3>2
  <2>2. \A n \in 0 .. 3 : ZeroAfter(b, n) = {w \in Ways : b[w].rrip = n}
    BY <2>1 DEF ZeroAfter
  <2>3. /\ Rounds(b) \in SUBSET (0 .. 3)
        /\ \A w \in Ways : b[w].rrip \in Rounds(b)
    BY <1>1, <2>2 DEF Rounds
  <2> DEFINE n == FirstOf(Rounds(b))
  <2>4. Rounds(b) \in SUBSET Nat /\ Rounds(b) # {}
    BY <1>1, <2>3
  <2>5. n \in Rounds(b) /\ \A m \in Rounds(b) : n <= m
    BY <2>4, FirstWay
  <2> DEFINE z == ZeroAfter(b, n)
  <2>6. z \in SUBSET Nat /\ z # {} /\ z = {w \in Ways : b[w].rrip = n}
    BY <1>1, <2>2, <2>5 DEF Rounds
  <2>7. FirstOf(z) \in z
    BY <2>6, FirstWay
  <2>8. Find_Victim(b) = [way |-> FirstOf(z), rounds |-> n]
    BY <1>3, <2>4 DEF Find_Victim
  <2> HIDE DEF n, z
  <2> QED BY <1>1, <1>3, <2>3, <2>5, <2>6, <2>7, <2>8
<1> QED BY <1>2, <1>3

\* No value is lowered below zero.
LEMMA AgedFacts ==
  ASSUME NEW b \in [Ways -> Block], NEW n \in 0 .. 3,
         \A w \in Ways : b[w].rrip >= n
  PROVE  /\ Aged(b, n) \in [Ways -> Block]
         /\ \A w \in Ways :
              /\ Aged(b, n)[w].valid = b[w].valid
              /\ Aged(b, n)[w].tag = b[w].tag
              /\ Aged(b, n)[w].rrip = b[w].rrip - n
<1> SUFFICES ASSUME NEW w \in Ways
             PROVE  [b[w] EXCEPT !.rrip = (@ - n) % Wrap]
                      = [valid |-> b[w].valid, tag |-> b[w].tag, rrip |-> b[w].rrip - n]
                    /\ b[w].rrip - n \in 0 .. 3 /\ b[w].valid \in BOOLEAN /\ b[w].tag \in Nat
  BY DEF Aged, Block
<1>1. b[w] = [valid |-> b[w].valid, tag |-> b[w].tag, rrip |-> b[w].rrip]
      /\ b[w].rrip \in 0 .. 3 /\ b[w].valid \in BOOLEAN /\ b[w].tag \in Nat
  BY DEF Block
<1>2. b[w].rrip - n \in 0 .. 3
  BY <1>1
<1>3. \A m \in 0 .. 3 : m % Wrap = m
  OBVIOUS
<1> QED BY <1>1, <1>2, <1>3

-----------------------------------------------------------------------------
\* A hit.
LEMMA HitGood ==
  ASSUME NEW set, NEW b, GoodSet(b, set), NEW u, NEW e, Ranked(b, u, e), NEW way \in Ways
  PROVE  /\ GoodSet(Hit(b, way), set)
         /\ Ranked(Hit(b, way), u \cup {way}, [e EXCEPT ![way] = 2])
<1> DEFINE c == Hit(b, way)
<1>1. /\ c \in [Ways -> Block]
      /\ \A w \in Ways :
           /\ c[w].valid = b[w].valid /\ c[w].tag = b[w].tag
           /\ c[w].rrip = IF w = way THEN 3 ELSE b[w].rrip
  BY DEF Hit, GoodSet, Block
<1> HIDE DEF c
<1>2. GoodSet(c, set)
  BY <1>1 DEF GoodSet
<1>3. Ranked(c, u \cup {way}, [e EXCEPT ![way] = 2])
  BY <1>1 DEF Ranked
<1> QED BY <1>2, <1>3 DEF c

\* A removal.
LEMMA InvalidateGood ==
  ASSUME NEW set, NEW b, GoodSet(b, set), NEW u, NEW e, Ranked(b, u, e), NEW way \in Ways
  PROVE  /\ GoodSet(Invalidate(b, way), set)
         /\ Ranked(Invalidate(b, way), u \ {way}, [e EXCEPT ![way] = 0])
<1> DEFINE c == Invalidate(b, way)
<1>1. /\ c \in [Ways -> Block]
      /\ \A w \in Ways : c[w] = IF w = way THEN EmptyBlock ELSE b[w]
      /\ ~EmptyBlock.valid /\ EmptyBlock.rrip = 0
  BY DEF Invalidate, GoodSet, Block, EmptyBlock
<1> HIDE DEF c
<1>2. GoodSet(c, set)
  BY <1>1 DEF GoodSet
<1>3. Ranked(c, u \ {way}, [e EXCEPT ![way] = 0])
  BY <1>1 DEF Ranked
<1> QED BY <1>2, <1>3 DEF c

\* What insertRowInCache() makes of the blocks and of the expectations.
Inserted(b, addr) ==
  LET v == Find_Victim(b)
  IN  Fill(Invalidate(Aged(b, v.rounds), v.way), v.way, addr)

Expected(b, u, e) ==
  LET v == Find_Victim(b)
  IN  [(IF b[v.way].valid THEN Spare(u, e) ELSE e) EXCEPT ![v.way] = 0]

\* The blocks c are those of b, but for a block of addr in the given way.
Replaces(b, c, way, addr) ==
  /\ c[way].valid /\ c[way].tag = addr
  /\ \A w \in Ways \ {way} : c[w].valid = b[w].valid /\ c[w].tag = b[w].tag

\* Find_Victim(), Invalidate() and Fill(): the new block takes the victim's way,
\* and the others are lowered by no more than the ways that were not hit allow.
LEMMA FillGood ==
  ASSUME NEW b, NEW u, NEW e, NEW addr \in Rows,
         GoodSet(b, SetOf(addr)), Ranked(b, u, e), Holding(b, addr) = {}
  PROVE  /\ GoodSet(Inserted(b, addr), SetOf(addr))
         /\ Ranked(Inserted(b, addr), u \ {Find_Victim(b).way}, Expected(b, u, e))
         /\ Replaces(b, Inserted(b, addr), Find_Victim(b).way, addr)
<1> DEFINE v == Find_Victim(b)
           c == Inserted(b, addr)
           kept == IF b[v.way].valid THEN Spare(u, e) ELSE e
<1>0. /\ v = Find_Victim(b)
      /\ c = Fill(Invalidate(Aged(b, v.rounds), v.way), v.way, addr)
      /\ kept = IF b[v.way].valid THEN Spare(u, e) ELSE e
      /\ Expected(b, u, e) = [kept EXCEPT ![v.way] = 0]
  BY DEF Inserted, Expected
<1> HIDE DEF v, c, kept
<1> DEFINE W == Ways
<1>1. b \in [W -> Block] /\ u \in SUBSET W /\ e \in [W -> 0 .. 2]
  BY DEF GoodSet, Ranked
<1>2. /\ v.way \in W /\ v.rounds \in 0 .. 3
      /\ \A w \in W : b[w].rrip >= v.rounds
      /\ (\E w \in W : ~b[w].valid) => ~b[v.way].valid /\ v.rounds = 0
      /\ (\A w \in W : b[w].valid) => b[v.way].rrip = v.rounds
  BY <1>0, <1>1, VictimFacts
<1>3. /\ Aged(b, v.rounds) \in [W -> Block]
      /\ \A w \in W : /\ Aged(b, v.rounds)[w].valid = b[w].valid
                      /\ Aged(b, v.rounds)[w].tag = b[w].tag
                      /\ Aged(b, v.rounds)[w].rrip = b[w].rrip - v.rounds
  BY <1>1, <1>2, AgedFacts
<1>4. addr \in Nat
  OBVIOUS
<1>5. c = [Aged(b, v.rounds) EXCEPT ![v.way] = [valid |-> TRUE, tag |-> addr, rrip |-> 1]]
  BY <1>0, <1>2, <1>3 DEF Fill, Invalidate
<1>6. /\ c \in [W -> Block]
      /\ c[v.way].valid /\ c[v.way].tag = addr /\ c[v.way].rrip = 1
      /\ \A w \in W \ {v.way} : /\ c[w].valid = b[w].valid /\ c[w].tag = b[w].tag
                                /\ c[w].rrip = b[w].rrip - v.rounds
  <2> DEFINE g == Aged(b, v.rounds)
             n == [valid |-> TRUE, tag |-> addr, rrip |-> 1]
  <2>1. n \in Block /\ n.valid /\ n.tag = addr /\ n.rrip = 1
    BY <1>4 DEF Block
  <2>2. g \in [W -> Block] /\ c = [g EXCEPT ![v.way] = n]
    BY <1>3, <1>5
  <2> HIDE DEF g, n
  <2>3. /\ c \in [W -> Block] /\ c[v.way] = n
        /\ \A w \in W \ {v.way} : c[w] = g[w]
    BY <1>2, <2>1, <2>2
  <2> QED BY <1>3, <2>1, <2>3 DEF g
<1>7. GoodSet(c, SetOf(addr))
  <2>1. \A w \in W : ~(b[w].valid /\ b[w].tag = addr)
    BY DEF Holding
  <2> QED BY <1>2, <1>6, <2>1 DEF GoodSet
<1>8. kept \in [W -> 0 .. 2]
  BY <1>0, <1>1 DEF Spare
<1>9. \A w \in W \ {v.way} : /\ w \notin u => c[w].rrip <= 1
                             /\ kept[w] = 2 => c[w].rrip = 3
                             /\ kept[w] = 1 => c[w].rrip >= 2
  <2>0. \A w \in W : /\ b[w].rrip \in 0 .. 3 /\ b[w].valid \in BOOLEAN
                     /\ w \notin u => b[w].rrip <= 1
                     /\ e[w] = 2 => b[w].rrip = 3
                     /\ e[w] = 1 => b[w].rrip >= 2
    BY <1>1 DEF Ranked, Block
  <2>1. CASE ~b[v.way].valid
    <3>1. v.rounds = 0 /\ kept = e
      BY <1>0, <1>2, <2>1
    <3> QED BY <1>6, <2>0, <3>1
  <2>2. CASE b[v.way].valid /\ u = W
    <3>1. \A w \in W : kept[w] = 0
      BY <1>0, <2>2 DEF Spare
    <3> QED BY <2>2, <3>1
  <2>3. CASE b[v.way].valid /\ u # W
    <3>1. PICK x \in W : x \notin u
      BY <1>1, <2>3
    <3>2. v.rounds \in 0 .. 1
      BY <1>2, <2>0, <3>1
    <3>3. \A w \in W : kept[w] = IF e[w] > 0 THEN e[w] - 1 ELSE 0
      BY <1>0, <2>3 DEF Spare
    <3>4. \A w \in W : e[w] \in 0 .. 2
      BY <1>1
    <3> SUFFICES ASSUME NEW w \in W, w # v.way
                 PROVE  /\ w \notin u => c[w].rrip <= 1
                        /\ kept[w] = 2 => c[w].rrip = 3
                        /\ kept[w] = 1 => c[w].rrip >= 2
      OBVIOUS
    <3>5. c[w].rrip = b[w].rrip - v.rounds
      BY <1>6
    <3>6. kept[w] # 2 /\ (kept[w] = 1 => e[w] = 2)
      BY <3>3, <3>4
    <3> QED BY <2>0, <3>2, <3>5, <3>6
  <2> QED BY <1>2, <2>0, <2>1, <2>2, <2>3
<1>10. Ranked(c, u \ {v.way}, [kept EXCEPT ![v.way] = 0])
  <2> DEFINE k == [kept EXCEPT ![v.way] = 0]
  <2>1. k \in [W -> 0 .. 2] /\ \A w \in W : k[w] = IF w = v.way THEN 0 ELSE kept[w]
    BY <1>2, <1>8
  <2> HIDE DEF k
  <2>2. Ranked(c, u \ {v.way}, k)
    BY <1>1, <1>6, <1>9, <2>1 DEF Ranked
  <2> QED BY <2>2 DEF k
<1>11. Replaces(b, c, v.way, addr)
  BY <1>6 DEF Replaces
<1> QED BY <1>0, <1>7, <1>10, <1>11 DEF v, c

-----------------------------------------------------------------------------
\* The steps of the cache.
LEMMA FoundWay ==
  ASSUME NEW S \in SUBSET Ways, S # {}
  PROVE  FirstOf(S) \in S
<1>1. S \in SUBSET Nat
  BY DEF Ways
<1> QED BY <1>1, FirstWay

LEMMA CacheInit == ASSUME Init PROVE CacheInv
<1>1. EmptyBlock \in Block /\ ~EmptyBlock.valid /\ EmptyBlock.rrip = 0
  BY DEF EmptyBlock, Block
<1>2. TypeOK
  BY <1>1 DEF Init, TypeOK
<1> SUFFICES ASSUME NEW set \in Sets
             PROVE  /\ GoodSet(m_cache[set], set)
                    /\ Ranked(m_cache[set], used[set], spared[set])
  BY <1>2 DEF CacheInv
<1>3. /\ m_cache[set] = [way \in Ways |-> EmptyBlock]
      /\ used[set] = {} /\ spared[set] = [way \in Ways |-> 0]
  BY DEF Init
<1> QED BY <1>1, <1>3 DEF GoodSet, Ranked

\* A step that changes the blocks and the history of one set.
LEMMA OneSet ==
  ASSUME CacheInv, NEW set \in Sets, NEW b, NEW u, NEW e,
         GoodSet(b, set), Ranked(b, u, e),
         m_cache' = [m_cache EXCEPT ![set] = b],
         used' = [used EXCEPT ![set] = u],
         spared' = [spared EXCEPT ![set] = e]
  PROVE  CacheInv'
<1>1. /\ b \in [Ways -> Block] /\ u \in SUBSET Ways
      /\ e \in [Ways -> 0 .. 2]
  BY DEF GoodSet, Ranked
<1>2. TypeOK'
  BY <1>1 DEF CacheInv, TypeOK, Sets, Ways, Block
<1>3. ASSUME NEW x \in Sets
      PROVE  /\ m_cache'[x] = IF x = set THEN b ELSE m_cache[x]
             /\ used'[x] = IF x = set THEN u ELSE used[x]
             /\ spared'[x] = IF x = set THEN e ELSE spared[x]
  BY DEF CacheInv, TypeOK
<1>4. ASSUME NEW x \in Sets
      PROVE  GoodSet(m_cache'[x], x) /\ Ranked(m_cache'[x], used'[x], spared'[x])
  BY <1>3 DEF CacheInv
<1>5. \A x \in Sets :
        GoodSet(m_cache'[x], x) /\ Ranked(m_cache'[x], used'[x], spared'[x])
  BY <1>4
<1> QED BY <1>2, <1>5 DEF CacheInv, GoodSet, Ranked, Sets, Ways, Block,
                         SetOf

\* The blocks of a group of rows are in one set: a group lies within a block.
LEMMA SameBlock ==
  ASSUME NEW a \in Nat, NEW c \in Nat,
         a \div partial_lookup_factor = c \div partial_lookup_factor
  PROVE  a \div BlockSize = c \div BlockSize
<1> DEFINE p == partial_lookup_factor
           k == BlockSize \div p
           q == a \div p
           m == a \div BlockSize
<1>1. p \in Nat \ {0} /\ BlockSize \in Nat \ {0} /\ BlockSize % p = 0
  BY GroupAssumption
<1>2. k \in Nat /\ BlockSize = p * k
  BY <1>1
<1>3. q \in Nat /\ p * q <= a /\ a < p * (q + 1) /\ p * q <= c /\ c < p * (q + 1)
  <2>1. \A x \in Nat : x \div p \in Nat /\ p * (x \div p) <= x /\ x < p * ((x \div p) + 1)
    BY <1>1
  <2> QED BY <2>1
<1>4. m \in Nat /\ BlockSize * m <= a /\ a < BlockSize * (m + 1)
  BY <1>1
<1> HIDE DEF p, k, q, m
<1>5. k * m \in Nat /\ k * (m + 1) \in Nat
  BY <1>2, <1>4
<1>6. p * (k * m) = BlockSize * m /\ p * (k * (m + 1)) = BlockSize * (m + 1)
  BY <1>1, <1>2, <1>4
<1>7. \A x, y \in Nat : p * x < p * y => x < y
  BY <1>1
<1>8. \A x, y \in Nat : x <= y => p * x <= p * y
  BY <1>1
<1>9. k * m <= q
  <2>1. p * (k * m) < p * (q + 1)
    BY <1>1, <1>3, <1>4, <1>5, <1>6
  <2>2. k * m < q + 1
    BY <1>3, <1>5, <1>7, <2>1
  <2> QED BY <1>3, <1>5, <2>2
<1>10. q + 1 <= k * (m + 1)
  <2>1. p * q < p * (k * (m + 1))
    BY <1>1, <1>3, <1>4, <1>5, <1>6
  <2>2. q < k * (m + 1)
    BY <1>3, <1>5, <1>7, <2>1
  <2> QED BY <1>3, <1>5, <2>2
<1>11. p * (k * m) <= p * q /\ p * (q + 1) <= p * (k * (m + 1))
  BY <1>3, <1>5, <1>8, <1>9, <1>10
<1>12. BlockSize * m <= c /\ c < BlockSize * (m + 1)
  <2>1. p * q \in Nat /\ p * (q + 1) \in Nat /\ p * (k * m) \in Nat /\ p * (k * (m + 1)) \in Nat
    BY <1>1, <1>3, <1>5
  <2> QED BY <1>3, <1>6, <1>11, <2>1
<1>13. \A n \in Nat : BlockSize * n <= c /\ c < BlockSize * (n + 1) => c \div BlockSize = n
  BY <1>1
<1> QED BY <1>4, <1>12, <1>13 DEF m

\* The blocks c are of the same rows as b, way by way.
SameRows(b, c) == \A w \in Ways : c[w].valid = b[w].valid /\ c[w].tag = b[w].tag

\* A set and its history as the invariant has them.
GoodState(s, set) == GoodSet(s.b, set) /\ Ranked(s.b, s.used, s.spared)

LEMMA BecomeGood ==
  ASSUME CacheInv, NEW addr \in Rows, NEW s, GoodState(s, SetOf(addr)), Become(addr, s)
  PROVE  CacheInv'
BY HomeSet, OneSet DEF GoodState, Become

LEMMA SetStateGood ==
  ASSUME CacheInv, NEW addr \in Rows
  PROVE  /\ GoodState(SetState(addr), SetOf(addr))
         /\ SetState(addr).b = m_cache[SetOf(addr)]
BY HomeSet DEF CacheInv, GoodState, SetState

LEMMA HitState ==
  ASSUME NEW set, NEW s, GoodState(s, set), NEW way \in Ways
  PROVE  GoodState(HitIn(s, way), set) /\ SameRows(s.b, HitIn(s, way).b)
<1> DEFINE h == HitIn(s, way)
<1>1. /\ h.b = Hit(s.b, way) /\ h.used = s.used \cup {way}
      /\ h.spared = [s.spared EXCEPT ![way] = 2]
  BY DEF HitIn
<1> HIDE DEF h
<1>2. GoodState(h, set)
  BY <1>1, HitGood DEF GoodState
<1>3. SameRows(s.b, h.b)
  BY <1>1 DEF SameRows, Hit, GoodState, GoodSet, Block
<1> QED BY <1>2, <1>3 DEF h

LEMMA PartialState ==
  ASSUME NEW set, NEW s, GoodState(s, set), NEW addr
  PROVE  /\ GoodState(PartialLookup(s, addr), set)
         /\ SameRows(s.b, PartialLookup(s, addr).b)
<1> DEFINE ways == HoldingPartly(s.b, addr)
<1>1. CASE ways = {}
  BY <1>1 DEF PartialLookup, SameRows
<1>2. CASE ways # {}
  <2>1. FirstOf(ways) \in Ways
    BY <1>2, FoundWay DEF HoldingPartly
  <2>2. PartialLookup(s, addr) = HitIn(s, FirstOf(ways))
    BY <1>2 DEF PartialLookup
  <2> QED BY <2>1, <2>2, HitState
<1> QED BY <1>1, <1>2

LEMMA InsertState ==
  ASSUME NEW addr \in Rows, NEW s, GoodState(s, SetOf(addr)), Holding(s.b, addr) = {}
  PROVE  /\ GoodState(insertRowInCache(s, addr), SetOf(addr))
         /\ Replaces(s.b, insertRowInCache(s, addr).b, Find_Victim(s.b).way, addr)
<1> DEFINE t == insertRowInCache(s, addr)
<1>1. /\ t.b = Inserted(s.b, addr)
      /\ t.used = s.used \ {Find_Victim(s.b).way}
      /\ t.spared = Expected(s.b, s.used, s.spared)
  BY DEF insertRowInCache, Inserted, Expected
<1>2. GoodSet(s.b, SetOf(addr)) /\ Ranked(s.b, s.used, s.spared)
  BY DEF GoodState
<1>3. /\ GoodSet(Inserted(s.b, addr), SetOf(addr))
      /\ Ranked(Inserted(s.b, addr), s.used \ {Find_Victim(s.b).way},
                Expected(s.b, s.used, s.spared))
      /\ Replaces(s.b, Inserted(s.b, addr), Find_Victim(s.b).way, addr)
  BY <1>2, FillGood
<1> HIDE DEF t
<1>4. GoodState(t, SetOf(addr)) /\ Replaces(s.b, t.b, Find_Victim(s.b).way, addr)
  BY <1>1, <1>3, Zenon DEF GoodState
<1> QED BY <1>4 DEF t

\* A row that a miss fetches belongs to the set, and is not in it: after a partial
\* hit it is the row that was missed, and otherwise none of the group is cached.
LEMMA FetchedAbsent ==
  ASSUME NEW b, NEW addr \in Rows, Holding(b, addr) = {}, NEW row \in Fetchable(b, addr)
  PROVE  /\ row \in Rows /\ SetOf(row) = SetOf(addr)
         /\ Holding(b, row) = {}
<1>1. CASE HoldingPartly(b, addr) # {}
  BY <1>1 DEF Fetchable
<1>2. CASE HoldingPartly(b, addr) = {}
  <2>1. row \in Rows /\ row \div partial_lookup_factor = addr \div partial_lookup_factor
    BY <1>2 DEF Fetchable, GroupOf
  <2>2. row \in Nat /\ addr \in Nat
    BY <2>1
  <2>3. SetOf(row) = SetOf(addr)
    BY <2>1, <2>2, SameBlock DEF SetOf
  <2>4. Holding(b, row) = {}
    BY <1>2, <2>1 DEF Holding, HoldingPartly
  <2> QED BY <2>1, <2>3, <2>4
<1> QED BY <1>1, <1>2

LEMMA SameHolding ==
  ASSUME NEW b, NEW c, SameRows(b, c), NEW row
  PROVE  Holding(c, row) = Holding(b, row)
BY DEF SameRows, Holding

\* What an insertion of a miss finds: the set after PartialLookup(), with the row
\* that is fetched at home and absent.
LEMMA FetchState ==
  ASSUME CacheInv, NEW addr \in Rows, Holding(m_cache[SetOf(addr)], addr) = {},
         NEW row \in Fetchable(m_cache[SetOf(addr)], addr)
  PROVE  LET looked == PartialLookup(SetState(addr), addr)
         IN  /\ row \in Rows /\ SetOf(row) = SetOf(addr)
             /\ GoodState(looked, SetOf(row))
             /\ SameRows(m_cache[SetOf(row)], looked.b)
             /\ Holding(looked.b, row) = {}
<1> DEFINE looked == PartialLookup(SetState(addr), addr)
<1>1. /\ row \in Rows /\ SetOf(row) = SetOf(addr)
      /\ Holding(m_cache[SetOf(addr)], row) = {}
  BY FetchedAbsent
<1>2. /\ GoodState(looked, SetOf(addr))
      /\ SameRows(m_cache[SetOf(addr)], looked.b)
  BY SetStateGood, PartialState
<1>3. Holding(looked.b, row) = {}
  BY <1>1, <1>2, SameHolding
<1> QED BY <1>1, <1>2, <1>3

LEMMA CacheStep ==
  ASSUME CacheInv, [Next]_vars
  PROVE  CacheInv'
<1>1. CASE UNCHANGED vars
  BY <1>1 DEF vars, CacheInv, TypeOK, GoodSet, Ranked, Sets, Ways,
              Block, SetOf
<1>2. ASSUME NEW addr \in Rows,
             \/ Lookup(addr) \/ Miss(addr)
             \/ CacheRow(addr) \/ removeRowFromCache(addr)
      PROVE  CacheInv'
  <2> DEFINE set == SetOf(addr)
             s == SetState(addr)
             b == m_cache[set]
  <2>1. GoodState(s, set) /\ s.b = b
    BY SetStateGood
  <2>2. CASE Lookup(addr)
    <3>1. FirstOf(Holding(b, addr)) \in Ways
      BY <2>2, FoundWay DEF Lookup, Holding
    <3> QED BY <2>1, <2>2, <3>1, HitState, BecomeGood DEF Lookup
  <2>3. CASE Miss(addr)
    <3> DEFINE looked == PartialLookup(s, addr)
    <3>1. Holding(b, addr) = {}
      BY <2>3 DEF Miss
    <3>2. CASE Become(addr, looked)
      BY <2>1, <3>2, PartialState, BecomeGood
    <3>3. ASSUME NEW row \in Fetchable(b, addr), Become(addr, insertRowInCache(looked, row))
          PROVE  CacheInv'
      <4>1. /\ row \in Rows /\ SetOf(row) = set
            /\ GoodState(looked, SetOf(row)) /\ Holding(looked.b, row) = {}
        BY <3>1, FetchState
      <4>2. GoodState(insertRowInCache(looked, row), set)
        BY <4>1, InsertState
      <4> QED BY <3>3, <4>2, BecomeGood
    <3> QED BY <2>3, <3>2, <3>3 DEF Miss
  <2>4. CASE CacheRow(addr)
    <3>1. GoodState(insertRowInCache(s, addr), set)
      BY <2>1, <2>4, InsertState DEF CacheRow
    <3> QED BY <2>4, <3>1, BecomeGood DEF CacheRow
  <2>5. CASE removeRowFromCache(addr)
    <3> DEFINE way == FirstOf(Holding(s.b, addr))
               t == [b |-> Invalidate(s.b, way), used |-> s.used \ {way},
                     spared |-> [s.spared EXCEPT ![way] = 0]]
    <3>1. way \in Ways
      BY <2>5, FoundWay DEF removeRowFromCache, Holding
    <3>2. Become(addr, t)
      BY <2>5 DEF removeRowFromCache
    <3> HIDE DEF way
    <3>3. GoodState(t, set)
      BY <2>1, <3>1, InvalidateGood DEF GoodState
    <3> QED BY <3>2, <3>3, BecomeGood
  <2> QED BY <1>2, <2>2, <2>3, <2>4, <2>5
<1> QED BY <1>1, <1>2 DEF Next

LEMMA CacheInvHolds == Spec => []CacheInv
<1>1. Init => CacheInv
  BY CacheInit
<1>2. CacheInv /\ [Next]_vars => CacheInv'
  BY CacheStep
<1> QED BY <1>1, <1>2, PTL DEF Spec

\* Every call of Find_Victim() finds a victim, so that its assertion holds.
THEOREM AlwaysVictim == Spec => []VictimFound
<1>1. CacheInv => VictimFound
  <2> SUFFICES ASSUME CacheInv, NEW set \in Sets
               PROVE  Find_Victim(m_cache[set]).way \in Ways
    BY DEF VictimFound
  <2>1. m_cache[set] \in [Ways -> Block]
    BY DEF CacheInv, TypeOK
  <2> QED BY <2>1, VictimFacts
<1> QED BY <1>1, CacheInvHolds, PTL

\* A block that Lookup() found survives the next two evictions of its set.
THEOREM HitsSurvive == Spec => []HitSurvives
<1>1. CacheInv => HitSurvives
  <2> SUFFICES ASSUME CacheInv, NEW set \in Sets, NEW way \in Ways,
                      \A w \in Ways : m_cache[set][w].valid,
                      used[set] # Ways, spared[set][way] > 0
               PROVE  Find_Victim(m_cache[set]).way # way
    BY DEF HitSurvives
  <2> DEFINE b == m_cache[set]
             v == Find_Victim(b)
  <2>1. b \in [Ways -> Block] /\ Ranked(b, used[set], spared[set])
    BY DEF CacheInv, TypeOK
  <2>2. /\ v.way \in Ways /\ b[v.way].rrip = v.rounds
        /\ v.rounds \in 0 .. 3 /\ \A w \in Ways : b[w].rrip >= v.rounds
    BY <2>1, VictimFacts
  <2>3. PICK u \in Ways : u \notin used[set]
    BY <2>1 DEF Ranked
  <2>4. b[u].rrip <= 1 /\ b[u].rrip \in 0 .. 3 /\ b[way].rrip >= 2
    BY <2>1, <2>3 DEF Ranked, Block
  <2> HIDE DEF v, b
  <2>5. v.way # way
    BY <2>2, <2>3, <2>4
  <2> QED BY <2>5 DEF v, b
<1> QED BY <1>1, CacheInvHolds, PTL

\* A row is in one way of the set that is searched for it, and a search by
\* group is not misled by the set.
THEOREM OneWay == Spec => []OneWayEach
<1>1. CacheInv => OneWayEach
  <2> SUFFICES ASSUME CacheInv PROVE OneWayEach
    OBVIOUS
  <2>1. TypeOK
    BY DEF CacheInv
  <2>2. \A set \in Sets : \A w, v \in Ways :
          m_cache[set][w].valid =>
            /\ m_cache[set][w].tag \in Rows
            /\ SetOf(m_cache[set][w].tag) = set
            /\ (m_cache[set][v].valid /\ m_cache[set][v].tag = m_cache[set][w].tag)
                  => v = w
    BY DEF CacheInv, GoodSet
  <2>3. ASSUME NEW addr \in Rows, NEW set \in Sets,
               HoldingPartly(m_cache[set], addr) # {}
        PROVE  HoldingPartly(m_cache[SetOf(addr)], addr) # {}
    <3>1. PICK w \in Ways :
            /\ m_cache[set][w].valid
            /\ m_cache[set][w].tag \div partial_lookup_factor = addr \div partial_lookup_factor
      BY <2>3 DEF HoldingPartly
    <3> DEFINE tag == m_cache[set][w].tag
    <3>2. tag \in Rows /\ SetOf(tag) = set
      BY <2>2, <3>1
    <3>3. tag \in Nat /\ addr \in Nat
      BY <3>2
    <3>4. tag \div BlockSize = addr \div BlockSize
      BY <3>1, <3>3, SameBlock
    <3>5. SetOf(addr) = set
      BY <3>2, <3>4 DEF SetOf
    <3> QED BY <2>3, <3>5
  <2>4. \A addr \in Rows : SetOf(addr) \in Sets
    BY HomeSet
  <2> QED BY <2>1, <2>2, <2>3, <2>4 DEF OneWayEach
<1> QED BY <1>1, CacheInvHolds, PTL

-----------------------------------------------------------------------------
\* The cache as row quarantine sees it.

\* The rows that the blocks b are of.
RowsIn(b) == {r \in Rows : Holding(b, r) # {}}

LEMMA RowsInBlocks ==
  ASSUME NEW b, NEW r
  PROVE  r \in RowsIn(b) <=> r \in Rows /\ \E w \in Ways : b[w].valid /\ b[w].tag = r
BY DEF RowsIn, Holding

\* There are as many rows in a set as valid ways.
LEMMA RowsCounted ==
  ASSUME NEW set, NEW b, GoodSet(b, set)
  PROVE  /\ (\A w \in Ways : b[w].valid) => Cardinality(RowsIn(b)) = m_ways
         /\ (\E w \in Ways : ~b[w].valid) => Cardinality(RowsIn(b)) < m_ways
<1> DEFINE V == {w \in Ways : b[w].valid}
           f == [w \in V |-> b[w].tag]
           R == RowsIn(b)
<1>1. m_ways \in Nat \ {0}
  OBVIOUS
<1>2. IsFiniteSet(Ways) /\ Cardinality(Ways) = m_ways
  <2>1. 0 \in Int /\ m_ways - 1 \in Int /\ 0 <= m_ways - 1
    BY <1>1
  <2>2. IsFiniteSet(0 .. m_ways - 1) /\ Cardinality(0 .. m_ways - 1) = (m_ways - 1) - 0 + 1
    <3>1. \A i, j \in Int : /\ IsFiniteSet(i .. j)
                            /\ Cardinality(i .. j) = IF i > j THEN 0 ELSE j - i + 1
      BY FS_Interval
    <3>2. /\ IsFiniteSet(0 .. m_ways - 1)
          /\ Cardinality(0 .. m_ways - 1)
                = IF 0 > m_ways - 1 THEN 0 ELSE (m_ways - 1) - 0 + 1
      BY <2>1, <3>1, Zenon
    <3>3. ~(0 > m_ways - 1)
      BY <2>1
    <3> QED BY <3>2, <3>3, Zenon
  <2> QED BY <1>1, <2>2 DEF Ways
<1>3. IsFiniteSet(V)
  <2>1. V \in SUBSET Ways
    OBVIOUS
  <2> QED BY <1>2, <2>1, FS_Subset
<1>4. f \in Bijection(V, R)
  <2>1. \A r : r \in R <=> \E w \in V : f[w] = r
    <3>1. \A w \in V : f[w] \in Rows
      BY DEF GoodSet
    <3>2. \A r : r \in R <=> r \in Rows /\ \E w \in Ways : b[w].valid /\ b[w].tag = r
      BY RowsInBlocks
    <3> HIDE DEF R
    <3> QED BY <3>1, <3>2
  <2>2. \A w, x \in V : f[w] = f[x] => w = x
    BY DEF GoodSet
  <2> HIDE DEF R, V
  <2>3. f \in [V -> R] /\ \A r \in R : \E w \in V : f[w] = r
    BY <2>1
  <2> HIDE DEF f
  <2> QED BY <2>2, <2>3 DEF Bijection, Injection, Surjection, IsInjective
<1>5. Cardinality(R) = Cardinality(V)
  <2>1. ExistsBijection(V, R)
    BY <1>4 DEF ExistsBijection
  <2> HIDE DEF V, R
  <2> QED BY <1>3, <2>1, FS_Bijection
<1>6. (\A w \in Ways : b[w].valid) => V = Ways
  OBVIOUS
<1>7. ASSUME NEW w \in Ways, ~b[w].valid
      PROVE  Cardinality(V) < m_ways
  <2>1. /\ IsFiniteSet(Ways \ {w})
        /\ Cardinality(Ways \ {w}) = m_ways - 1
    BY <1>2, FS_RemoveElement
  <2>2. V \in SUBSET (Ways \ {w})
    BY <1>7
  <2>3. Cardinality(V) <= m_ways - 1 /\ Cardinality(V) \in Nat
    BY <1>3, <2>1, <2>2, FS_Subset, FS_CardinalityType
  <2> QED BY <1>1, <2>3
<1> QED BY <1>2, <1>5, <1>6, <1>7

\* The rows of a set are the mates of each of its rows.
LEMMA MatesOfSet ==
  ASSUME CacheInv, NEW addr \in Rows
  PROVE  /\ Abstract!Mates(addr) = RowsIn(m_cache[SetOf(addr)])
         /\ addr \in Contents <=> Holding(m_cache[SetOf(addr)], addr) # {}
<1> DEFINE set == SetOf(addr)
<1>1. GoodSet(m_cache[set], set)
  BY HomeSet DEF CacheInv
<1>2. \A r \in RowsIn(m_cache[set]) : SetOf(r) = set
  BY <1>1, RowsInBlocks DEF GoodSet
<1> QED BY <1>2 DEF Abstract!Mates, Contents, RowsIn

\* A step that changes the blocks of one set changes the rows of that set.
LEMMA OneSetContents ==
  ASSUME CacheInv, NEW addr \in Rows, NEW c,
         m_cache' = [m_cache EXCEPT ![SetOf(addr)] = c],
         GoodSet(c, SetOf(addr))
  PROVE  Contents' = {r \in Contents : SetOf(r) # SetOf(addr)}
                             \cup RowsIn(c)
<1> DEFINE set == SetOf(addr)
<1>1. set \in Sets /\ m_cache \in [Sets -> [Ways -> Block]]
  BY HomeSet DEF CacheInv, TypeOK
<1>0. Contents \in SUBSET Rows /\ Contents' \in SUBSET Rows /\ RowsIn(c) \in SUBSET Rows
  BY DEF Contents, RowsIn
<1> SUFFICES ASSUME NEW r \in Rows
             PROVE  r \in Contents' <=>
                      \/ SetOf(r) # set /\ r \in Contents
                      \/ \E w \in Ways : c[w].valid /\ c[w].tag = r
  <2>1. \A r : r \in RowsIn(c) <=> r \in Rows /\ \E w \in Ways : c[w].valid /\ c[w].tag = r
    BY RowsInBlocks
  <2> HIDE DEF set
  <2>2. ASSUME \A r \in Rows : r \in Contents' <=>
                 \/ SetOf(r) # set /\ r \in Contents
                 \/ \E w \in Ways : c[w].valid /\ c[w].tag = r
        PROVE  Contents' = {r \in Contents : SetOf(r) # set} \cup RowsIn(c)
    BY <1>0, <2>1, <2>2
  <2> QED BY <2>2 DEF set
<1>2. SetOf(r) \in Sets
  BY HomeSet
<1>3. r \in Contents' <=>
        \E w \in Ways : /\ m_cache'[SetOf(r)][w].valid
                        /\ m_cache'[SetOf(r)][w].tag = r
  BY DEF Contents, Holding, Ways, SetOf
<1>4. r \in Contents <=>
        \E w \in Ways : /\ m_cache[SetOf(r)][w].valid
                        /\ m_cache[SetOf(r)][w].tag = r
  BY DEF Contents, Holding
<1>5. m_cache'[SetOf(r)] = IF SetOf(r) = set THEN c ELSE m_cache[SetOf(r)]
  BY <1>1, <1>2
<1>6. SetOf(r) # set => ~\E w \in Ways : c[w].valid /\ c[w].tag = r
  BY DEF GoodSet
<1> QED BY <1>3, <1>4, <1>5, <1>6

LEMMA SameCardinality == \A S : Abstract!Cardinality(S) = Cardinality(S)
BY DEF Abstract!Cardinality, Cardinality

\* insertRowInCache() is an insertion of the abstract cache, whichever victim
\* it found, when the row is not there; a PartialLookup() before it changes
\* RRIP values only.
LEMMA InsertRefines ==
  ASSUME CacheInv, NEW addr \in Rows, NEW s, GoodState(s, SetOf(addr)),
         SameRows(m_cache[SetOf(addr)], s.b), Holding(s.b, addr) = {},
         m_cache' = [m_cache EXCEPT ![SetOf(addr)] = insertRowInCache(s, addr).b]
  PROVE  Abstract!Insert(addr)
<1> DEFINE set == SetOf(addr)
           b == s.b
           way == Find_Victim(b).way
           c == insertRowInCache(s, addr).b
<1>1. GoodSet(b, set) /\ Ranked(b, s.used, s.spared) /\ Holding(b, addr) = {}
  BY DEF GoodState
<1>2. /\ GoodSet(c, set)
      /\ c[way].valid /\ c[way].tag = addr
      /\ \A w \in Ways \ {way} : c[w].valid = b[w].valid /\ c[w].tag = b[w].tag
  <2>1. GoodSet(c, set) /\ Replaces(b, c, way, addr)
    BY <1>1, InsertState DEF GoodState
  <2> QED BY <2>1 DEF Replaces
<1>3. m_cache' = [m_cache EXCEPT ![set] = c]
  OBVIOUS
<1>same. \A r \in Rows : Holding(m_cache[set], r) = Holding(b, r)
  BY SameHolding
<1>4. /\ Abstract!Mates(addr) = RowsIn(b)
      /\ addr \notin Contents
  BY <1>1, <1>same, MatesOfSet DEF RowsIn
<1>5. \A r \in Rows :
        r \in Contents' <=>
          \/ SetOf(r) # set /\ r \in Contents
          \/ \E w \in Ways : c[w].valid /\ c[w].tag = r
  <2>1. Contents' = {r \in Contents : SetOf(r) # set} \cup RowsIn(c)
    BY <1>2, <1>3, OneSetContents
  <2> HIDE DEF set, c
  <2> QED BY <2>1, RowsInBlocks
<1>6. \A r \in Rows :
        r \in Contents <=>
          \/ SetOf(r) # set /\ r \in Contents
          \/ \E w \in Ways : b[w].valid /\ b[w].tag = r
  <2>1. \A r \in Rows : SetOf(r) = set =>
          (r \in Contents <=> \E w \in Ways : b[w].valid /\ b[w].tag = r)
    <3>1. \A r \in Rows : Holding(b, r) # {} <=> \E w \in Ways : b[w].valid /\ b[w].tag = r
      BY DEF Holding
    <3>2. \A r \in Rows : SetOf(r) = set => (r \in Contents <=> Holding(m_cache[set], r) # {})
      BY DEF Contents
    <3> QED BY <1>same, <3>1, <3>2
  <2>2. \A w \in Ways : b[w].valid => SetOf(b[w].tag) = set
    BY <1>1 DEF GoodSet
  <2> QED BY <2>1, <2>2
<1>7. /\ b \in [Ways -> Block] /\ way \in Ways
      /\ (\E w \in Ways : ~b[w].valid) => ~b[way].valid
  BY <1>1, VictimFacts DEF GoodSet
<1>8. Contents \in SUBSET Rows /\ Contents' \in SUBSET Rows
  BY DEF Contents
<1>9. \A w, x \in Ways : b[w].valid /\ b[x].valid /\ b[w].tag = b[x].tag => w = x
  BY <1>1 DEF GoodSet
<1>10. CASE ~b[way].valid
  <2>1. Cardinality(RowsIn(b)) < m_ways
    BY <1>1, <1>7, <1>10, RowsCounted
  <2> HIDE DEF set, b, way, c
  <2>2. \A r \in Rows : r \in Contents' <=> r \in Contents \/ r = addr
    BY <1>2, <1>5, <1>6, <1>7, <1>10
  <2>3. Contents' = Contents \cup {addr}
    BY <1>8, <2>2
  <2>4. Cardinality(Abstract!Mates(addr)) < m_ways
    BY <1>4, <2>1
  <2> QED BY <1>4, <2>3, <2>4, SameCardinality, Zenon DEF Abstract!Insert
<1>11. CASE b[way].valid
  <2> DEFINE gone == b[way].tag
  <2>1. \A w \in Ways : b[w].valid
    BY <1>7, <1>11
  <2>2. Cardinality(RowsIn(b)) = m_ways
    BY <1>1, <2>1, RowsCounted
  <2>3. gone \in Rows /\ SetOf(gone) = set
    BY <1>1, <1>7, <1>11 DEF GoodSet
  <2>4. gone \in RowsIn(b)
    BY <1>7, <1>11, <2>3, RowsInBlocks
  <2>5. gone # addr
    BY <1>1, <1>7, <1>11 DEF Holding
  <2> HIDE DEF set, b, way, c
  <2>6. \A r \in Rows : r \in Contents' <=> (r \in Contents /\ r # gone) \/ r = addr
    <3> SUFFICES ASSUME NEW r \in Rows
                 PROVE  r \in Contents' <=> (r \in Contents /\ r # gone) \/ r = addr
      OBVIOUS
    <3>1. CASE r = addr
      BY <1>2, <1>5, <1>7, <3>1
    <3>2. CASE r = gone
      <4>1. ~\E w \in Ways : c[w].valid /\ c[w].tag = r
        BY <1>2, <1>7, <1>9, <1>11, <2>5, <3>2
      <4> QED BY <1>5, <2>3, <2>5, <3>2, <4>1
    <3>3. CASE r # addr /\ r # gone
      <4>1. (\E w \in Ways : c[w].valid /\ c[w].tag = r)
              <=> \E w \in Ways : b[w].valid /\ b[w].tag = r
        BY <1>2, <3>3
      <4> QED BY <1>5, <1>6, <3>3, <4>1
    <3> QED BY <3>1, <3>2, <3>3
  <2>7. Contents' = (Contents \ {gone}) \cup {addr}
    BY <1>8, <2>6
  <2> HIDE DEF gone
  <2>8. Cardinality(Abstract!Mates(addr)) = m_ways /\ gone \in Abstract!Mates(addr)
    BY <1>4, <2>2, <2>4
  <2> QED BY <1>4, <2>7, <2>8, SameCardinality, Zenon DEF Abstract!Insert
<1> QED BY <1>10, <1>11

\* removeRowFromCache() takes the row out, and no other.
LEMMA RemoveRefines ==
  ASSUME CacheInv, NEW addr \in Rows, removeRowFromCache(addr)
  PROVE  Abstract!Remove(addr)
<1> DEFINE set == SetOf(addr)
           b == m_cache[set]
           way == FirstOf(Holding(b, addr))
           c == Invalidate(b, way)
<1>1. GoodSet(b, set) /\ Ranked(b, used[set], spared[set]) /\ Holding(b, addr) # {}
  BY HomeSet DEF CacheInv, removeRowFromCache, SetState
<1>2. way \in Ways /\ b[way].valid /\ b[way].tag = addr
  BY <1>1, FoundWay DEF Holding
<1>3. m_cache' = [m_cache EXCEPT ![set] = c]
  BY DEF removeRowFromCache, Become, SetState
<1>4. addr \in Contents
  BY <1>1, MatesOfSet
<1>5. GoodSet(c, set)
  BY <1>1, <1>2, InvalidateGood
<1>6. \A r \in Rows :
        r \in Contents' <=>
          \/ SetOf(r) # set /\ r \in Contents
          \/ \E w \in Ways : c[w].valid /\ c[w].tag = r
  <2>1. Contents' = {r \in Contents : SetOf(r) # set} \cup RowsIn(c)
    BY <1>3, <1>5, OneSetContents
  <2> HIDE DEF set, c
  <2> QED BY <2>1, RowsInBlocks
<1>7. \A r \in Rows : SetOf(r) = set =>
        (r \in Contents <=> \E w \in Ways : b[w].valid /\ b[w].tag = r)
  BY DEF Contents, Holding
<1>8. \A w \in Ways : b[w].valid => SetOf(b[w].tag) = set
  BY <1>1 DEF GoodSet
<1>9. \A w, x \in Ways : b[w].valid /\ b[x].valid /\ b[w].tag = b[x].tag => w = x
  BY <1>1 DEF GoodSet
<1>10. ~c[way].valid /\ \A w \in Ways \ {way} : c[w] = b[w]
  BY <1>1, <1>2 DEF Invalidate, EmptyBlock, GoodSet
<1>11. Contents \in SUBSET Rows /\ Contents' \in SUBSET Rows
  BY DEF Contents
<1>12. SetOf(addr) = set
  OBVIOUS
<1> HIDE DEF set, b, way, c
<1>13. \A r \in Rows : r \in Contents' <=> r \in Contents /\ r # addr
  <2> SUFFICES ASSUME NEW r \in Rows
               PROVE  r \in Contents' <=> r \in Contents /\ r # addr
    OBVIOUS
  <2>1. (\E w \in Ways : c[w].valid /\ c[w].tag = r)
          <=> r # addr /\ \E w \in Ways : b[w].valid /\ b[w].tag = r
    BY <1>2, <1>9, <1>10
  <2> QED BY <1>6, <1>7, <1>8, <1>12, <2>1
<1>14. Contents' = Contents \ {addr}
  BY <1>11, <1>13
<1> QED BY <1>4, <1>14 DEF Abstract!Remove

\* A hit leaves the rows as they are.
LEMMA HitRefines ==
  ASSUME CacheInv, NEW addr \in Rows, NEW s, GoodState(s, SetOf(addr)),
         SameRows(m_cache[SetOf(addr)], s.b), Become(addr, s)
  PROVE  UNCHANGED Contents
<1> DEFINE set == SetOf(addr)
           b == m_cache[set]
           c == s.b
<1>1. GoodSet(b, set)
  BY HomeSet DEF CacheInv
<1>2. m_cache' = [m_cache EXCEPT ![set] = c]
  BY DEF Become
<1>3. GoodSet(c, set)
  BY DEF GoodState
<1>4. \A r \in Rows :
        r \in Contents' <=>
          \/ SetOf(r) # set /\ r \in Contents
          \/ \E w \in Ways : c[w].valid /\ c[w].tag = r
  <2>1. Contents' = {r \in Contents : SetOf(r) # set} \cup RowsIn(c)
    BY <1>2, <1>3, OneSetContents
  <2> HIDE DEF set, c
  <2> QED BY <2>1, RowsInBlocks
<1>5. \A w \in Ways : c[w].valid = b[w].valid /\ c[w].tag = b[w].tag
  BY DEF SameRows
<1>6. \A r \in Rows : SetOf(r) = set =>
        (r \in Contents <=> \E w \in Ways : b[w].valid /\ b[w].tag = r)
  BY DEF Contents, Holding
<1>7. \A w \in Ways : b[w].valid => SetOf(b[w].tag) = set
  BY <1>1 DEF GoodSet
<1>8. Contents \in SUBSET Rows /\ Contents' \in SUBSET Rows
  BY DEF Contents
<1> HIDE DEF set, b, c
<1>9. \A r \in Rows : r \in Contents' <=> r \in Contents
  BY <1>4, <1>5, <1>6, <1>7
<1> QED BY <1>8, <1>9

\* The set of rows that RowQuarantine keeps is what Functional_Cache implements:
\* whatever the RRIP values choose is a choice that the quarantine allows for.
THEOREM CacheRefines == Spec => ImplementsRowCache
<1>1. Init => Abstract!Init
  <2> SUFFICES ASSUME Init PROVE Contents = {}
    BY DEF Abstract!Init
  <2>1. \A r \in Rows : m_cache[SetOf(r)] = [way \in Ways |-> EmptyBlock]
    BY HomeSet DEF Init
  <2>2. \A r \in Rows : Holding(m_cache[SetOf(r)], r) = {}
    BY <2>1 DEF Holding, EmptyBlock
  <2> QED BY <2>2 DEF Contents
<1>2. CacheInv /\ [Next]_vars => [Abstract!Next]_Contents
  <2> SUFFICES ASSUME CacheInv, [Next]_vars
               PROVE  [Abstract!Next]_Contents
    OBVIOUS
  <2>1. CASE UNCHANGED vars
    BY <2>1 DEF vars, Contents, Holding, SetOf, Ways
  <2>2. ASSUME NEW addr \in Rows, Lookup(addr)
        PROVE  UNCHANGED Contents
    <3>1. FirstOf(Holding(m_cache[SetOf(addr)], addr)) \in Ways
      BY <2>2, FoundWay DEF Lookup, Holding
    <3> QED BY <2>2, <3>1, SetStateGood, HitState, HitRefines DEF Lookup
  <2>3. ASSUME NEW addr \in Rows, Miss(addr)
        PROVE  UNCHANGED Contents \/ Abstract!Next
    <3> DEFINE looked == PartialLookup(SetState(addr), addr)
    <3>1. Holding(m_cache[SetOf(addr)], addr) = {}
      BY <2>3 DEF Miss
    <3>2. CASE Become(addr, looked)
      BY <3>2, SetStateGood, PartialState, HitRefines
    <3>3. ASSUME NEW row \in Fetchable(m_cache[SetOf(addr)], addr),
                 Become(addr, insertRowInCache(looked, row))
          PROVE  Abstract!Next
      <4>1. /\ row \in Rows /\ SetOf(row) = SetOf(addr)
            /\ GoodState(looked, SetOf(row))
            /\ SameRows(m_cache[SetOf(row)], looked.b)
            /\ Holding(looked.b, row) = {}
        BY <3>1, FetchState
      <4>2. m_cache' = [m_cache EXCEPT ![SetOf(row)] = insertRowInCache(looked, row).b]
        BY <3>3, <4>1 DEF Become
      <4>3. Abstract!Insert(row)
        BY <4>1, <4>2, InsertRefines
      <4> QED BY <4>1, <4>3 DEF Abstract!Next
    <3> QED BY <2>3, <3>2, <3>3 DEF Miss
  <2>4. ASSUME NEW addr \in Rows, CacheRow(addr)
        PROVE  Abstract!Next
    <3>1. /\ GoodState(SetState(addr), SetOf(addr))
          /\ SameRows(m_cache[SetOf(addr)], SetState(addr).b)
          /\ Holding(SetState(addr).b, addr) = {}
      BY <2>4, SetStateGood DEF CacheRow, SameRows
    <3>2. Abstract!Insert(addr)
      BY <2>4, <3>1, InsertRefines DEF CacheRow, Become
    <3> QED BY <3>2 DEF Abstract!Next
  <2>5. ASSUME NEW addr \in Rows, removeRowFromCache(addr)
        PROVE  Abstract!Next
    BY <2>5, RemoveRefines DEF Abstract!Next
  <2> QED BY <2>1, <2>2, <2>3, <2>4, <2>5 DEF Next
<1> QED BY <1>1, <1>2, CacheInvHolds, PTL
          DEF Spec, ImplementsRowCache, Abstract!Spec
=============================================================================
