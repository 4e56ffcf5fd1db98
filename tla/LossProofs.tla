----------------------------- MODULE LossProofs -----------------------------
(***************************************************************************)
(* The Monte-Carlo loss simulation and the case analysis of the analytical *)
(* loss probability, for every tracker size, every length of the refresh   *)
(* window and every number of windows: the simulation's books balance, and *)
(* the events that calc_lossprob and init_markov_chain attach their        *)
(* probabilities to are the events of the tracker.                         *)
(***************************************************************************)
EXTENDS LossAnalysis, TLAPS, FiniteSetTheorems

(* Cursor arithmetic without the remainder: the slot i places after h.     *)
LEMMA Turn ==
  ASSUME NEW h \in Places, NEW i \in 0 .. num_entries
  PROVE  /\ (h + i) % num_entries
              = IF h + i < num_entries THEN h + i ELSE h + i - num_entries
         /\ (h + i) % num_entries \in Places
<1>1. CASE h + i < num_entries
  BY <1>1, SimAssumption DEF Places
<1>2. CASE h + i >= num_entries
  BY <1>2, SimAssumption DEF Places
<1>. QED  BY <1>1, <1>2, SimAssumption DEF Places

(* Walking i places from the slot after h is walking i + 1 places from h.  *)
LEMMA TurnOn ==
  ASSUME NEW h \in Places, NEW i \in 0 .. num_entries - 1
  PROVE  /\ (h + 1) % num_entries \in Places
         /\ (((h + 1) % num_entries) + i) % num_entries = (h + (i + 1)) % num_entries
<1>. DEFINE n == (h + 1) % num_entries
<1>1. i \in 0 .. num_entries /\ i + 1 \in 0 .. num_entries /\ 1 \in 0 .. num_entries
  BY SimAssumption
<1>2. n \in Places /\ n = IF h + 1 < num_entries THEN h + 1 ELSE h + 1 - num_entries
  BY <1>1, Turn
<1>3. (h + (i + 1)) % num_entries
        = IF h + (i + 1) < num_entries THEN h + (i + 1) ELSE h + (i + 1) - num_entries
  BY <1>1, Turn
<1>. HIDE DEF n
<1>4. (n + i) % num_entries
        = IF n + i < num_entries THEN n + i ELSE n + i - num_entries
  BY <1>1, <1>2, Turn
<1>5. (n + i) % num_entries = (h + (i + 1)) % num_entries
  BY <1>1, <1>2, <1>3, <1>4, SimAssumption DEF Places
<1>. QED  BY <1>2, <1>5 DEF n

(* Different places of the tracker are different slots.                    *)
LEMMA TurnApart ==
  ASSUME NEW h \in Places, NEW i \in 0 .. num_entries - 1,
         NEW j \in 0 .. num_entries - 1,
         (h + i) % num_entries = (h + j) % num_entries
  PROVE  i = j
<1>1. i \in 0 .. num_entries /\ j \in 0 .. num_entries
  BY SimAssumption
<1>2. /\ (h + i) % num_entries
           = IF h + i < num_entries THEN h + i ELSE h + i - num_entries
      /\ (h + j) % num_entries
           = IF h + j < num_entries THEN h + j ELSE h + j - num_entries
  BY <1>1, Turn
<1>. QED  BY <1>1, <1>2, SimAssumption DEF Places

-----------------------------------------------------------------------------
(* The tracker and the books keep their types.                             *)
SimType ==
  /\ act_count \in Nat
  /\ entries \in [Places -> [pos : Positions, born : Nat]]
  /\ num_valids \in 0 .. num_entries
  /\ ptr \in Places
  /\ s_inserts_pos \in [Positions -> Nat]
  /\ s_loss_pos \in [Positions -> Nat]
  /\ s_inserts \in Nat
  /\ s_loss \in Nat
  /\ mitigated_pos \in [Positions -> Nat]

(* An entry held is younger than the activation to come, and no two held   *)
(* entries are of the same activation.                                     *)
BornOnce ==
  /\ \A i \in 0 .. num_valids - 1 : HeldAt(i).born < act_count
  /\ \A i, j \in 0 .. num_valids - 1 : HeldAt(i).born = HeldAt(j).born => i = j

(* One iteration as a step of a queue: out says that its oldest entry      *)
(* leaves, by the refresh or by an eviction but never by both, and what is *)
(* inserted becomes the youngest.                                          *)
LEMMA QueueStep ==
  ASSUME SimType, NEW inserted \in BOOLEAN, iterate(inserted),
         NEW out, out = IF Refreshes \/ (inserted /\ Full) THEN 1 ELSE 0
  PROVE  /\ act_count % window_size \in Positions
         /\ ~ (Refreshes /\ Full)
         /\ out <= num_valids
         /\ out = 1 /\ Full => ~ Refreshes
         /\ num_valids_r = IF Refreshes THEN num_valids - 1 ELSE num_valids
         /\ num_valids > 0 => HeldAt(0) = entries[ptr]
         /\ ~ Refreshes => ptr_r = ptr
         /\ SimType'
         /\ num_valids' = num_valids - out + (IF inserted THEN 1 ELSE 0)
         /\ \A i \in 0 .. num_valids - out - 1 : HeldAt(i)' = HeldAt(i + out)
         /\ inserted => HeldAt(num_valids - 1)'
                          = [pos |-> act_count % window_size, born |-> act_count]
<1>1. act_count % window_size \in Positions
  BY SimAssumption DEF SimType, Positions
<1>2. /\ ~ (Refreshes /\ Full) /\ out <= num_valids
      /\ num_valids_r = IF Refreshes THEN num_valids - 1 ELSE num_valids
      /\ ~ Refreshes => ptr_r = ptr
  BY SimAssumption DEF SimType, Refreshes, Full, num_valids_r, ptr_r
<1>3. (ptr + 0) % num_entries = ptr /\ HeldAt(0) = entries[ptr]
  <2>1. ptr \in Places /\ 0 \in 0 .. num_entries
    BY SimAssumption DEF SimType
  <2>2. (ptr + 0) % num_entries
          = IF ptr + 0 < num_entries THEN ptr + 0 ELSE ptr + 0 - num_entries
    BY <2>1, Turn
  <2>3. (ptr + 0) % num_entries = ptr
    BY <2>1, <2>2, SimAssumption DEF Places
  <2>. QED  BY <2>3 DEF HeldAt
<1>4. /\ ptr_r \in Places /\ num_valids_r \in 0 .. num_entries
      /\ \A i \in 0 .. num_valids_r - 1 :
           entries[(ptr_r + i) % num_entries] = HeldAt(i + (IF Refreshes THEN 1 ELSE 0))
  <2>1. CASE Refreshes
    <3>1. ptr_r = (ptr + 1) % num_entries /\ num_valids_r = num_valids - 1
      BY <2>1 DEF ptr_r, num_valids_r
    <3>2. ptr \in Places /\ 0 \in 0 .. num_entries - 1
      BY SimAssumption DEF SimType
    <3>3. ptr_r \in Places
      BY <3>1, <3>2, TurnOn
    <3>4. num_valids_r \in 0 .. num_entries
      BY <2>1, <3>1, SimAssumption DEF SimType, Refreshes
    <3>5. ASSUME NEW i \in 0 .. num_valids_r - 1
          PROVE  entries[(ptr_r + i) % num_entries] = HeldAt(i + 1)
      <4>1. i \in 0 .. num_entries - 1
        BY <3>4, SimAssumption
      <4>. QED  BY <4>1, <3>1, <3>2, TurnOn DEF HeldAt
    <3>. QED  BY <2>1, <3>3, <3>4, <3>5
  <2>2. CASE ~ Refreshes
    <3>1. ptr_r = ptr /\ num_valids_r = num_valids
      BY <2>2 DEF ptr_r, num_valids_r
    <3>2. \A i \in 0 .. num_valids_r - 1 : i + 0 = i
      BY <3>1 DEF SimType
    <3>. QED  BY <2>2, <3>1, <3>2 DEF SimType, HeldAt
  <2>. QED  BY <2>1, <2>2
<1>. DEFINE x == [pos |-> act_count % window_size, born |-> act_count]
            Moved == /\ ptr' \in Places
                     /\ num_valids' = num_valids - out + (IF inserted THEN 1 ELSE 0)
                     /\ \A i \in 0 .. num_valids - out - 1 : HeldAt(i)' = HeldAt(i + out)
                     /\ inserted => HeldAt(num_valids - 1)' = x
<1>. HIDE DEF x
<1>5. ASSUME ~ inserted PROVE Moved
  <2>1. /\ ptr' = ptr_r /\ num_valids' = num_valids_r /\ entries' = entries
        /\ out = IF Refreshes THEN 1 ELSE 0
    BY <1>5 DEF iterate, no_insert
  <2>2. num_valids' = num_valids - out /\ num_valids_r = num_valids - out
    BY <2>1, <1>2 DEF SimType
  <2>3. \A i \in 0 .. num_valids - out - 1 : HeldAt(i)' = HeldAt(i + out)
    BY <2>1, <2>2, <1>4 DEF HeldAt
  <2>. QED  BY <1>4, <1>5, <2>1, <2>2, <2>3 DEF SimType
<1>6. ASSUME inserted, ~ Full PROVE Moved
  <2>. DEFINE k == (ptr_r + num_valids_r) % num_entries
  <2>1. /\ ptr' = ptr_r /\ num_valids' = num_valids_r + 1
        /\ entries' = [entries EXCEPT ![k] = x]
        /\ out = IF Refreshes THEN 1 ELSE 0
    BY <1>6 DEF iterate, tracker_insert, InsertIndex, x
  <2>2. num_valids_r = num_valids - out /\ num_valids_r \in 0 .. num_entries - 1
    BY <1>2, <1>4, <1>6, <2>1, SimAssumption DEF SimType, Full
  <2>3. k \in Places /\ entries'[k] = x
    <3>1. num_valids_r \in 0 .. num_entries
      BY <1>4
    <3>2. k \in Places
      BY <3>1, <1>4, Turn
    <3>. QED  BY <3>2, <2>1 DEF SimType
  <2>4. ASSUME NEW i \in 0 .. num_valids_r - 1
        PROVE  entries'[(ptr_r + i) % num_entries] = entries[(ptr_r + i) % num_entries]
    <3>1. i \in 0 .. num_entries - 1 /\ i # num_valids_r
      BY <2>2, SimAssumption
    <3>2. (ptr_r + i) % num_entries # k
      BY <3>1, <2>2, <1>4, TurnApart
    <3>3. (ptr_r + i) % num_entries \in Places
      BY <3>1, <1>4, Turn, SimAssumption
    <3>. QED  BY <3>2, <3>3, <2>1 DEF SimType
  <2>5. \A i \in 0 .. num_valids - out - 1 : HeldAt(i)' = HeldAt(i + out)
    BY <2>1, <2>2, <2>4, <1>4 DEF HeldAt
  <2>6. HeldAt(num_valids - 1)' = x
    <3>1. num_valids' - 1 = num_valids_r
      BY <2>1, <2>2
    <3>. QED  BY <3>1, <2>1, <2>3 DEF HeldAt
  <2>7. num_valids' = num_valids - out + 1
    BY <2>1, <2>2
  <2>. QED  BY <1>4, <1>6, <2>1, <2>5, <2>6, <2>7
<1>7. ASSUME inserted, Full PROVE Moved
  <2>1. /\ ~ Refreshes /\ out = 1 /\ ptr_r = ptr
        /\ num_valids_r = num_entries /\ num_valids = num_entries
    BY <1>2, <1>7 DEF Full
  <2>2. ptr \in Places /\ num_entries \in 0 .. num_entries /\ num_entries \in Nat \ {0}
    BY SimAssumption DEF SimType
  <2>3. (ptr + num_entries) % num_entries = ptr
    <3>1. (ptr + num_entries) % num_entries
            = IF ptr + num_entries < num_entries THEN ptr + num_entries
              ELSE ptr + num_entries - num_entries
      BY <2>2, Turn
    <3>. QED  BY <2>2, <3>1 DEF Places
  <2>4. /\ ptr' = (ptr + 1) % num_entries /\ num_valids' = num_entries
        /\ entries' = [entries EXCEPT ![ptr] = x]
    BY <1>7, <2>1, <2>3 DEF iterate, tracker_insert, InsertIndex, x
  <2>5. \A i \in 0 .. num_entries - 1 :
           /\ ptr' \in Places
           /\ (ptr' + i) % num_entries = (ptr + (i + 1)) % num_entries
    BY <2>2, <2>4, TurnOn
  <2>6. ptr' \in Places
    BY <2>2, <2>5
  <2>7. ASSUME NEW i \in 0 .. num_entries - 2 PROVE HeldAt(i)' = HeldAt(i + 1)
    <3>1. i + 1 \in 0 .. num_entries - 1 /\ 0 \in 0 .. num_entries - 1 /\ i + 1 # 0
      BY <2>2
    <3>2. (ptr + (i + 1)) % num_entries # ptr
      BY <3>1, <2>2, <1>3, TurnApart
    <3>3. (ptr + (i + 1)) % num_entries \in Places
      BY <3>1, <2>2, Turn
    <3>4. (ptr' + i) % num_entries = (ptr + (i + 1)) % num_entries
      BY <2>2, <2>5
    <3>. QED  BY <3>2, <3>3, <3>4, <2>4 DEF HeldAt, SimType
  <2>8. HeldAt(num_valids - 1)' = x
    <3>1. (ptr' + (num_entries - 1)) % num_entries = (ptr + ((num_entries - 1) + 1)) % num_entries
      BY <2>2, <2>5
    <3>2. (num_entries - 1) + 1 = num_entries
      BY <2>2
    <3>. QED  BY <3>1, <3>2, <2>2, <2>3, <2>4 DEF HeldAt, SimType
  <2>9. \A i \in 0 .. num_valids - out - 1 : HeldAt(i)' = HeldAt(i + out)
    BY <2>1, <2>2, <2>7
  <2>10. num_valids' = num_valids - out + 1
    BY <2>1, <2>2, <2>4
  <2>. QED  BY <1>7, <2>1, <2>6, <2>8, <2>9, <2>10
<1>8. Moved
  BY <1>5, <1>6, <1>7
<1>9. SimType'
  <2>1. act_count' \in Nat
    BY DEF iterate, SimType
  <2>2. entries' \in [Places -> [pos : Positions, born : Nat]]
    <3>1. [pos |-> act_count % window_size, born |-> act_count] \in [pos : Positions, born : Nat]
      BY <1>1 DEF SimType
    <3>. QED  BY <3>1 DEF iterate, tracker_insert, no_insert, SimType
  <2>3. num_valids' \in 0 .. num_entries
    <3>1. inserted /\ Full => out = 1
      OBVIOUS
    <3>2. inserted /\ ~ Full => num_valids - out < num_entries
      BY <1>2, <1>4, SimAssumption DEF Full, SimType
    <3>. QED  BY <1>2, <1>8, <3>1, <3>2, SimAssumption DEF SimType
  <2>4. \A i \in Places : entries[i].pos \in Positions
    BY DEF SimType
  <2>5. ptr' \in Places /\ LossPosition \in Positions /\ entries[ptr].pos \in Positions
    BY <1>4, <1>8, <2>4 DEF LossPosition, SimType
  <2>6. /\ s_inserts_pos' \in [Positions -> Nat] /\ s_inserts' \in Nat /\ s_loss' \in Nat
        /\ s_loss_pos' \in [Positions -> Nat] /\ mitigated_pos' \in [Positions -> Nat]
    BY <1>1, <2>5 DEF iterate, tracker_insert, no_insert, SimType
  <2>. QED  BY <2>1, <2>2, <2>3, <2>5, <2>6 DEF SimType
<1>. QED  BY <1>1, <1>2, <1>3, <1>8, <1>9 DEF x

(* The invariant of the simulation, and of the analysis that runs with it. *)
SimInv == SimType /\ BornOnce

LEMMA SimInvStep ==
  ASSUME SimInv, NEW inserted \in BOOLEAN, iterate(inserted)
  PROVE  SimInv'
<1>. DEFINE out == IF Refreshes \/ (inserted /\ Full) THEN 1 ELSE 0
            x == [pos |-> act_count % window_size, born |-> act_count]
            m == num_valids - out
<1>1. SimType
  BY DEF SimInv
<1>2. /\ SimType' /\ out <= num_valids
      /\ num_valids' = m + (IF inserted THEN 1 ELSE 0)
      /\ \A i \in 0 .. m - 1 : HeldAt(i)' = HeldAt(i + out)
      /\ inserted => HeldAt(num_valids - 1)' = x
  BY <1>1, QueueStep
<1>3. out \in {0, 1}
  OBVIOUS
<1>4. act_count' = act_count + 1 /\ act_count \in Nat /\ num_valids \in Nat
  BY <1>1, SimAssumption DEF iterate, SimType
<1>. HIDE DEF out
<1>5. m \in Nat
  BY <1>2, <1>3, <1>4
<1>6. ASSUME NEW i \in 0 .. num_valids' - 1
      PROVE  \/ i \in 0 .. m - 1 /\ HeldAt(i)'.born = HeldAt(i + out).born
             \/ inserted /\ i = m /\ HeldAt(i)'.born = act_count
  <2>1. CASE i \in 0 .. m - 1
    BY <2>1, <1>2
  <2>2. CASE i \notin 0 .. m - 1
    <3>1. inserted /\ i = m /\ i = num_valids' - 1
      BY <2>2, <1>2, <1>5
    <3>. QED  BY <3>1, <1>2
  <2>. QED  BY <2>1, <2>2
<1>7. \A i \in 0 .. m - 1 : /\ i + out \in 0 .. num_valids - 1
                           /\ HeldAt(i + out).born < act_count
  BY <1>3, <1>4, <1>5 DEF SimInv, BornOnce
<1>8. \A i \in 0 .. m - 1 : HeldAt(i + out).born \in Nat
  <2>. SUFFICES ASSUME NEW i \in 0 .. m - 1 PROVE HeldAt(i + out).born \in Nat
    OBVIOUS
  <2>1. i + out \in 0 .. num_entries
    BY <1>1, <1>7, SimAssumption DEF SimType
  <2>2. (ptr + (i + out)) % num_entries \in Places
    BY <2>1, <1>1, Turn DEF SimType
  <2>. QED  BY <2>2, <1>1 DEF HeldAt, SimType
<1>9. \A i \in 0 .. num_valids' - 1 : HeldAt(i)'.born < act_count'
  BY <1>4, <1>6, <1>7, <1>8
<1>10. ASSUME NEW i \in 0 .. num_valids' - 1, NEW j \in 0 .. num_valids' - 1,
              HeldAt(i)'.born = HeldAt(j)'.born
       PROVE  i = j
  <2>1. CASE i \in 0 .. m - 1 /\ j \in 0 .. m - 1
    <3>1. HeldAt(i + out).born = HeldAt(j + out).born
      BY <2>1, <1>2, <1>10
    <3>2. i + out = j + out
      BY <3>1, <2>1, <1>7 DEF SimInv, BornOnce
    <3>. QED  BY <3>2, <2>1, <1>3
  <2>2. CASE ~ (i \in 0 .. m - 1 /\ j \in 0 .. m - 1)
    BY <2>2, <1>4, <1>6, <1>7, <1>8, <1>10
  <2>. QED  BY <2>1, <2>2
<1>11. BornOnce'
  BY <1>9, <1>10 DEF BornOnce
<1>. QED  BY <1>2, <1>11 DEF SimInv

LEMMA SimInvInit == SimInit => SimInv
<1>. SUFFICES ASSUME SimInit PROVE SimInv
  OBVIOUS
<1>1. 0 \in Positions /\ 0 \in Places
  BY SimAssumption DEF Positions, Places
<1>2. [pos |-> 0, born |-> 0] \in [pos : Positions, born : Nat]
  BY <1>1
<1>3. SimType
  BY <1>1, <1>2, SimAssumption DEF SimInit, SimType
<1>4. 0 .. num_valids - 1 = {}
  BY DEF SimInit
<1>. QED  BY <1>3, <1>4 DEF SimInv, BornOnce

LEMMA SimInvariance == SimSpec => []SimInv
<1>1. SimInv /\ [SimNext]_simvars => SimInv'
  <2>1. SimInv /\ UNCHANGED simvars => SimInv'
    BY DEF simvars, SimInv, SimType, BornOnce, HeldAt
  <2>. QED  BY <2>1, SimInvStep DEF SimNext
<1>. QED  BY <1>1, SimInvInit, PTL DEF SimSpec

-----------------------------------------------------------------------------
(* When the oldest of n entries leaves, the places of the others move up   *)
(* by one, and so does every selection S of them.                          *)
LEMMA OldestLeaves ==
  ASSUME NEW n \in Nat \ {0}, NEW S \in SUBSET (0 .. n - 1)
  PROVE  /\ IsFiniteSet({i \in 0 .. n - 2 : i + 1 \in S})
         /\ Cardinality(S) = Cardinality({i \in 0 .. n - 2 : i + 1 \in S})
                               + (IF 0 \in S THEN 1 ELSE 0)
<1>. DEFINE Q == {i \in 0 .. n - 2 : i + 1 \in S}
            f == [i \in Q |-> i + 1]
<1>1. IsFiniteSet(0 .. n - 1) /\ IsFiniteSet(0 .. n - 2)
  BY FS_Interval
<1>2. IsFiniteSet(S) /\ IsFiniteSet(Q)
  BY <1>1, FS_Subset
<1>3. f \in [Q -> S \ {0}]
  OBVIOUS
<1>4. \A i, j \in Q : f[i] = f[j] => i = j
  OBVIOUS
<1>5. \A s \in S \ {0} : \E i \in Q : f[i] = s
  <2>. SUFFICES ASSUME NEW s \in S \ {0} PROVE \E i \in Q : f[i] = s
    OBVIOUS
  <2>1. s - 1 \in Q /\ f[s - 1] = s
    OBVIOUS
  <2>. QED  BY <2>1
<1>6. ExistsBijection(Q, S \ {0})
  <2>. HIDE DEF f, Q
  <2>1. f \in Injection(Q, S \ {0})
    BY <1>3, <1>4 DEF Injection, IsInjective
  <2>2. f \in Surjection(Q, S \ {0})
    BY <1>3, <1>5 DEF Surjection
  <2>. QED  BY <2>1, <2>2 DEF ExistsBijection, Bijection
<1>7. Cardinality(S \ {0}) = Cardinality(Q)
  BY <1>2, <1>6, FS_Bijection
<1>8. Cardinality(S \ {0}) = IF 0 \in S THEN Cardinality(S) - 1 ELSE Cardinality(S)
  BY <1>2, FS_RemoveElement
<1>9. Cardinality(S) \in Nat
  BY <1>2, FS_CardinalityType
<1>. QED  BY <1>2, <1>7, <1>8, <1>9

(* The places that hold an entry of position p.                            *)
HeldOf(p) == {i \in 0 .. num_valids - 1 : HeldAt(i).pos = p}

LEMMA BooksStep ==
  ASSUME SimInv, PositionsAccountedFor, NEW inserted \in BOOLEAN, iterate(inserted)
  PROVE  PositionsAccountedFor'
<1>. SUFFICES ASSUME NEW p \in Positions
              PROVE  s_inserts_pos'[p] = s_loss_pos'[p] + mitigated_pos'[p]
                                           + Cardinality(HeldOf(p)')
  BY DEF PositionsAccountedFor, HeldOf
<1>. DEFINE out == IF Refreshes \/ (inserted /\ Full) THEN 1 ELSE 0
            m == num_valids - out
            a == act_count % window_size
            Q == {i \in 0 .. m - 1 : HeldAt(i + out).pos = p}
            gone == IF out = 1 /\ HeldAt(0).pos = p THEN 1 ELSE 0
            new == IF inserted /\ a = p THEN 1 ELSE 0
<1>1. SimType
  BY DEF SimInv
<1>2. /\ out <= num_valids /\ a \in Positions
      /\ ~ (Refreshes /\ Full)
      /\ num_valids > 0 => HeldAt(0) = entries[ptr]
      /\ ~ Refreshes => ptr_r = ptr
      /\ num_valids' = m + (IF inserted THEN 1 ELSE 0)
      /\ \A i \in 0 .. m - 1 : HeldAt(i)' = HeldAt(i + out)
      /\ inserted => HeldAt(num_valids - 1)' = [pos |-> a, born |-> act_count]
  BY <1>1, QueueStep
<1>3. out \in {0, 1} /\ num_valids \in Nat /\ m \in Nat
  BY <1>1, <1>2, SimAssumption DEF SimType
<1>4. s_inserts_pos'[p] = s_inserts_pos[p] + new
  <2>1. s_inserts_pos \in [Positions -> Nat]
    BY <1>1 DEF SimType
  <2>. QED  BY <1>2, <2>1 DEF iterate, tracker_insert, no_insert
<1>5. s_loss_pos'[p] + mitigated_pos'[p] = s_loss_pos[p] + mitigated_pos[p] + gone
  <2>1. s_loss_pos \in [Positions -> Nat] /\ mitigated_pos \in [Positions -> Nat]
    BY <1>1 DEF SimType
  <2>2. CASE Refreshes
    <3>1. out = 1 /\ HeldAt(0) = entries[ptr] /\ ~ Full
      BY <1>2, <1>3, <2>2
    <3>2. s_loss_pos' = s_loss_pos
      BY <3>1 DEF iterate, tracker_insert, no_insert
    <3>3. mitigated_pos' = [mitigated_pos EXCEPT ![HeldAt(0).pos] = @ + 1]
      BY <2>2, <3>1 DEF iterate
    <3>4. gone = IF HeldAt(0).pos = p THEN 1 ELSE 0
      BY <3>1
    <3>. HIDE DEF gone, out
    <3>. QED  BY <2>1, <3>2, <3>3, <3>4
  <2>3. CASE ~ Refreshes /\ inserted /\ Full
    <3>1. out = 1 /\ HeldAt(0) = entries[ptr] /\ ptr_r = ptr
      BY <1>2, <1>3, <2>3
    <3>2. mitigated_pos' = mitigated_pos
      BY <2>3 DEF iterate
    <3>3. s_loss_pos' = [s_loss_pos EXCEPT ![HeldAt(0).pos] = @ + 1]
      BY <2>3, <3>1 DEF iterate, tracker_insert, LossPosition
    <3>4. gone = IF HeldAt(0).pos = p THEN 1 ELSE 0
      BY <3>1
    <3>. HIDE DEF gone, out
    <3>. QED  BY <2>1, <3>2, <3>3, <3>4
  <2>4. CASE ~ Refreshes /\ ~ (inserted /\ Full)
    <3>1. out = 0 /\ gone = 0
      BY <2>4
    <3>2. mitigated_pos' = mitigated_pos /\ s_loss_pos' = s_loss_pos
      BY <2>4 DEF iterate, tracker_insert, no_insert
    <3>. HIDE DEF gone, out
    <3>. QED  BY <2>1, <3>1, <3>2
  <2>. QED  BY <2>2, <2>3, <2>4
<1>6. IsFiniteSet(Q) /\ Cardinality(HeldOf(p)) = Cardinality(Q) + gone
  <2>1. CASE out = 1
    <3>1. num_valids \in Nat \ {0} /\ HeldOf(p) \in SUBSET (0 .. num_valids - 1)
      BY <1>2, <1>3, <2>1 DEF HeldOf
    <3>2. Q = {i \in 0 .. num_valids - 2 : i + 1 \in HeldOf(p)}
      BY <1>3, <2>1 DEF HeldOf
    <3>3. gone = IF 0 \in HeldOf(p) THEN 1 ELSE 0
      BY <2>1, <3>1 DEF HeldOf
    <3>. HIDE DEF Q, gone, out
    <3>. QED  BY <3>1, <3>2, <3>3, OldestLeaves
  <2>2. CASE out = 0
    <3>1. Q = HeldOf(p)
      BY <1>3, <2>2 DEF HeldOf
    <3>2. gone = 0
      BY <2>2
    <3>3. IsFiniteSet(HeldOf(p))
      <4>1. IsFiniteSet(0 .. num_valids - 1)
        BY <1>3, FS_Interval
      <4>. QED  BY <4>1, FS_Subset DEF HeldOf
    <3>4. Cardinality(HeldOf(p)) \in Nat
      BY <3>3, FS_CardinalityType
    <3>. HIDE DEF Q, gone, out
    <3>. QED  BY <3>1, <3>2, <3>3, <3>4
  <2>. QED  BY <1>3, <2>1, <2>2
<1>7. Cardinality(HeldOf(p)') = Cardinality(Q) + new
  <2>. HIDE DEF out, a
  <2>1. Cardinality(Q) \in Nat /\ m \notin Q
    BY <1>3, <1>6, FS_CardinalityType
  <2>2. CASE inserted
    <3>1. num_valids' = m + 1 /\ num_valids' - 1 = m
      BY <1>2, <1>3, <2>2
    <3>2. HeldAt(num_valids - 1)'.pos = a
      BY <1>2, <2>2
    <3>3. \A i : i = m => HeldAt(i)'.pos = a
      BY <3>1, <3>2
    <3>4. ASSUME NEW i
          PROVE  i \in HeldOf(p)' <=> i \in Q \/ (i = m /\ a = p)
      <4>1. i \in 0 .. num_valids' - 1 <=> i \in 0 .. m - 1 \/ i = m
        BY <3>1, <1>3
      <4>2. i \in 0 .. m - 1 => i # m
        BY <1>3
      <4>. QED  BY <4>1, <4>2, <3>3, <1>2 DEF HeldOf
    <3>5. CASE a = p
      <4>1. HeldOf(p)' = Q \cup {m}
        BY <3>4, <3>5
      <4>2. Cardinality(Q \cup {m}) = Cardinality(Q) + 1
        BY <1>6, <2>1, FS_AddElement
      <4>. QED  BY <4>1, <4>2, <3>5, <2>2
    <3>6. CASE a # p
      <4>1. HeldOf(p)' = Q
        BY <3>4, <3>6
      <4>. QED  BY <4>1, <3>6, <2>1
    <3>. QED  BY <3>5, <3>6
  <2>3. CASE ~ inserted
    <3>1. HeldOf(p)' = Q
      BY <1>2, <1>3, <2>3 DEF HeldOf
    <3>. QED  BY <3>1, <2>1, <2>3
  <2>. QED  BY <2>2, <2>3
<1>8. s_inserts_pos[p] = s_loss_pos[p] + mitigated_pos[p] + Cardinality(HeldOf(p))
  BY DEF PositionsAccountedFor, HeldOf
<1>9. /\ s_loss_pos[p] \in Nat /\ mitigated_pos[p] \in Nat /\ Cardinality(Q) \in Nat
      /\ s_loss_pos'[p] \in Nat /\ mitigated_pos'[p] \in Nat
  <2>1. SimType'
    BY SimInvStep DEF SimInv
  <2>. QED  BY <1>1, <1>6, <2>1, FS_CardinalityType DEF SimType
<1>10. gone \in Nat /\ new \in Nat
  OBVIOUS
<1>. HIDE DEF gone, new, Q
<1>. QED  BY <1>4, <1>5, <1>6, <1>7, <1>8, <1>9, <1>10

(* The simulation's books balance, for every tracker size and window: for  *)
(* every position, each insertion that s_inserts_pos counts was lost, was  *)
(* mitigated by a refresh, or is still held.                               *)
THEOREM LossBooks == SimSpec => []PositionsAccountedFor
<1>1. SimInit => PositionsAccountedFor
  <2>. SUFFICES ASSUME SimInit PROVE PositionsAccountedFor
    OBVIOUS
  <2>1. \A p \in Positions : {i \in 0 .. num_valids - 1 : HeldAt(i).pos = p} = {}
    BY DEF SimInit
  <2>. QED  BY <2>1, FS_EmptySet DEF SimInit, PositionsAccountedFor
<1>2. SimInv /\ PositionsAccountedFor /\ [SimNext]_simvars => PositionsAccountedFor'
  <2>1. PositionsAccountedFor /\ UNCHANGED simvars => PositionsAccountedFor'
    BY DEF simvars, PositionsAccountedFor, HeldAt
  <2>. QED  BY <2>1, BooksStep DEF SimNext
<1>. QED  BY <1>1, <1>2, SimInvariance, PTL DEF SimSpec

-----------------------------------------------------------------------------
(* calc_lossprob's record and the counts keep their types, and an entry    *)
(* that is followed is one of the entries of its level.                    *)
AnaType ==
  /\ tag \in Int
  /\ level \in [ptr : Nat, size : Nat, case : {"none", "A", "B", "C"}]
  /\ inserts \in Nat
  /\ Following => /\ level.ptr < level.size /\ level.size <= num_entries
                  /\ fate \in {"held", "lost"}

(* How many of the entries of level l were overwritten by n insertions.    *)
Overrun(l, n) ==
  IF n > num_entries - l.size THEN n - (num_entries - l.size) ELSE 0

(* After n insertions in its window the entry is where level l says.       *)
OnTrack(l, n) ==
  /\ num_valids = IF n > num_entries - l.size THEN num_entries ELSE l.size + n
  /\ l.ptr >= Overrun(l, n)
  /\ HeldAt(l.ptr - Overrun(l, n)).born = tag

AnaInv == AnaType /\ AnalysisExact

LEMMA ExactParts ==
  AnalysisExact <=> /\ level.case = "C" => fate = "lost"
                    /\ level.case = "B" => fate = "mitigated"
                    /\ Following /\ fate = "lost" => inserts > full_th(level)
                    /\ ~ (Following /\ fate = "mitigated")
                    /\ Following /\ fate = "held" => OnTrack(level, inserts)
BY DEF AnalysisExact, OnTrack, Overrun

LEMMA ExactPartsNext ==
  AnalysisExact' <=> /\ level'.case = "C" => fate' = "lost"
                     /\ level'.case = "B" => fate' = "mitigated"
                     /\ Following' /\ fate' = "lost" => inserts' > full_th(level')
                     /\ ~ (Following' /\ fate' = "mitigated")
                     /\ Following' /\ fate' = "held" => OnTrack(level, inserts)'
BY DEF AnalysisExact, OnTrack, Overrun, full_th

(* Where the followed entry is, as a place of the tracker.                 *)
LEMMA PlaceHeld ==
  ASSUME SimType, AnaType, Following, OnTrack(level, inserts),
         NEW q, q = level.ptr - Overrun(level, inserts)
  PROVE  q \in 0 .. num_valids - 1 /\ HeldAt(q).born = tag /\ q <= level.ptr
<1>1. level.ptr \in Nat /\ level.size \in Nat /\ inserts \in Nat
  BY DEF AnaType
<1>. QED  BY <1>1, SimAssumption DEF AnaType, OnTrack, Overrun, SimType

(* The first entry of a window is followed.                                *)
LEMMA FollowStep ==
  ASSUME SimInv, AnaInv, NEW inserted \in BOOLEAN, iterate(inserted), Follow(inserted)
  PROVE  AnaInv'
<1>. DEFINE out == IF Refreshes \/ (inserted /\ Full) THEN 1 ELSE 0
<1>1. SimType /\ inserted /\ WindowStarts
  BY DEF SimInv, Follow
<1>2. /\ num_valids_r = (IF Refreshes THEN num_valids - 1 ELSE num_valids)
      /\ num_valids' = num_valids - out + 1
      /\ HeldAt(num_valids - 1)' = [pos |-> act_count % window_size, born |-> act_count]
  BY <1>1, QueueStep
<1>3. num_valids_r \in 0 .. num_entries - 1 /\ ~ Full /\ out = num_valids - num_valids_r
  BY <1>1, <1>2, SimAssumption DEF Refreshes, SimType, Full
<1>4. num_valids' = num_valids_r + 1
  BY <1>1, <1>2, <1>3 DEF SimType
<1>. HIDE DEF out
<1>5. /\ tag' = act_count /\ fate' = "held" /\ inserts' = 0
      /\ level' = [ptr |-> num_valids_r, size |-> num_valids_r + 1, case |-> "A"]
  BY DEF Follow
<1>6. num_valids' - 1 = num_valids_r /\ HeldAt(num_valids - 1)'.born = act_count
  BY <1>2, <1>3, <1>4
<1>7. OnTrack(level, inserts)'
  <2>1. Overrun(level, inserts)' = 0 /\ level'.ptr - 0 = num_valids' - 1
    BY <1>3, <1>4, <1>5, SimAssumption DEF Overrun
  <2>. QED  BY <1>3, <1>4, <1>5, <1>6, <2>1, SimAssumption DEF OnTrack
<1>8. AnaType'
  BY <1>1, <1>3, <1>5, SimAssumption DEF AnaType, Following, SimType
<1>. QED  BY <1>5, <1>7, <1>8, ExactPartsNext DEF AnaInv

(* Nothing happens to an entry that is not followed, or no longer.         *)
LEMMA IdleStep ==
  ASSUME AnaInv, ~ Following, NEW inserted \in BOOLEAN, GoOn(inserted)
  PROVE  AnaInv'
<1>1. tag' = tag /\ level' = level /\ (fate # "held" => fate' = fate)
  BY DEF GoOn, LevelNow, FateNow
<1>2. ~ Following' /\ inserts' \in Nat
  BY <1>1 DEF Following, GoOn, CountIn, AnaInv, AnaType
<1>3. AnaType'
  BY <1>1, <1>2 DEF AnaInv, AnaType
<1>. QED  BY <1>1, <1>2, <1>3, ExactParts, ExactPartsNext DEF AnaInv

(* Within a window an entry moves up when the oldest is overwritten, and   *)
(* is lost when it is the oldest itself.                                   *)
LEMMA WindowStep ==
  ASSUME SimInv, AnaInv, Following, ~ WindowStarts,
         NEW inserted \in BOOLEAN, iterate(inserted), GoOn(inserted)
  PROVE  AnaInv'
<1>. DEFINE out == IF Refreshes \/ (inserted /\ Full) THEN 1 ELSE 0
            q == level.ptr - Overrun(level, inserts)
            over == num_entries - level.size
<1>1. SimType /\ ~ Refreshes /\ AnaType
  BY DEF SimInv, AnaInv, Refreshes
<1>2. /\ num_valids_r = num_valids /\ ptr_r = ptr
      /\ num_valids > 0 => HeldAt(0) = entries[ptr]
      /\ num_valids' = num_valids - out + (IF inserted THEN 1 ELSE 0)
      /\ \A i \in 0 .. num_valids - out - 1 : HeldAt(i)' = HeldAt(i + out)
  BY <1>1, QueueStep
<1>3. /\ tag' = tag /\ level' = level
      /\ inserts' = inserts + (IF inserted THEN 1 ELSE 0)
      /\ fate' = IF fate = "held" /\ inserted /\ Full /\ entries[ptr_r].born = tag
                 THEN "lost" ELSE fate
  BY <1>1 DEF GoOn, LevelNow, FateNow, CountIn, AnaInv, AnaType
<1>4. /\ level.ptr \in Nat /\ level.size \in Nat /\ inserts \in Nat
      /\ num_valids \in Nat /\ num_entries \in Nat \ {0} /\ num_valids <= num_entries
      /\ level.ptr < level.size /\ level.size <= num_entries
  BY <1>1, SimAssumption DEF AnaType, SimType
<1>5. Following' /\ level'.case = "A" /\ inserts' \in Nat /\ fate' \in {"held", "lost"}
  BY <1>1, <1>3, <1>4 DEF Following, AnaType
<1>6. AnaType'
  BY <1>1, <1>3, <1>5 DEF AnaType
<1>7. CASE fate = "lost"
  <2>1. inserts > full_th(level) /\ fate' = "lost"
    BY <1>3, <1>7, ExactParts DEF AnaInv
  <2>2. inserts' > full_th(level')
    BY <1>3, <1>4, <2>1 DEF full_th
  <2>. QED  BY <1>5, <1>6, <2>1, <2>2, ExactPartsNext DEF AnaInv
<1>8. CASE fate = "held"
  <2>1. OnTrack(level, inserts)
    BY <1>8, ExactParts DEF AnaInv
  <2>2. q \in 0 .. num_valids - 1 /\ HeldAt(q).born = tag /\ q <= level.ptr
    BY <1>1, <2>1, PlaceHeld
  <2>3. num_valids = IF inserts > over THEN num_entries ELSE level.size + inserts
    BY <2>1 DEF OnTrack
  <2>4. CASE ~ inserted
    <3>1. out = 0 /\ inserts' = inserts /\ num_valids' = num_valids /\ fate' = "held"
      BY <1>1, <1>2, <1>3, <1>4, <1>8, <2>4
    <3>2. HeldAt(q)' = HeldAt(q)
      <4>1. \A i \in 0 .. num_valids - 1 : i + out = i /\ i \in 0 .. num_valids - out - 1
        BY <1>4, <3>1
      <4>2. \A i \in 0 .. num_valids - 1 : HeldAt(i)' = HeldAt(i)
        BY <4>1, <1>2
      <4>3. q' = q
        BY <1>3, <3>1 DEF Overrun
      <4>. HIDE DEF q
      <4>. QED  BY <4>2, <4>3, <2>2 DEF HeldAt
    <3>3. OnTrack(level, inserts)'
      BY <1>3, <2>1, <2>2, <3>1, <3>2 DEF OnTrack, Overrun
    <3>. QED  BY <1>5, <1>6, <3>1, <3>3, ExactPartsNext DEF AnaInv
  <2>5. CASE inserted /\ ~ Full
    <3>1. /\ out = 0 /\ inserts' = inserts + 1 /\ num_valids' = num_valids + 1
          /\ fate' = "held" /\ num_valids < num_entries
      BY <1>1, <1>2, <1>3, <1>4, <1>8, <2>5 DEF Full
    <3>2. inserts < over /\ ~ (inserts' > over)
      BY <1>4, <2>3, <3>1
    <3>3. Overrun(level, inserts) = 0 /\ Overrun(level, inserts)' = 0
      BY <1>3, <3>1, <3>2, <1>4 DEF Overrun
    <3>4. q = level.ptr /\ level'.ptr - 0 = level.ptr
      BY <1>3, <1>4, <3>3
    <3>5. \A i \in 0 .. num_valids - 1 : HeldAt(i)' = HeldAt(i)
      <4>1. \A i \in 0 .. num_valids - 1 : i + out = i /\ i \in 0 .. num_valids - out - 1
        BY <1>4, <3>1
      <4>. QED  BY <4>1, <1>2
    <3>6. HeldAt(level.ptr - 0)'.born = tag'
      <4>1. level'.ptr - 0 \in 0 .. num_valids - 1 /\ HeldAt(level.ptr).born = tag
        BY <2>2, <3>4
      <4>2. \A i : i = level'.ptr - 0 => HeldAt(i)' = HeldAt(i)
        BY <4>1, <3>5
      <4>. QED  BY <4>1, <4>2, <3>4, <1>3 DEF HeldAt
    <3>7. OnTrack(level, inserts)'
      BY <1>3, <1>4, <2>3, <3>1, <3>2, <3>3, <3>6 DEF OnTrack
    <3>. QED  BY <1>5, <1>6, <3>1, <3>7, ExactPartsNext DEF AnaInv
  <2>6. CASE inserted /\ Full
    <3>1. /\ out = 1 /\ inserts' = inserts + 1 /\ num_valids' = num_valids
          /\ num_valids = num_entries /\ HeldAt(0) = entries[ptr_r]
      BY <1>1, <1>2, <1>3, <1>4, <2>6 DEF Full
    <3>2. inserts >= over /\ Overrun(level, inserts) = inserts - over
      BY <1>4, <2>3, <3>1 DEF Overrun
    <3>3. CASE q = 0
      <4>1. fate' = "lost"
        BY <1>3, <1>8, <2>2, <2>6, <3>1, <3>3
      <4>2. inserts = over + level.ptr
        BY <1>4, <3>2, <3>3
      <4>3. inserts' > full_th(level')
        BY <1>3, <1>4, <3>1, <4>2 DEF full_th
      <4>. QED  BY <1>5, <1>6, <4>1, <4>3, ExactPartsNext DEF AnaInv
    <3>4. CASE q # 0
      <4>1. 0 \in 0 .. num_valids - 1 /\ q - 1 \in 0 .. num_valids - out - 1
        BY <1>4, <2>2, <3>1, <3>4
      <4>2. HeldAt(0).born # tag
        BY <2>2, <3>4, <4>1 DEF SimInv, BornOnce
      <4>3. fate' = "held"
        BY <1>3, <1>8, <3>1, <4>2
      <4>4. Overrun(level, inserts)' = inserts + 1 - over /\ inserts' > over
        BY <1>3, <1>4, <3>1, <3>2 DEF Overrun
      <4>5. level'.ptr - Overrun(level, inserts)' = q - 1 /\ q - 1 >= 0 /\ q - 1 + 1 = q
        BY <1>3, <1>4, <2>2, <3>2, <4>1, <4>4
      <4>6. \A i : i = q - 1 => HeldAt(i)' = HeldAt(q)
        BY <1>2, <3>1, <4>1, <4>5
      <4>7. HeldAt(level.ptr - Overrun(level, inserts))'.born = tag'
        BY <1>3, <2>2, <4>5, <4>6
      <4>8. level'.ptr >= Overrun(level, inserts)'
        BY <1>3, <1>4, <3>2, <4>1, <4>4, <4>5
      <4>9. OnTrack(level, inserts)'
        BY <1>3, <3>1, <4>4, <4>7, <4>8 DEF OnTrack
      <4>. QED  BY <1>5, <1>6, <4>3, <4>9, ExactPartsNext DEF AnaInv
    <3>. QED  BY <3>3, <3>4
  <2>. QED  BY <2>4, <2>5, <2>6
<1>. QED  BY <1>1, <1>7, <1>8 DEF AnaType

(* At the end of a window the refresh takes the entry in case B, finds it  *)
(* gone in case C, and moves it up by one in case A.                       *)
LEMMA RefreshStep ==
  ASSUME SimInv, AnaInv, Following, WindowStarts,
         NEW inserted \in BOOLEAN, iterate(inserted), GoOn(inserted)
  PROVE  AnaInv'
<1>. DEFINE out == IF Refreshes \/ (inserted /\ Full) THEN 1 ELSE 0
            q == level.ptr - Overrun(level, inserts)
            over == num_entries - level.size
            one == IF inserted THEN 1 ELSE 0
<1>1. SimType /\ AnaType
  BY DEF SimInv, AnaInv
<1>2. /\ ~ (Refreshes /\ Full)
      /\ num_valids > 0 => HeldAt(0) = entries[ptr]
      /\ num_valids' = num_valids - out + one
      /\ \A i \in 0 .. num_valids - out - 1 : HeldAt(i)' = HeldAt(i + out)
  BY <1>1, QueueStep
<1>3. /\ tag' = tag /\ level' = calc_lossprob(level, inserts)
      /\ fate' = FateNow(inserted) /\ inserts' = one
  BY DEF GoOn, LevelNow, CountIn
<1>4. /\ level.ptr \in Nat /\ level.size \in Nat /\ inserts \in Nat /\ tag \in Int
      /\ num_valids \in Nat /\ num_entries \in Nat \ {0} /\ num_valids <= num_entries
      /\ level.ptr < level.size /\ level.size <= num_entries
      /\ level \in [ptr : Nat, size : Nat, case : {"none", "A", "B", "C"}]
  BY <1>1, SimAssumption DEF AnaType, SimType
<1>5. CASE fate = "lost"
  <2>1. inserts > full_th(level)
    BY <1>5, ExactParts DEF AnaInv
  <2>2. level' = [level EXCEPT !.case = "C"] /\ fate' = "lost"
    BY <1>3, <1>5, <2>1 DEF calc_lossprob, FateNow
  <2>3. level'.case = "C" /\ ~ Following'
        /\ level' \in [ptr : Nat, size : Nat, case : {"none", "A", "B", "C"}]
    BY <1>4, <2>2 DEF Following
  <2>4. AnaType'
    BY <1>3, <1>4, <2>3 DEF AnaType
  <2>. QED  BY <2>2, <2>3, <2>4, ExactPartsNext DEF AnaInv
<1>6. CASE fate = "held"
  <2>1. OnTrack(level, inserts)
    BY <1>6, ExactParts DEF AnaInv
  <2>2. q \in 0 .. num_valids - 1 /\ HeldAt(q).born = tag /\ q <= level.ptr
    BY <1>1, <2>1, PlaceHeld
  <2>3. /\ num_valids = IF inserts > over THEN num_entries ELSE level.size + inserts
        /\ level.ptr >= Overrun(level, inserts)
    BY <2>1 DEF OnTrack
  <2>4. Refreshes /\ out = 1 /\ ~ Full /\ HeldAt(0) = entries[ptr]
    BY <1>2, <1>4, <2>2 DEF Refreshes
  <2>5. inserts <= full_th(level)
    BY <1>4, <2>3 DEF full_th, Overrun
  <2>6. q = 0 <=> level.ptr = 0 \/ inserts = full_th(level)
    BY <1>4, <2>3, <2>5 DEF full_th, Overrun
  <2>7. full_th(level) \in Nat
    BY <1>4 DEF full_th
  <2>8. CASE q = 0
    <3>1. fate' = "mitigated"
      BY <1>3, <1>6, <2>2, <2>4, <2>8 DEF FateNow
    <3>2. level' = [level EXCEPT !.case = "B"]
      BY <1>3, <1>4, <2>5, <2>6, <2>7, <2>8 DEF calc_lossprob
    <3>3. level'.case = "B" /\ ~ Following'
          /\ level' \in [ptr : Nat, size : Nat, case : {"none", "A", "B", "C"}]
      BY <1>4, <3>2 DEF Following
    <3>4. AnaType'
      BY <1>3, <1>4, <3>3 DEF AnaType
    <3>. QED  BY <3>1, <3>3, <3>4, ExactPartsNext DEF AnaInv
  <2>9. CASE q # 0
    <3>1. 0 \in 0 .. num_valids - 1 /\ q - 1 \in 0 .. num_valids - out - 1
          /\ q - 1 + 1 = q
      BY <1>4, <2>2, <2>4, <2>9
    <3>2. HeldAt(0).born # tag
      BY <2>2, <2>9, <3>1 DEF SimInv, BornOnce
    <3>3. fate' = "held"
      BY <1>3, <1>6, <2>4, <3>2 DEF FateNow
    <3>4. level' = CaseA(level, inserts)
      BY <1>3, <1>4, <2>5, <2>6, <2>7, <2>9 DEF calc_lossprob
    <3>5. level' = [ptr |-> q - 1, size |-> num_valids - 1, case |-> "A"]
      <4>1. (IF inserts > over THEN level.ptr - (inserts - over) ELSE level.ptr) - 1
              = q - 1
        BY <1>4 DEF Overrun
      <4>2. (IF level.size + inserts > num_entries THEN num_entries
             ELSE level.size + inserts) - 1 = num_valids - 1
        BY <1>4, <2>3
      <4>. QED  BY <3>4, <4>1, <4>2 DEF CaseA
    <3>6. level'.ptr = q - 1 /\ level'.size = num_valids - 1 /\ level'.case = "A"
      BY <3>5
    <3>7. level' \in [ptr : Nat, size : Nat, case : {"none", "A", "B", "C"}]
      BY <1>4, <2>2, <2>9, <3>5
    <3>8. Following' => level'.ptr < level'.size /\ level'.size <= num_entries
      BY <1>4, <2>2, <3>6
    <3>9. AnaType'
      BY <1>3, <1>4, <3>3, <3>7, <3>8 DEF AnaType
    <3>10. num_valids' = num_valids - 1 + one /\ one \in {0, 1}
      BY <1>2, <2>4
    <3>11. ~ (inserts' > num_entries - level'.size)
      BY <1>3, <1>4, <3>6, <3>10
    <3>12. Overrun(level, inserts)' = 0 /\ level'.ptr - 0 = q - 1 /\ level'.ptr >= 0
      BY <3>1, <3>6, <3>11 DEF Overrun
    <3>13. \A i : i = q - 1 => HeldAt(i)' = HeldAt(q)
      BY <1>2, <2>4, <3>1
    <3>14. HeldAt(level.ptr - 0)'.born = tag'
      BY <1>3, <2>2, <3>12, <3>13
    <3>15. num_valids' = level'.size + inserts'
      BY <1>3, <1>4, <3>6, <3>10
    <3>16. OnTrack(level, inserts)'
      BY <3>11, <3>12, <3>14, <3>15 DEF OnTrack
    <3>. QED  BY <3>3, <3>6, <3>9, <3>16, ExactPartsNext DEF AnaInv
  <2>. QED  BY <2>8, <2>9
<1>. QED  BY <1>1, <1>5, <1>6 DEF AnaType

(* The occupancy chain's state: since the last refresh, which left         *)
(* occupied entries, the tracker has grown by window_inserts, up to its    *)
(* size.                                                                   *)
OccInv ==
  /\ window_inserts \in Nat
  /\ act_count = 0 => num_valids = 0
  /\ act_count > 0 =>
       /\ occupied \in 0 .. num_entries - 1
       /\ num_valids = IF occupied + window_inserts > num_entries THEN num_entries
                       ELSE occupied + window_inserts

LEMMA OccStep ==
  ASSUME SimInv, OccInv, NEW inserted \in BOOLEAN, Step(inserted)
  PROVE  /\ OccInv'
         /\ WindowStarts /\ act_count > 0 =>
              occupied' = MarkovColumn(occupied, window_inserts)
<1>. DEFINE out == IF Refreshes \/ (inserted /\ Full) THEN 1 ELSE 0
            one == IF inserted THEN 1 ELSE 0
<1>1. SimType /\ iterate(inserted)
  BY DEF SimInv, Step
<1>2. /\ num_valids_r = (IF Refreshes THEN num_valids - 1 ELSE num_valids)
      /\ num_valids' = num_valids - out + one
  BY <1>1, QueueStep
<1>3. /\ act_count' = act_count + 1
      /\ window_inserts' = (IF WindowStarts THEN 0 ELSE window_inserts) + one
      /\ occupied' = IF WindowStarts THEN num_valids_r ELSE occupied
  BY <1>1 DEF Step, CountIn, iterate
<1>4. /\ num_valids \in Nat /\ num_valids <= num_entries /\ act_count \in Nat
      /\ num_entries \in Nat \ {0} /\ window_inserts \in Nat /\ one \in {0, 1}
  BY <1>1, SimAssumption DEF SimType, OccInv
<1>5. CASE WindowStarts
  <2>1. /\ num_valids_r = IF num_valids > 0 THEN num_valids - 1 ELSE 0
        /\ num_valids_r \in 0 .. num_entries - 1
    BY <1>2, <1>4, <1>5 DEF Refreshes
  <2>2. ~ Full /\ out = num_valids - num_valids_r
    BY <1>2, <1>4, <1>5, <2>1 DEF Full, Refreshes
  <2>3. num_valids' = num_valids_r + one
    BY <1>2, <1>4, <2>1, <2>2
  <2>4. OccInv'
    BY <1>3, <1>4, <1>5, <2>1, <2>3 DEF OccInv
  <2>5. act_count > 0 => num_valids_r = MarkovColumn(occupied, window_inserts)
    BY <1>4, <2>1 DEF OccInv, MarkovColumn
  <2>. QED  BY <1>3, <1>5, <2>4, <2>5
<1>6. CASE ~ WindowStarts
  <2>1. act_count > 0
    BY <1>4, <1>6, SimAssumption DEF WindowStarts
  <2>2. ~ Refreshes /\ num_valids_r = num_valids
    BY <1>2, <1>6 DEF Refreshes
  <2>3. out = IF inserted /\ num_valids = num_entries THEN 1 ELSE 0
    BY <2>2 DEF Full
  <2>4. OccInv'
    BY <1>2, <1>3, <1>4, <1>6, <2>1, <2>3 DEF OccInv
  <2>. QED  BY <1>6, <2>4
<1>. QED  BY <1>5, <1>6

-----------------------------------------------------------------------------
(* The inductive invariant of the analysis.  AnalysisExact alone is not    *)
(* inductive: that the entry at the followed one's place is the only one   *)
(* of its activation is BornOnce, and that its place is within the tracker *)
(* is AnaType.                                                             *)
IInv == SimInv /\ AnaInv /\ OccInv

LEMMA Invariance == ASpec => []IInv
<1>1. AInit => IInv
  <2>. SUFFICES ASSUME AInit PROVE IInv
    OBVIOUS
  <2>1. SimInv
    BY SimInvInit DEF AInit
  <2>2. AnaInv
    BY DEF AInit, AnaInv, AnaType, AnalysisExact, Following
  <2>3. OccInv
    BY DEF AInit, SimInit, OccInv
  <2>. QED  BY <2>1, <2>2, <2>3 DEF IInv
<1>2. IInv /\ [ANext]_allvars => IInv'
  <2>. SUFFICES ASSUME IInv, [ANext]_allvars PROVE IInv'
    OBVIOUS
  <2>. USE DEF IInv
  <2>1. ASSUME NEW inserted \in BOOLEAN, Step(inserted) PROVE IInv'
    <3>1. iterate(inserted) /\ (Follow(inserted) \/ GoOn(inserted))
      BY <2>1 DEF Step
    <3>2. SimInv' /\ OccInv'
      BY <2>1, <3>1, SimInvStep, OccStep
    <3>3. AnaInv'
      BY <3>1, FollowStep, IdleStep, WindowStep, RefreshStep
    <3>. QED  BY <3>2, <3>3
  <2>2. CASE UNCHANGED allvars
    <3>1. UNCHANGED simvars /\ UNCHANGED avars
      BY <2>2 DEF allvars
    <3>2. SimInv'
      BY <3>1 DEF simvars, SimInv, SimType, BornOnce, HeldAt
    <3>3. AnaInv'
      BY <3>1 DEF simvars, avars, AnaInv, AnaType, AnalysisExact, Following, full_th, HeldAt
    <3>4. OccInv'
      BY <3>1 DEF simvars, avars, OccInv
    <3>. QED  BY <3>2, <3>3, <3>4
  <2>. QED  BY <2>1, <2>2 DEF ANext
<1>. QED  BY <1>1, <1>2, PTL DEF ASpec

(* The analysis only watches: its runs are runs of the simulation, so that *)
(* LossBooks holds of them.                                                *)
LEMMA Watches == ASpec => SimSpec
<1>1. AInit => SimInit
  BY DEF AInit
<1>2. [ANext]_allvars => [SimNext]_simvars
  BY DEF ANext, Step, SimNext, allvars
<1>. QED  BY <1>1, <1>2, PTL DEF ASpec, SimSpec

(* calc_lossprob's case analysis is exact, for every tracker size, window  *)
(* and order of insertions: case C is reached exactly for entries that the *)
(* tracker evicts and case B exactly for entries that a refresh takes, and *)
(* in between ptr and size are the entry's place and the occupancy.        *)
THEOREM CasesExact == ASpec => []AnalysisExact
<1>1. IInv => AnalysisExact
  BY DEF IInv, AnaInv
<1>. QED  BY <1>1, Invariance, PTL

(* init_markov_chain's matrix is exact: from occupancy i after a refresh,  *)
(* n insertions and the next refresh lead to the column that the matrix    *)
(* gives their probability to.                                             *)
THEOREM ChainExact == ASpec => OccupancyExact
<1>. DEFINE A == WindowStarts /\ act_count > 0 =>
                   occupied' = MarkovColumn(occupied, window_inserts)
<1>1. IInv /\ [ANext]_allvars => [A]_allvars
  BY OccStep DEF IInv, ANext
<1>. QED  BY <1>1, Invariance, PTL DEF ASpec, OccupancyExact
=============================================================================
