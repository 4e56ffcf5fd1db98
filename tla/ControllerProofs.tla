--------------------------- MODULE ControllerProofs ---------------------------
(***************************************************************************)
(* The memory controller, for all requests and bursts, any number of ranks *)
(* and all sizes and thresholds of the queues: its queues and counters     *)
(* agree, it does not sleep on work, no retry is lost, and it implements   *)
(* the service that its port relies on.  The last part is about the        *)
(* throttling of its answers by BlockHammer.                               *)
(***************************************************************************)
EXTENDS MemCtrl, BlockHammer, FiniteSetTheorems, SequenceTheorems, WellFoundedInduction, TLAPS

-----------------------------------------------------------------------------
(* Sequences                                                               *)

\* The element at i and what is before and after it make up q.
Parted(S, q, i) ==
  \E u, v \in Seq(S) : q = (u \o <<q[i]>>) \o v /\ RemoveAt(q, i) = u \o v

\* What RemoveAt() leaves, and the two parts it is made of.
LEMMA Removed ==
  ASSUME NEW S, NEW q \in Seq(S), NEW i \in 1..Len(q)
  PROVE  /\ RemoveAt(q, i) \in Seq(S)
         /\ Len(RemoveAt(q, i)) = Len(q) - 1
         /\ \A j \in 1..Len(q) - 1 : RemoveAt(q, i)[j] = IF j < i THEN q[j] ELSE q[j + 1]
         /\ Parted(S, q, i)
<1> DEFINE u == SubSeq(q, 1, i - 1)
           v == SubSeq(q, i + 1, Len(q))
           w == u \o v
           m == u \o <<q[i]>>
<1>1. Len(q) \in Nat /\ i \in Int /\ i - 1 \in Int /\ i + 1 \in Int /\ 1 <= i /\ i <= Len(q)
  OBVIOUS
<1>2. \A j \in 1..Len(q) : q[j] \in S
  OBVIOUS
<1>3. u \in Seq(S) /\ Len(u) = i - 1 /\ \A j \in 1..(i - 1) : u[j] = q[j]
  BY <1>1, <1>2
<1>4. v \in Seq(S) /\ Len(v) = Len(q) - i /\ \A j \in 1..(Len(q) - i) : v[j] = q[i + j]
  <2>1. \A j \in (i + 1)..Len(q) : q[j] \in S
    BY <1>1, <1>2
  <2>2. /\ v \in Seq(S)
        /\ Len(v) = IF i + 1 <= Len(q) THEN Len(q) - (i + 1) + 1 ELSE 0
        /\ \A j \in 1..(Len(q) - (i + 1) + 1) : v[j] = q[(i + 1) + j - 1]
    BY <1>1, <2>1, SubSeqProperties
  <2> HIDE DEF v
  <2>3. Len(v) = Len(q) - i
    BY <1>1, <2>2
  <2>4. \A j \in 1..(Len(q) - i) : v[j] = q[i + j]
    <3>1. ASSUME NEW j \in 1..(Len(q) - i) PROVE v[j] = q[i + j]
      <4>1. j \in 1..(Len(q) - (i + 1) + 1) /\ (i + 1) + j - 1 = i + j
        BY <1>1
      <4> QED BY <2>2, <4>1
    <3> QED BY <3>1
  <2> QED BY <2>2, <2>3, <2>4
<1>5. RemoveAt(q, i) = w
  BY DEF RemoveAt
<1>6. q[i] \in S /\ <<q[i]>> \in Seq(S) /\ Len(<<q[i]>>) = 1 /\ <<q[i]>>[1] = q[i]
  BY <1>2
<1> HIDE DEF u, v
<1>7. /\ w \in Seq(S) /\ Len(w) = Len(u) + Len(v)
      /\ \A j \in 1..(Len(u) + Len(v)) : w[j] = IF j <= Len(u) THEN u[j] ELSE v[j - Len(u)]
  BY <1>3, <1>4, ConcatProperties
<1>8. /\ m \in Seq(S) /\ Len(m) = Len(u) + 1
      /\ \A j \in 1..(Len(u) + 1) : m[j] = IF j <= Len(u) THEN u[j] ELSE <<q[i]>>[j - Len(u)]
  BY <1>3, <1>6, ConcatProperties
<1> HIDE DEF w, m
<1>9. Len(w) = Len(q) - 1
  BY <1>1, <1>3, <1>4, <1>7
<1>10. \A j \in 1..(Len(q) - 1) : w[j] = IF j < i THEN q[j] ELSE q[j + 1]
  <2>1. ASSUME NEW j \in 1..(Len(q) - 1), j < i PROVE w[j] = q[j]
    <3>1. j \in 1..(Len(u) + Len(v)) /\ j <= Len(u) /\ j \in 1..(i - 1)
      BY <1>1, <1>3, <1>4, <2>1
    <3> QED BY <1>3, <1>7, <3>1
  <2>2. ASSUME NEW j \in 1..(Len(q) - 1), ~(j < i) PROVE w[j] = q[j + 1]
    <3>1. /\ j \in 1..(Len(u) + Len(v)) /\ ~(j <= Len(u))
          /\ j - Len(u) \in 1..(Len(q) - i) /\ i + (j - Len(u)) = j + 1
      BY <1>1, <1>3, <1>4, <2>2
    <3>2. w[j] = v[j - Len(u)] /\ v[j - Len(u)] = q[i + (j - Len(u))]
      BY <1>4, <1>7, <3>1
    <3> QED BY <3>1, <3>2
  <2> QED BY <2>1, <2>2
<1>11. q = m \o v
  <2>1. /\ m \o v \in Seq(S) /\ Len(m \o v) = Len(m) + Len(v)
        /\ \A j \in 1..(Len(m) + Len(v)) :
             (m \o v)[j] = IF j <= Len(m) THEN m[j] ELSE v[j - Len(m)]
    BY <1>4, <1>8, ConcatProperties
  <2>2. Len(m \o v) = Len(q)
    BY <1>1, <1>3, <1>4, <1>8, <2>1
  <2>3. ASSUME NEW j \in 1..Len(q) PROVE q[j] = (m \o v)[j]
    <3>1. j \in 1..(Len(m) + Len(v)) /\ Len(u) = i - 1 /\ Len(m) = i
      BY <1>1, <1>3, <1>4, <1>8
    <3>2. CASE j < i
      <4>1. j \in 1..(Len(u) + 1) /\ j <= Len(u) /\ j <= Len(m) /\ j \in 1..(i - 1)
        BY <1>1, <3>1, <3>2
      <4> QED BY <1>3, <1>8, <2>1, <3>1, <4>1
    <3>3. CASE j = i
      <4>1. j \in 1..(Len(u) + 1) /\ ~(j <= Len(u)) /\ j <= Len(m) /\ j - Len(u) = 1
        BY <1>1, <3>1, <3>3
      <4> QED BY <1>6, <1>8, <2>1, <3>1, <3>3, <4>1
    <3>4. CASE j > i
      <4>1. ~(j <= Len(m)) /\ j - Len(m) \in 1..(Len(q) - i) /\ i + (j - Len(m)) = j
        BY <1>1, <3>1, <3>4
      <4>2. (m \o v)[j] = v[j - Len(m)]
        BY <2>1, <3>1, <4>1
      <4>3. v[j - Len(m)] = q[i + (j - Len(m))]
        BY <1>4, <4>1
      <4> QED BY <4>1, <4>2, <4>3
    <3>5. j < i \/ j = i \/ j > i
      BY <1>1
    <3> QED BY <3>2, <3>3, <3>4, <3>5
  <2> QED BY <2>1, <2>2, <2>3, SeqEqual
<1>12. Parted(S, q, i)
  BY <1>3, <1>4, <1>5, <1>11 DEF Parted, w, m
<1> QED BY <1>5, <1>7, <1>9, <1>10, <1>12

\* A set of numbers that is not empty has a least one.
LEMMA LeastNumber ==
  ASSUME NEW T \in SUBSET Nat, T # {}
  PROVE  \E e \in T : \A f \in T : e <= f
<1> DEFINE Less == {ss \in Nat \X Nat : ss[1] < ss[2]}
<1>1. IsWellFoundedOn(Less, Nat)
  BY NatLessThanWellFounded, Zenon DEF OpToRel
<1> HIDE DEF Less
<1>2. PICK e \in T : \A f \in T : ~(<<f, e>> \in Less)
  BY <1>1, WFMin, Zenon
<1>3. \A f \in T : ~(f < e)
  BY <1>2 DEF Less
<1> QED BY <1>3

\* A set of positions has an n-th one, for every n up to their number.
LEMMA NthPosition ==
  ASSUME NEW m \in Nat, NEW I \in SUBSET (1..m), NEW n \in 1..Cardinality(I)
  PROVE  \E i \in I : Cardinality({j \in I : j <= i}) = n
<1> DEFINE Below(k) == {j \in I : j <= k}
           T == {k \in Nat : Cardinality(Below(k)) >= n}
<1>0. \A j \in I : j \in Nat /\ 1 <= j /\ j <= m
  OBVIOUS
<1>1. IsFiniteSet(I) /\ Cardinality(I) \in Nat
  <2>1. IsFiniteSet(1..m)
    BY FS_Interval
  <2> QED BY <2>1, FS_Subset, FS_CardinalityType
<1>2. \A k \in Nat : IsFiniteSet(Below(k)) /\ Cardinality(Below(k)) \in Nat
  <2>1. \A k \in Nat : Below(k) \in SUBSET I
    OBVIOUS
  <2> QED BY <1>1, <2>1, FS_Subset, FS_CardinalityType
<1>3. m \in T
  <2>1. Below(m) = I
    BY <1>0
  <2> QED BY <1>1, <2>1
<1>4. PICK k \in T : \A f \in T : k <= f
  <2>1. T \in SUBSET Nat /\ T # {}
    BY <1>3
  <2> HIDE DEF T
  <2> QED BY <2>1, LeastNumber
<1>5. k # 0
  <2>0. \A j \in I : ~(j <= 0)
    BY <1>0
  <2>1. Below(0) = {}
    BY <2>0
  <2>2. Cardinality(Below(0)) = 0
    BY <2>1, FS_EmptySet
  <2>3. Cardinality(Below(k)) >= n
    BY <1>4
  <2> HIDE DEF Below
  <2> QED BY <2>2, <2>3
<1>6. k \in Nat /\ k - 1 \in Nat /\ k - 1 \notin T
  <2>1. k \in Nat
    BY <1>4
  <2>2. k - 1 \in Nat /\ ~(k <= k - 1)
    BY <1>5, <2>1
  <2> QED BY <1>4, <2>1, <2>2
<1>7. Cardinality(Below(k - 1)) < n
  <2>1. ~(Cardinality(Below(k - 1)) >= n)
    BY <1>6
  <2>2. Cardinality(Below(k - 1)) \in Nat
    BY <1>2, <1>6
  <2> HIDE DEF Below
  <2> QED BY <2>1, <2>2
<1>8. k \in I
  <2> SUFFICES ASSUME k \notin I PROVE FALSE
    OBVIOUS
  <2>1. \A j \in I : j <= k <=> j <= k - 1
    BY <1>0, <1>6
  <2>2. Below(k) = Below(k - 1)
    BY <2>1
  <2>3. Cardinality(Below(k)) >= n
    BY <1>4
  <2> HIDE DEF Below
  <2> QED BY <1>2, <1>6, <1>7, <2>2, <2>3
<1>9. Below(k) = Below(k - 1) \cup {k} /\ k \notin Below(k - 1)
  <2>1. \A j \in I : j <= k <=> j <= k - 1 \/ j = k
    BY <1>0, <1>6
  <2>2. ~(k <= k - 1)
    BY <1>6
  <2> QED BY <1>8, <2>1, <2>2
<1>10. Cardinality(Below(k)) = Cardinality(Below(k - 1)) + 1
  <2> HIDE DEF Below
  <2> QED BY <1>2, <1>6, <1>9, FS_AddElement
<1>11. Cardinality(Below(k)) = n
  <2>1. Cardinality(Below(k)) >= n
    BY <1>4
  <2>2. Cardinality(Below(k)) \in Nat /\ Cardinality(Below(k - 1)) \in Nat
    BY <1>2, <1>6
  <2> HIDE DEF Below
  <2> QED BY <1>7, <1>10, <2>1, <2>2
<1> QED BY <1>8, <1>11

\* t consists of elements of q from different positions in I.
Picked(t, q, I) ==
  \E g \in [1..Len(t) -> I] :
     /\ \A n \in 1..Len(t) : t[n] = q[g[n]]
     /\ \A n, p \in 1..Len(t) : g[n] = g[p] => n = p

\* Sift() yields elements of different positions, one for each of them.
LEMMA Sifted ==
  ASSUME NEW S, NEW q \in Seq(S), NEW I \in SUBSET (1..Len(q))
  PROVE  /\ Sift(q, I) \in Seq(S)
         /\ Len(Sift(q, I)) = Cardinality(I)
         /\ Len(Sift(q, I)) <= Len(q)
         /\ Picked(Sift(q, I), q, I)
<1> DEFINE c == Cardinality(I)
           Pick(n) == CHOOSE i \in I : Cardinality({j \in I : j <= i}) = n
           g == [n \in 1..c |-> Pick(n)]
           t == Sift(q, I)
<1>1. Len(q) \in Nat
  OBVIOUS
<1>2. c \in Nat /\ c <= Len(q)
  <2>1. IsFiniteSet(1..Len(q)) /\ Cardinality(1..Len(q)) = Len(q)
    <3>1. \A a, b \in Int : /\ IsFiniteSet(a..b)
                            /\ Cardinality(a..b) = IF a > b THEN 0 ELSE b - a + 1
      BY FS_Interval
    <3>2. 1 \in Int /\ Len(q) \in Int /\ (IF 1 > Len(q) THEN 0 ELSE Len(q) - 1 + 1) = Len(q)
      BY <1>1
    <3> QED BY <3>1, <3>2
  <2>2. IsFiniteSet(I) /\ Cardinality(I) <= Cardinality(1..Len(q))
    BY <2>1, FS_Subset
  <2>3. Cardinality(I) \in Nat
    BY <2>2, FS_CardinalityType
  <2> QED BY <2>1, <2>2, <2>3
<1>3. ASSUME NEW n \in 1..c
      PROVE  Pick(n) \in I /\ Cardinality({j \in I : j <= Pick(n)}) = n
  <2>1. \E i \in I : Cardinality({j \in I : j <= i}) = n
    BY <1>1, NthPosition
  <2> QED BY <2>1
<1> HIDE DEF Pick
<1>4. t = [n \in 1..c |-> q[g[n]]]
  BY DEF Sift, Pick
<1>5. g \in [1..c -> I] /\ \A n \in 1..c : g[n] = Pick(n)
  BY <1>3
<1>6. \A n, p \in 1..c : g[n] = g[p] => n = p
  BY <1>3, <1>5
<1> HIDE DEF g, c, t
<1>7. \A n \in 1..c : q[g[n]] \in S
  <2>1. \A n \in 1..c : g[n] \in 1..Len(q)
    BY <1>5
  <2> QED BY <2>1
<1>8. t \in [1..c -> S]
  BY <1>4, <1>7
<1>9. t \in Seq(S) /\ Len(t) = c
  BY <1>2, <1>8
<1>10. \A n \in 1..c : t[n] = q[g[n]]
  BY <1>4
<1>11. g \in [1..Len(t) -> I]
  BY <1>5, <1>9
<1>12. /\ \A n \in 1..Len(t) : t[n] = q[g[n]]
       /\ \A n, p \in 1..Len(t) : g[n] = g[p] => n = p
  BY <1>6, <1>9, <1>10
<1>13. Picked(t, q, I)
  BY <1>11, <1>12, Zenon DEF Picked
<1> QED BY <1>2, <1>9, <1>13 DEF c, t

-----------------------------------------------------------------------------
(* The packets of a request in a queue                                     *)

Places(q, r) == {i \in 1..Len(q) : q[i].req = r}

Count(q, r) == Cardinality(Places(q, r))

LEMMA PlacesFinite ==
  ASSUME NEW S, NEW q \in Seq(S), NEW r
  PROVE  /\ IsFiniteSet(Places(q, r)) /\ Count(q, r) \in Nat
         /\ Count(q, r) = 0 <=> Places(q, r) = {}
<1>1. IsFiniteSet(1..Len(q))
  BY FS_Interval
<1>2. Places(q, r) \in SUBSET (1..Len(q))
  BY DEF Places
<1>3. IsFiniteSet(Places(q, r))
  BY <1>1, <1>2, FS_Subset
<1> QED BY <1>3, FS_CardinalityType, FS_EmptySet DEF Count

\* Two queues one behind the other, as PacketsOf() numbers their packets.
Both(q, p, r) == Places(q, r) \cup {Len(q) + i : i \in Places(p, r)}

LEMMA TwoQueues ==
  ASSUME NEW S, NEW q \in Seq(S), NEW p \in Seq(S), NEW r
  PROVE  /\ Cardinality(Both(q, p, r)) = Count(q, r) + Count(p, r)
         /\ Both(q, p, r) = {} <=> Count(q, r) + Count(p, r) = 0
         /\ Places(q \o p, r) = Both(q, p, r)
<1> DEFINE A == Places(q, r)
           B == Places(p, r)
           C == {Len(q) + i : i \in B}
           f == [i \in B |-> Len(q) + i]
<1>1. Len(q) \in Nat /\ Len(p) \in Nat
  OBVIOUS
<1>2. /\ \A i \in A : i \in Nat /\ 1 <= i /\ i <= Len(q)
      /\ \A i \in B : i \in Nat /\ 1 <= i /\ i <= Len(p)
  BY <1>1 DEF Places
<1>3. IsFiniteSet(A) /\ IsFiniteSet(B)
  BY PlacesFinite
<1> HIDE DEF A, B
<1>4. ExistsBijection(B, C)
  <2>1. f \in [B -> C]
    OBVIOUS
  <2>2. \A i, j \in B : f[i] = f[j] => i = j
    BY <1>1, <1>2
  <2>3. \A n \in C : \E i \in B : f[i] = n
    OBVIOUS
  <2>4. f \in Bijection(B, C)
    BY <2>1, <2>2, <2>3 DEF Bijection, Injection, Surjection, IsInjective
  <2> QED BY <2>4 DEF ExistsBijection
<1>5. IsFiniteSet(C) /\ Cardinality(C) = Cardinality(B)
  BY <1>3, <1>4, FS_Bijection
<1>6. A \cap C = {}
  <2>1. \A n \in C : n > Len(q)
    BY <1>1, <1>2
  <2>2. \A n \in A : ~(n > Len(q))
    BY <1>1, <1>2
  <2> QED BY <2>1, <2>2
<1>7. /\ IsFiniteSet(A \cup C)
      /\ Cardinality(A \cup C) = Cardinality(A) + Cardinality(B)
  <2>1. Cardinality(A \cap C) = 0
    BY <1>6, FS_EmptySet
  <2>2. /\ IsFiniteSet(A \cup C)
        /\ Cardinality(A \cup C) = Cardinality(A) + Cardinality(C) - Cardinality(A \cap C)
    BY <1>3, <1>5, FS_Union
  <2>3. Cardinality(A) \in Nat /\ Cardinality(C) \in Nat
    BY <1>3, <1>5, FS_CardinalityType
  <2> QED BY <1>5, <2>1, <2>2, <2>3
<1>8. Places(q \o p, r) = A \cup C
  <2> DEFINE w == q \o p
  <2>1. /\ Len(w) = Len(q) + Len(p)
        /\ \A i \in 1..(Len(q) + Len(p)) : w[i] = IF i <= Len(q) THEN q[i] ELSE p[i - Len(q)]
    BY ConcatProperties
  <2> HIDE DEF w
  <2>2. ASSUME NEW i \in Places(w, r) PROVE i \in A \cup C
    <3>1. i \in 1..(Len(q) + Len(p)) /\ w[i].req = r
      BY <2>1 DEF Places
    <3>2. CASE i <= Len(q)
      <4>1. i \in 1..Len(q) /\ w[i] = q[i]
        BY <1>1, <2>1, <3>1, <3>2
      <4> QED BY <3>1, <4>1 DEF A, Places
    <3>3. CASE ~(i <= Len(q))
      <4>1. i - Len(q) \in 1..Len(p) /\ w[i] = p[i - Len(q)] /\ i = Len(q) + (i - Len(q))
        BY <1>1, <2>1, <3>1, <3>3
      <4>2. i - Len(q) \in B
        BY <3>1, <4>1 DEF B, Places
      <4> QED BY <4>1, <4>2
    <3> QED BY <3>2, <3>3
  <2>3. ASSUME NEW i \in A PROVE i \in Places(w, r)
    <3>1. i \in 1..(Len(q) + Len(p)) /\ i <= Len(q)
      BY <1>1, <1>2
    <3>2. q[i].req = r
      BY DEF A, Places
    <3> QED BY <2>1, <3>1, <3>2 DEF Places
  <2>4. ASSUME NEW i \in B PROVE Len(q) + i \in Places(w, r)
    <3>1. /\ Len(q) + i \in 1..(Len(q) + Len(p)) /\ ~(Len(q) + i <= Len(q))
          /\ (Len(q) + i) - Len(q) = i
      BY <1>1, <1>2
    <3>2. p[i].req = r
      BY DEF B, Places
    <3>3. w[Len(q) + i] = p[i]
      BY <2>1, <3>1
    <3> QED BY <2>1, <3>1, <3>2, <3>3 DEF Places
  <2>5. Places(w, r) = A \cup C
    BY <2>2, <2>3, <2>4
  <2> QED BY <2>5 DEF w
<1>9. A \cup C = {} <=> Cardinality(A \cup C) = 0
  BY <1>7, FS_EmptySet
<1>10. A \cup C = Both(q, p, r) /\ Count(q, r) = Cardinality(A) /\ Count(p, r) = Cardinality(B)
  BY DEF Both, Count, A, B
<1> QED BY <1>7, <1>8, <1>9, <1>10, Zenon

LEMMA CountConcat ==
  ASSUME NEW S, NEW q \in Seq(S), NEW p \in Seq(S), NEW r
  PROVE  Count(q \o p, r) = Count(q, r) + Count(p, r)
<1>1. /\ Cardinality(Both(q, p, r)) = Count(q, r) + Count(p, r)
      /\ Places(q \o p, r) = Both(q, p, r)
  BY TwoQueues
<1> QED BY <1>1 DEF Count

One(x, r) == IF x.req = r THEN 1 ELSE 0

LEMMA CountOne ==
  ASSUME NEW x, NEW r
  PROVE  Count(<<x>>, r) = One(x, r)
<1>1. Len(<<x>>) = 1 /\ <<x>>[1] = x
  OBVIOUS
<1>2. Places(<<x>>, r) = IF x.req = r THEN {1} ELSE {}
  <2>1. 1..1 = {1}
    OBVIOUS
  <2> QED BY <1>1, <2>1 DEF Places
<1> QED BY <1>2, FS_Singleton, FS_EmptySet DEF Count, One

LEMMA CountAppend ==
  ASSUME NEW S, NEW q \in Seq(S), NEW x \in S, NEW r
  PROVE  Count(Append(q, x), r) = Count(q, r) + One(x, r)
<1>1. <<x>> \in Seq(S)
  OBVIOUS
<1>2. Append(q, x) = q \o <<x>>
  BY AppendIsConcat
<1>3. Count(q \o <<x>>, r) = Count(q, r) + Count(<<x>>, r)
  BY <1>1, CountConcat
<1>4. Count(<<x>>, r) = One(x, r)
  BY CountOne
<1> QED BY <1>2, <1>3, <1>4

LEMMA CountRemoved ==
  ASSUME NEW S, NEW q \in Seq(S), NEW i \in 1..Len(q), NEW r
  PROVE  Count(RemoveAt(q, i), r) = Count(q, r) - One(q[i], r)
<1>1. PICK u, v \in Seq(S) : q = (u \o <<q[i]>>) \o v /\ RemoveAt(q, i) = u \o v
  <2>1. Parted(S, q, i)
    BY Removed
  <2> QED BY <2>1 DEF Parted
<1> DEFINE x == q[i]
<1>0. x \in S
  OBVIOUS
<1>2. <<x>> \in Seq(S)
  BY <1>0
<1> HIDE DEF x
<1>3. u \o <<x>> \in Seq(S)
  BY <1>2, ConcatProperties
<1>4. Count(q, r) = Count(u \o <<x>>, r) + Count(v, r)
  <2> DEFINE w == u \o <<x>>
  <2>1. q = w \o v
    BY <1>1 DEF x
  <2>2. w \in Seq(S)
    BY <1>3
  <2> HIDE DEF w
  <2>3. Count(w \o v, r) = Count(w, r) + Count(v, r)
    BY <2>2, CountConcat
  <2>4. Count(q, r) = Count(w, r) + Count(v, r)
    BY <2>1, <2>3, Zenon
  <2> QED BY <2>4 DEF w
<1>5. Count(u \o <<x>>, r) = Count(u, r) + Count(<<x>>, r)
  BY <1>2, CountConcat
<1>6. Count(<<x>>, r) = One(x, r)
  BY CountOne
<1>7. Count(RemoveAt(q, i), r) = Count(u, r) + Count(v, r)
  BY <1>1, CountConcat
<1>8. Count(u, r) \in Nat /\ Count(v, r) \in Nat /\ One(x, r) \in Nat
  BY PlacesFinite DEF One
<1>9. Count(RemoveAt(q, i), r) = Count(q, r) - One(x, r)
  BY <1>4, <1>5, <1>6, <1>7, <1>8
<1> QED BY <1>9 DEF x

LEMMA CountTail ==
  ASSUME NEW S, NEW q \in Seq(S), q # <<>>, NEW r
  PROVE  Count(Tail(q), r) = Count(q, r) - One(Head(q), r)
<1>1. Head(q) \in S /\ Tail(q) \in Seq(S) /\ <<Head(q)>> \in Seq(S)
  OBVIOUS
<1>2. q = <<Head(q)>> \o Tail(q)
  <2> DEFINE h == <<Head(q)>>
             w == h \o Tail(q)
  <2>1. Len(q) \in Nat \ {0} /\ Head(q) = q[1]
    OBVIOUS
  <2>2. Len(Tail(q)) = Len(q) - 1 /\ \A i \in 1..Len(Tail(q)) : Tail(q)[i] = q[i + 1]
    BY HeadTailProperties
  <2>3. Len(h) = 1 /\ h[1] = Head(q) /\ h \in Seq(S)
    BY <1>1
  <2> HIDE DEF h
  <2>4. /\ w \in Seq(S) /\ Len(w) = Len(h) + Len(Tail(q))
        /\ \A i \in 1..(Len(h) + Len(Tail(q))) :
             w[i] = IF i <= Len(h) THEN h[i] ELSE Tail(q)[i - Len(h)]
    BY <1>1, <2>3, ConcatProperties
  <2> HIDE DEF w
  <2>5. Len(q) = Len(w)
    BY <2>1, <2>2, <2>3, <2>4
  <2>6. ASSUME NEW i \in 1..Len(q) PROVE q[i] = w[i]
    <3>1. CASE i = 1
      BY <2>1, <2>2, <2>3, <2>4, <3>1
    <3>2. CASE i # 1
      <4>1. /\ i \in 1..(Len(h) + Len(Tail(q))) /\ ~(i <= Len(h))
            /\ i - Len(h) \in 1..Len(Tail(q)) /\ (i - Len(h)) + 1 = i
        BY <2>1, <2>2, <2>3, <3>2
      <4>2. w[i] = Tail(q)[i - Len(h)]
        BY <2>4, <4>1
      <4>3. Tail(q)[i - Len(h)] = q[(i - Len(h)) + 1]
        BY <2>2, <4>1
      <4> QED BY <4>1, <4>2, <4>3
    <3> QED BY <3>1, <3>2
  <2>7. q = w
    BY <2>4, <2>5, <2>6, SeqEqual
  <2> QED BY <2>7 DEF w, h
<1>3. Count(<<Head(q)>> \o Tail(q), r) = Count(<<Head(q)>>, r) + Count(Tail(q), r)
  BY <1>1, CountConcat
<1>4. Count(<<Head(q)>>, r) = One(Head(q), r)
  BY CountOne
<1>5. Count(Tail(q), r) \in Nat /\ One(Head(q), r) \in Nat
  BY <1>1, PlacesFinite DEF One
<1>6. Count(q, r) = One(Head(q), r) + Count(Tail(q), r)
  BY <1>2, <1>3, <1>4
<1> QED BY <1>5, <1>6

\* The packets of request r are packets, and all of them are its own.
LEMMA PacketFacts ==
  ASSUME NEW r \in Requests,
         NEW pieces \in Seq([addr : DOMAIN RankOf, bytes : SUBSET Nat])
  PROVE  /\ Packets(r, pieces) \in Seq(Packet)
         /\ Len(Packets(r, pieces)) = Len(pieces)
         /\ \A i \in 1..Len(pieces) : Packets(r, pieces)[i].addr = pieces[i].addr
         /\ \A q : Count(Packets(r, pieces), q) = IF q = r THEN Len(pieces) ELSE 0
<1> DEFINE t == Packets(r, pieces)
           m == Len(pieces)
<1>1. m \in Nat
  OBVIOUS
<1>2. \A i \in 1..m : pieces[i] \in [addr : DOMAIN RankOf, bytes : SUBSET Nat]
  BY ElementOfSeq
<1>3. /\ t \in [1..m -> Packet]
      /\ \A i \in 1..m : t[i].addr = pieces[i].addr /\ t[i].req = r
  BY <1>2 DEF Packets, Packet
<1> HIDE DEF t, m
<1>4. t \in Seq(Packet) /\ Len(t) = m
  BY <1>1, <1>3
<1>5. ASSUME NEW q PROVE Count(t, q) = IF q = r THEN m ELSE 0
  <2>1. CASE q = r
    <3>1. Places(t, q) = 1..m
      BY <1>3, <1>4, <2>1 DEF Places
    <3>2. Cardinality(1..m) = m
      <4>1. \A a, b \in Int : Cardinality(a..b) = IF a > b THEN 0 ELSE b - a + 1
        BY FS_Interval
      <4>2. 1 \in Int /\ m \in Int /\ (IF 1 > m THEN 0 ELSE m - 1 + 1) = m
        BY <1>1
      <4> QED BY <4>1, <4>2
    <3> QED BY <2>1, <3>1, <3>2 DEF Count
  <2>2. CASE q # r
    <3>1. Places(t, q) = {}
      BY <1>3, <1>4, <2>2 DEF Places
    <3> QED BY <2>2, <3>1, FS_EmptySet DEF Count
  <2> QED BY <2>1, <2>2
<1> QED BY <1>3, <1>4, <1>5 DEF t, m

-----------------------------------------------------------------------------
(* The burst addresses of a queue                                          *)

Addrs(q) == {w.addr : w \in ToSet(q)}

Distinct(q) == \A i, j \in 1..Len(q) : q[i].addr = q[j].addr => i = j

LEMMA AddrsAt ==
  ASSUME NEW S, NEW q \in Seq(S)
  PROVE  \A a : a \in Addrs(q) <=> \E i \in 1..Len(q) : q[i].addr = a
<1>1. DOMAIN q = 1..Len(q)
  OBVIOUS
<1> QED BY <1>1 DEF Addrs, ToSet

LEMMA AddrsConcat ==
  ASSUME NEW S, NEW q \in Seq(S), NEW t \in Seq(S)
  PROVE  /\ Addrs(q \o t) = Addrs(q) \cup Addrs(t)
         /\ Distinct(q) /\ Distinct(t) /\ Addrs(q) \cap Addrs(t) = {} => Distinct(q \o t)
<1> DEFINE w == q \o t
<1>1. /\ w \in Seq(S) /\ Len(w) = Len(q) + Len(t)
      /\ \A i \in 1..(Len(q) + Len(t)) : w[i] = IF i <= Len(q) THEN q[i] ELSE t[i - Len(q)]
  BY ConcatProperties
<1>2. Len(q) \in Nat /\ Len(t) \in Nat
  OBVIOUS
<1> HIDE DEF w
<1>3. /\ \A i \in 1..Len(q) : i \in 1..Len(w) /\ w[i] = q[i]
      /\ \A i \in 1..Len(t) : Len(q) + i \in 1..Len(w) /\ w[Len(q) + i] = t[i]
  <2>1. ASSUME NEW i \in 1..Len(q) PROVE i \in 1..Len(w) /\ w[i] = q[i]
    <3>1. i \in 1..(Len(q) + Len(t)) /\ i <= Len(q)
      BY <1>2
    <3> QED BY <1>1, <3>1
  <2>2. ASSUME NEW i \in 1..Len(t) PROVE Len(q) + i \in 1..Len(w) /\ w[Len(q) + i] = t[i]
    <3>1. /\ Len(q) + i \in 1..(Len(q) + Len(t)) /\ ~(Len(q) + i <= Len(q))
          /\ (Len(q) + i) - Len(q) = i
      BY <1>2
    <3> QED BY <1>1, <3>1
  <2> QED BY <2>1, <2>2
<1>4. ASSUME NEW i \in 1..Len(w)
      PROVE  \/ i \in 1..Len(q) /\ w[i] = q[i]
             \/ /\ i - Len(q) \in 1..Len(t) /\ w[i] = t[i - Len(q)]
                /\ ~(i \in 1..Len(q)) /\ i = Len(q) + (i - Len(q))
  <2>1. i \in 1..(Len(q) + Len(t))
    BY <1>1
  <2>2. CASE i <= Len(q)
    <3>1. i \in 1..Len(q)
      BY <1>2, <2>1, <2>2
    <3> QED BY <1>3, <3>1
  <2>3. CASE ~(i <= Len(q))
    <3>1. /\ i - Len(q) \in 1..Len(t)
          /\ ~(i \in 1..Len(q)) /\ i = Len(q) + (i - Len(q))
      BY <1>2, <2>1, <2>3
    <3> QED BY <1>1, <2>1, <2>3, <3>1
  <2> QED BY <2>2, <2>3
<1>5. /\ \A a : a \in Addrs(w) <=> \E i \in 1..Len(w) : w[i].addr = a
      /\ \A a : a \in Addrs(q) <=> \E i \in 1..Len(q) : q[i].addr = a
      /\ \A a : a \in Addrs(t) <=> \E i \in 1..Len(t) : t[i].addr = a
  BY <1>1, AddrsAt
<1>6. Addrs(w) = Addrs(q) \cup Addrs(t)
  <2>1. ASSUME NEW a \in Addrs(w) PROVE a \in Addrs(q) \cup Addrs(t)
    <3>1. PICK i \in 1..Len(w) : w[i].addr = a
      BY <1>5
    <3> QED BY <1>4, <1>5, <3>1
  <2>2. ASSUME NEW a \in Addrs(q) PROVE a \in Addrs(w)
    BY <1>3, <1>5
  <2>3. ASSUME NEW a \in Addrs(t) PROVE a \in Addrs(w)
    BY <1>3, <1>5
  <2> QED BY <2>1, <2>2, <2>3
<1>7. ASSUME Distinct(q), Distinct(t), Addrs(q) \cap Addrs(t) = {} PROVE Distinct(w)
  <2> SUFFICES ASSUME NEW i \in 1..Len(w), NEW j \in 1..Len(w), w[i].addr = w[j].addr
               PROVE  i = j
    BY DEF Distinct
  <2>1. CASE i \in 1..Len(q) /\ j \in 1..Len(q)
    BY <1>3, <1>7, <2>1 DEF Distinct
  <2>2. CASE i \notin 1..Len(q) /\ j \notin 1..Len(q)
    <3>1. /\ i - Len(q) \in 1..Len(t) /\ w[i] = t[i - Len(q)]
          /\ j - Len(q) \in 1..Len(t) /\ w[j] = t[j - Len(q)]
          /\ i = Len(q) + (i - Len(q)) /\ j = Len(q) + (j - Len(q))
      BY <1>4, <2>2
    <3>2. i - Len(q) = j - Len(q)
      BY <1>7, <3>1 DEF Distinct
    <3> QED BY <3>1, <3>2
  <2>3. CASE i \in 1..Len(q) /\ j \notin 1..Len(q)
    <3>1. w[i] = q[i] /\ j - Len(q) \in 1..Len(t) /\ w[j] = t[j - Len(q)]
      BY <1>3, <1>4, <2>3
    <3> QED BY <1>5, <1>7, <2>3, <3>1
  <2>4. CASE i \notin 1..Len(q) /\ j \in 1..Len(q)
    <3>1. w[j] = q[j] /\ i - Len(q) \in 1..Len(t) /\ w[i] = t[i - Len(q)]
      BY <1>3, <1>4, <2>4
    <3> QED BY <1>5, <1>7, <2>4, <3>1
  <2> QED BY <2>1, <2>2, <2>3, <2>4
<1> QED BY <1>6, <1>7 DEF w

LEMMA AddrsRemoved ==
  ASSUME NEW S, NEW q \in Seq(S), Distinct(q), NEW i \in 1..Len(q)
  PROVE  /\ Addrs(RemoveAt(q, i)) = Addrs(q) \ {q[i].addr}
         /\ Distinct(RemoveAt(q, i))
<1> DEFINE w == RemoveAt(q, i)
           to(j) == IF j < i THEN j ELSE j + 1
<1>1. /\ w \in Seq(S) /\ Len(w) = Len(q) - 1
      /\ \A j \in 1..(Len(q) - 1) : w[j] = IF j < i THEN q[j] ELSE q[j + 1]
  BY Removed
<1>2. Len(q) \in Nat /\ i \in Nat /\ 1 <= i /\ i <= Len(q)
  OBVIOUS
<1> HIDE DEF w
<1>3. \A j \in 1..Len(w) : to(j) \in 1..Len(q) /\ to(j) # i /\ w[j] = q[to(j)]
  <2>1. ASSUME NEW j \in 1..Len(w) PROVE to(j) \in 1..Len(q) /\ to(j) # i
    BY <1>1, <1>2
  <2> QED BY <1>1, <2>1
<1>4. \A j, k \in 1..Len(w) : to(j) = to(k) => j = k
  BY <1>1, <1>2
<1>5. ASSUME NEW k \in 1..Len(q), k # i PROVE \E j \in 1..Len(w) : to(j) = k
  <2>1. CASE k < i
    <3>1. k \in 1..Len(w) /\ to(k) = k
      BY <1>1, <1>2, <2>1
    <3> QED BY <3>1
  <2>2. CASE k > i
    <3>1. k - 1 \in 1..Len(w) /\ to(k - 1) = k
      BY <1>1, <1>2, <2>2
    <3> QED BY <3>1
  <2>3. k < i \/ k > i
    BY <1>2, <1>5
  <2> QED BY <2>1, <2>2, <2>3
<1> HIDE DEF to
<1>6. /\ \A a : a \in Addrs(w) <=> \E j \in 1..Len(w) : w[j].addr = a
      /\ \A a : a \in Addrs(q) <=> \E j \in 1..Len(q) : q[j].addr = a
  BY <1>1, AddrsAt
<1>7. Addrs(w) = Addrs(q) \ {q[i].addr}
  <2>1. ASSUME NEW a \in Addrs(w) PROVE a \in Addrs(q) /\ a # q[i].addr
    <3>1. PICK j \in 1..Len(w) : w[j].addr = a
      BY <1>6
    <3>2. to(j) \in 1..Len(q) /\ to(j) # i /\ q[to(j)].addr = a
      BY <1>3, <3>1
    <3> QED BY <1>6, <3>2 DEF Distinct
  <2>2. ASSUME NEW a \in Addrs(q), a # q[i].addr PROVE a \in Addrs(w)
    <3>1. PICK k \in 1..Len(q) : q[k].addr = a
      BY <1>6
    <3>2. PICK j \in 1..Len(w) : to(j) = k
      BY <1>5, <2>2, <3>1
    <3> QED BY <1>3, <1>6, <3>1, <3>2
  <2> QED BY <2>1, <2>2
<1>8. Distinct(w)
  <2> SUFFICES ASSUME NEW j \in 1..Len(w), NEW k \in 1..Len(w), w[j].addr = w[k].addr
               PROVE  j = k
    BY DEF Distinct
  <2>1. to(j) = to(k)
    BY <1>3 DEF Distinct
  <2> QED BY <1>4, <2>1
<1> QED BY <1>7, <1>8 DEF w

\* As many addresses as packets.
LEMMA AddrsCounted ==
  ASSUME NEW S, NEW q \in Seq(S), Distinct(q)
  PROVE  Cardinality(Addrs(q)) = Len(q)
<1> DEFINE f == [i \in 1..Len(q) |-> q[i].addr]
<1>1. \A a : a \in Addrs(q) <=> \E i \in 1..Len(q) : q[i].addr = a
  BY AddrsAt
<1>2. f \in [1..Len(q) -> Addrs(q)]
  BY <1>1
<1>3. \A i, j \in 1..Len(q) : f[i] = f[j] => i = j
  BY DEF Distinct
<1>4. \A a \in Addrs(q) : \E i \in 1..Len(q) : f[i] = a
  BY <1>1
<1>5. f \in Bijection(1..Len(q), Addrs(q))
  BY <1>2, <1>3, <1>4 DEF Bijection, Injection, Surjection, IsInjective
<1>6. Len(q) \in Nat
  OBVIOUS
<1>7. ExistsBijection(1..Len(q), Addrs(q))
  BY <1>5 DEF ExistsBijection
<1> QED BY <1>6, <1>7, FS_CountingElements

-----------------------------------------------------------------------------
(* The inductive invariant                                                 *)

Piece == [addr : DOMAIN RankOf, bytes : SUBSET Nat]

\* The bursts of r that were not answered yet.
Pending(r) == Count(readQueue, r) + Count(respQueue, r)

Fits ==
  /\ Len(readQueue) + Len(respQueue) <= ReadBufferSize
  /\ Len(writeQueue) <= WriteBufferSize
  /\ respondEvent <=> respQueue # <<>>

Written == isInWriteQueue = Addrs(writeQueue) /\ Distinct(writeQueue)

Counted ==
  \A r \in Requests :
     IF status[r] = "accepted"
     THEN Pending(r) > 0 /\ serviced[r] + Pending(r) = Len(Pieces[r])
     ELSE Pending(r) = 0

\* The port waits with one request at a time.
OneRefused ==
  \A q, r \in Requests : status[q] = "refused" /\ status[r] = "refused" => q = r

IInv ==
  TypeOK /\ Fits /\ Written /\ Counted /\ OneRefused /\ NeverSleepsOnWork /\ RetryRemembered

LEMMA SizeFacts ==
  /\ ReadBufferSize \in Nat /\ WriteBufferSize \in Nat
  /\ WriteHighThreshold \in Nat /\ WriteLowThreshold \in Nat
BY SizeAssumption

LEMMA RankFacts ==
  /\ 0 \in Ranks
  /\ \A a \in DOMAIN RankOf : RankOf[a] \in Ranks
BY RequestAssumption DEF Ranks

LEMMA PieceFacts ==
  ASSUME NEW r \in Requests
  PROVE  /\ Pieces[r] \in Seq(Piece) /\ Len(Pieces[r]) \in Nat \ {0}
         /\ DOMAIN Pieces[r] = 1..Len(Pieces[r])
         /\ Distinct(Pieces[r])
<1>1. Pieces[r] \in Seq(Piece) /\ Len(Pieces[r]) > 0
  BY RequestAssumption DEF Piece
<1>2. Distinct(Pieces[r])
  BY RequestAssumption DEF Distinct
<1> QED BY <1>1, <1>2, LenProperties

Among(t, q, I) == \A i \in 1..Len(t) : \E j \in I : t[i] = q[j]

\* What a request brings to a queue: different pieces of it.
LEMMA SiftedPieces ==
  ASSUME NEW r \in Requests, NEW I \in SUBSET (DOMAIN Pieces[r]),
         NEW t, t = Sift(Pieces[r], I)
  PROVE  /\ t \in Seq(Piece) /\ Len(t) \in Nat /\ Len(t) <= Len(Pieces[r])
         /\ Distinct(t)
         /\ Among(t, Pieces[r], I)
<1> DEFINE q == Pieces[r]
<1>1. q \in Seq(Piece) /\ DOMAIN q = 1..Len(q) /\ Distinct(q)
  BY PieceFacts
<1>2. I \in SUBSET (1..Len(q))
  BY <1>1
<1> HIDE DEF q
<1>3. t \in Seq(Piece) /\ Len(t) <= Len(q) /\ Picked(t, q, I)
  <2>1. t = Sift(q, I)
    BY DEF q
  <2>2. /\ Sift(q, I) \in Seq(Piece) /\ Len(Sift(q, I)) <= Len(q)
        /\ Picked(Sift(q, I), q, I)
    BY <1>1, <1>2, Sifted, Zenon
  <2> QED BY <2>1, <2>2, Zenon
<1>4. PICK g \in [1..Len(t) -> I] :
           /\ \A n \in 1..Len(t) : t[n] = q[g[n]]
           /\ \A n, p \in 1..Len(t) : g[n] = g[p] => n = p
  BY <1>3, Zenon DEF Picked
<1>5. \A n \in 1..Len(t) : g[n] \in I /\ g[n] \in 1..Len(q)
  BY <1>2
<1>6. Distinct(t)
  BY <1>1, <1>4, <1>5 DEF Distinct
<1>7. Len(t) \in Nat
  BY <1>3
<1>8. Among(t, q, I)
  BY <1>4, <1>5 DEF Among
<1> QED BY <1>3, <1>6, <1>7, <1>8 DEF q

LEMMA InvInit == Init => IInv
<1> SUFFICES ASSUME Init PROVE IInv
  OBVIOUS
<1>1. <<>> \in Seq(Packet) /\ Len(<<>>) = 0
  BY EmptySeq
<1>2. TypeOK
  <2>1. status \in [Requests -> {"unsent", "new", "refused", "again", "accepted", "answered"}]
    BY DEF Init
  <2>2. /\ readQueue \in Seq(Packet) /\ writeQueue \in Seq(Packet) /\ respQueue \in Seq(Packet)
        /\ isInWriteQueue \subseteq DOMAIN RankOf
    BY <1>1 DEF Init
  <2>3. /\ serviced \in [Requests -> Nat] /\ writesThisTime \in Nat
        /\ {busState, busStateNext} \subseteq {"READ", "WRITE"}
        /\ nextReqEvent \in {"none", "now", "later"}
        /\ drainState \in {"Running", "Draining", "Drained"}
    BY DEF Init
  <2>4. {respondEvent, retryRdReq, retryWrReq} \subseteq BOOLEAN
    BY DEF Init
  <2>5. /\ refreshState \in [Ranks -> {"REF_IDLE", "REF_DRAIN", "REF_RUN"}]
        /\ banksOpen \in [Ranks -> BOOLEAN] /\ activeRank \in Ranks /\ due \subseteq Ranks
    BY RankFacts DEF Init
  <2> QED BY <2>1, <2>2, <2>3, <2>4, <2>5 DEF TypeOK
<1>3. Fits
  BY <1>1, SizeFacts DEF Init, Fits
<1>4. Written
  <2>1. 1..Len(<<>>) = {}
    BY <1>1
  <2>2. \A a : a \in Addrs(<<>>) <=> \E i \in 1..Len(<<>>) : <<>>[i].addr = a
    BY <1>1, AddrsAt, Zenon
  <2>3. Addrs(<<>>) = {}
    BY <2>1, <2>2, Zenon
  <2>4. Distinct(<<>>)
    BY <2>1, Zenon DEF Distinct
  <2> QED BY <2>3, <2>4 DEF Init, Written
<1>5. \A r : Count(<<>>, r) = 0
  <2>1. 1..Len(<<>>) = {}
    BY <1>1
  <2>2. \A r : Places(<<>>, r) = {}
    BY <2>1, Zenon DEF Places
  <2> QED BY <2>2, FS_EmptySet, Zenon DEF Count
<1>6. \A r \in Requests : status[r] # "accepted" /\ status[r] # "refused"
  BY DEF Init
<1>7. Counted
  BY <1>5, <1>6 DEF Init, Counted, Pending
<1>8. OneRefused
  BY <1>6 DEF OneRefused
<1>9. NeverSleepsOnWork
  BY <1>1, SizeFacts DEF Init, NeverSleepsOnWork
<1>10. RetryRemembered
  <2>1. Writes \subseteq Requests
    BY RequestAssumption
  <2> QED BY <1>6, <2>1 DEF Init, RetryRemembered
<1> QED BY <1>2, <1>3, <1>4, <1>7, <1>8, <1>9, <1>10 DEF IInv

\* Steps that leave the queues and the requests alone.
LEMMA QueuesKept ==
  ASSUME IInv,
         UNCHANGED <<status, queueVars, respondEvent, retryRdReq, retryWrReq>>
  PROVE  Fits' /\ Written' /\ Counted' /\ OneRefused' /\ RetryRemembered'
<1>1. Fits' /\ Written'
  BY DEF IInv, Fits, Written, queueVars
<1>2. Counted'
  BY DEF IInv, Counted, Pending, queueVars
<1> QED BY <1>1, <1>2 DEF IInv, OneRefused, RetryRemembered

LEMMA CountedKept ==
  ASSUME Counted, UNCHANGED <<readQueue, respQueue, serviced>>,
         \A q \in Requests : status'[q] = "accepted" <=> status[q] = "accepted"
  PROVE  Counted'
BY DEF Counted, Pending

LEMMA AwakeKept ==
  ASSUME NeverSleepsOnWork, UNCHANGED <<refreshState, busStateNext>>,
         \/ nextReqEvent' # "none"
         \/ UNCHANGED <<nextReqEvent, readQueue, writeQueue>>,
         writeQueue # <<>> => writeQueue' # <<>>
  PROVE  NeverSleepsOnWork'
BY DEF NeverSleepsOnWork

-----------------------------------------------------------------------------
(* Requests from the port                                                  *)

\* What a request adds to a queue: packets of its own, no more than it has
\* pieces, with the addresses of the pieces at the positions I.
Adds(r, t, I) ==
  /\ Packets(r, t) \in Seq(Packet)
  /\ Len(Packets(r, t)) = Len(t)
  /\ Len(t) \in Nat /\ Len(t) <= Len(Pieces[r])
  /\ t = <<>> <=> Len(t) = 0
  /\ \A q : Count(Packets(r, t), q) = IF q = r THEN Len(t) ELSE 0
  /\ Addrs(Packets(r, t)) = Addrs(t)
  /\ Distinct(Packets(r, t))
  /\ \A a \in Addrs(t) : \E j \in I : a = Pieces[r][j].addr
  /\ Addrs(t) \subseteq DOMAIN RankOf

LEMMA NewPackets ==
  ASSUME NEW r \in Requests, NEW I \in SUBSET (DOMAIN Pieces[r]),
         NEW t, t = Sift(Pieces[r], I)
  PROVE  Adds(r, t, I)
<1> DEFINE w == Packets(r, t)
<1>1. /\ t \in Seq(Piece) /\ Len(t) \in Nat /\ Len(t) <= Len(Pieces[r])
      /\ Distinct(t) /\ Among(t, Pieces[r], I)
  BY SiftedPieces
<1>2. /\ w \in Seq(Packet) /\ Len(w) = Len(t)
      /\ \A i \in 1..Len(t) : w[i].addr = t[i].addr
      /\ \A q : Count(w, q) = IF q = r THEN Len(t) ELSE 0
  <2>1. t \in Seq([addr : DOMAIN RankOf, bytes : SUBSET Nat])
    BY <1>1 DEF Piece
  <2> QED BY <2>1, PacketFacts, Zenon
<1> HIDE DEF w
<1>3. t = <<>> <=> Len(t) = 0
  BY <1>1, EmptySeq
<1>4. /\ \A a : a \in Addrs(w) <=> \E i \in 1..Len(w) : w[i].addr = a
      /\ \A a : a \in Addrs(t) <=> \E i \in 1..Len(t) : t[i].addr = a
  BY <1>1, <1>2, AddrsAt
<1>5. Addrs(w) = Addrs(t)
  <2>1. \A a : a \in Addrs(w) <=> a \in Addrs(t)
    BY <1>2, <1>4
  <2> QED BY <2>1
<1>6. Distinct(w)
  BY <1>1, <1>2 DEF Distinct
<1>7. \A a \in Addrs(t) : \E j \in I : a = Pieces[r][j].addr
  BY <1>1, <1>4 DEF Among
<1>8. Addrs(t) \subseteq DOMAIN RankOf
  <2>1. \A i \in 1..Len(t) : t[i] \in Piece
    BY <1>1, ElementOfSeq
  <2> QED BY <1>4, <2>1 DEF Piece
<1> QED BY <1>1, <1>2, <1>3, <1>5, <1>6, <1>7, <1>8, Zenon DEF w, Adds

\* One queue behind another.
LEMMA Joined ==
  ASSUME NEW S, NEW q \in Seq(S), NEW t \in Seq(S)
  PROVE  /\ q \o t \in Seq(S) /\ Len(q \o t) = Len(q) + Len(t)
         /\ Len(q) \in Nat /\ Len(t) \in Nat
         /\ q # <<>> => q \o t # <<>>
<1>1. q \o t \in Seq(S) /\ Len(q \o t) = Len(q) + Len(t)
  BY ConcatProperties
<1>2. Len(q) \in Nat /\ Len(t) \in Nat
  BY LenProperties
<1>3. (q = <<>> <=> Len(q) = 0) /\ (q \o t = <<>> <=> Len(q \o t) = 0)
  BY <1>1, EmptySeq
<1>4. q # <<>> => q \o t # <<>>
  BY <1>1, <1>2, <1>3
<1> QED BY <1>1, <1>2, <1>4

\* The port sends only while nothing is refused, and then no flag is up.
LEMMA Sendable ==
  ASSUME IInv, NEW r \in Requests, recvTimingReq(r)
  PROVE  /\ retryRdReq = FALSE /\ retryWrReq = FALSE
         /\ \A q \in Requests : status[q] # "refused"
         /\ status[r] # "accepted" /\ Pending(r) = 0
<1>1. /\ \A q \in Requests : status[q] # "refused"
      /\ status[r] # "accepted"
  BY DEF recvTimingReq
<1>2. Writes \subseteq Requests
  BY RequestAssumption
<1>3. ~retryRdReq /\ ~retryWrReq
  BY <1>1, <1>2 DEF IInv, RetryRemembered
<1>4. retryRdReq \in BOOLEAN /\ retryWrReq \in BOOLEAN
  BY DEF IInv, TypeOK
<1>5. Pending(r) = 0
  BY <1>1, Zenon DEF IInv, Counted
<1> QED BY <1>1, <1>3, <1>4, <1>5

\* A refused request of either kind.
LEMMA RefusedInv ==
  ASSUME IInv, NEW r \in Requests, recvTimingReq(r),
         status' = [status EXCEPT ![r] = "refused"],
         \/ r \notin Writes /\ retryRdReq' = TRUE /\ retryWrReq' = FALSE
         \/ r \in Writes /\ retryRdReq' = FALSE /\ retryWrReq' = TRUE,
         UNCHANGED <<queueVars, nextReqEvent>>
  PROVE  IInv'
<1> USE DEF queueVars, busVars, rankVars
<1>1. /\ \A q \in Requests : status[q] # "refused"
      /\ status[r] # "accepted"
  BY Sendable
<1>2. UNCHANGED <<respondEvent, busVars, drainState, rankVars>>
  BY DEF recvTimingReq
<1>3. /\ status' \in [Requests -> {"unsent", "new", "refused", "again", "accepted", "answered"}]
      /\ \A q \in Requests : status'[q] = IF q = r THEN "refused" ELSE status[q]
  BY DEF IInv, TypeOK
<1>4. TypeOK'
  <2>1. {respondEvent', retryRdReq', retryWrReq'} \subseteq BOOLEAN
    <3>1. respondEvent' \in BOOLEAN
      BY <1>2 DEF IInv, TypeOK
    <3>2. retryRdReq' \in BOOLEAN /\ retryWrReq' \in BOOLEAN
      OBVIOUS
    <3> QED BY <3>1, <3>2
  <2> QED BY <1>2, <1>3, <2>1 DEF IInv, TypeOK
<1>5. Fits' /\ Written'
  BY <1>2 DEF IInv, Fits, Written
<1>6. Counted'
  <2>1. \A q \in Requests : status'[q] = "accepted" <=> status[q] = "accepted"
    BY <1>1, <1>3
  <2> QED BY <2>1, CountedKept DEF IInv
<1>7. OneRefused'
  BY <1>1, <1>3 DEF OneRefused
<1>8. NeverSleepsOnWork'
  BY <1>2, AwakeKept DEF IInv
<1>9. RetryRemembered'
  <2>1. Writes \subseteq Requests
    BY RequestAssumption
  <2>2. \A q \in Requests : status'[q] = "refused" <=> q = r
    BY <1>1, <1>3
  <2> QED BY <2>1, <2>2 DEF RetryRemembered
<1> QED BY <1>4, <1>5, <1>6, <1>7, <1>8, <1>9 DEF IInv

\* A request that is taken raises no flag and is not refused.
LEMMA TakenFlags ==
  ASSUME IInv, NEW r \in Requests, recvTimingReq(r), NEW s,
         s \in {"accepted", "answered"},
         status' = [status EXCEPT ![r] = s], UNCHANGED <<retryRdReq, retryWrReq>>
  PROVE  /\ status' \in [Requests -> {"unsent", "new", "refused", "again",
                                      "accepted", "answered"}]
         /\ \A q \in Requests : status'[q] = IF q = r THEN s ELSE status[q]
         /\ OneRefused' /\ RetryRemembered'
<1>1. /\ \A q \in Requests : status[q] # "refused"
      /\ retryRdReq = FALSE /\ retryWrReq = FALSE
  BY Sendable
<1>2. /\ status' \in [Requests -> {"unsent", "new", "refused", "again",
                                   "accepted", "answered"}]
      /\ \A q \in Requests : status'[q] = IF q = r THEN s ELSE status[q]
  BY DEF IInv, TypeOK
<1>3. \A q \in Requests : status'[q] # "refused"
  BY <1>1, <1>2
<1>4. Writes \subseteq Requests
  BY RequestAssumption
<1>5. OneRefused' /\ RetryRemembered'
  BY <1>1, <1>3, <1>4 DEF OneRefused, RetryRemembered
<1> QED BY <1>2, <1>5

\* Kicked() leaves a scheduled event alone and schedules one otherwise.
LEMMA KickedFacts ==
  ASSUME NEW ev \in {"none", "now", "later"}
  PROVE  /\ Kicked(ev) \in {"now", "later"}
         /\ ev # "none" => Kicked(ev) = ev
BY DEF Kicked

\* A read that finds all its data in the write queue is answered at once.
LEMMA ReadFoundInv ==
  ASSUME IInv, NEW r \in Requests, recvTimingReq(r),
         status' = [status EXCEPT ![r] = "answered"],
         UNCHANGED <<queueVars, nextReqEvent, retryRdReq, retryWrReq>>
  PROVE  IInv'
<1> USE DEF queueVars, busVars, rankVars
<1>1. UNCHANGED <<respondEvent, busVars, drainState, rankVars>>
  BY DEF recvTimingReq
<1>2. status[r] # "accepted"
  BY Sendable
<1>3. /\ status' \in [Requests -> {"unsent", "new", "refused", "again", "accepted", "answered"}]
      /\ \A q \in Requests : status'[q] = IF q = r THEN "answered" ELSE status[q]
      /\ OneRefused' /\ RetryRemembered'
  BY TakenFlags
<1>4. TypeOK'
  BY <1>1, <1>3 DEF IInv, TypeOK
<1>5. Fits' /\ Written'
  BY <1>1 DEF IInv, Fits, Written
<1>6. Counted'
  <2>1. \A q \in Requests : status'[q] = "accepted" <=> status[q] = "accepted"
    BY <1>2, <1>3
  <2> QED BY <2>1, CountedKept DEF IInv
<1>7. NeverSleepsOnWork'
  BY <1>1, AwakeKept DEF IInv
<1> QED BY <1>3, <1>4, <1>5, <1>6, <1>7 DEF IInv

\* The packets that join the read queue are pending.
LEMMA ReadQueued ==
  ASSUME IInv, NEW r \in Requests, NEW t,
         Packets(r, t) \in Seq(Packet), Len(t) \in Nat,
         \A q : Count(Packets(r, t), q) = IF q = r THEN Len(t) ELSE 0,
         readQueue' = readQueue \o Packets(r, t), UNCHANGED respQueue
  PROVE  \A q : /\ Pending(q) \in Nat
               /\ Pending(q)' = Pending(q) + (IF q = r THEN Len(t) ELSE 0)
<1> TAKE q
<1>1. readQueue \in Seq(Packet) /\ respQueue \in Seq(Packet)
  BY DEF IInv, TypeOK
<1>2. Count(readQueue', q) = Count(readQueue, q) + Count(Packets(r, t), q)
  BY <1>1, CountConcat
<1>3. Count(readQueue, q) \in Nat /\ Count(respQueue, q) \in Nat
  BY <1>1, PlacesFinite
<1> QED BY <1>2, <1>3 DEF Pending

\* A read whose missing bursts go to the read queue.
LEMMA ReadQueuedInv ==
  ASSUME IInv, NEW r \in Requests, recvTimingReq(r),
         NEW I \in SUBSET (DOMAIN Pieces[r]), NEW t, t = Sift(Pieces[r], I), t # <<>>,
         ~readQueueFull(Len(Pieces[r])),
         status' = [status EXCEPT ![r] = "accepted"],
         readQueue' = readQueue \o Packets(r, t),
         serviced' = [serviced EXCEPT ![r] = Len(Pieces[r]) - Len(t)],
         nextReqEvent' = Kicked(nextReqEvent),
         UNCHANGED <<writeQueue, isInWriteQueue, retryRdReq, retryWrReq>>
  PROVE  IInv'
<1> USE DEF busVars, rankVars
<1>1. UNCHANGED <<respQueue, respondEvent, busVars, drainState, rankVars>>
  BY DEF recvTimingReq
<1>2. Pending(r) = 0
  BY Sendable
<1>3. /\ status' \in [Requests -> {"unsent", "new", "refused", "again", "accepted", "answered"}]
      /\ \A q \in Requests : status'[q] = IF q = r THEN "accepted" ELSE status[q]
      /\ OneRefused' /\ RetryRemembered'
  BY TakenFlags
<1>4. /\ Packets(r, t) \in Seq(Packet) /\ Len(Packets(r, t)) = Len(t)
      /\ Len(t) \in Nat /\ Len(t) <= Len(Pieces[r]) /\ Len(t) # 0
      /\ \A q : Count(Packets(r, t), q) = IF q = r THEN Len(t) ELSE 0
  <2>1. Adds(r, t, I)
    BY NewPackets
  <2> QED BY <2>1, Zenon DEF Adds
<1>5. Len(Pieces[r]) \in Nat
  BY PieceFacts
<1>6. /\ readQueue \in Seq(Packet) /\ respQueue \in Seq(Packet)
      /\ Len(readQueue) \in Nat /\ Len(respQueue) \in Nat
  <2>1. readQueue \in Seq(Packet) /\ respQueue \in Seq(Packet)
    BY DEF IInv, TypeOK
  <2> QED BY <2>1, LenProperties
<1>7. readQueue' \in Seq(Packet) /\ Len(readQueue') = Len(readQueue) + Len(t)
  <2> DEFINE w == readQueue \o Packets(r, t)
  <2>1. w \in Seq(Packet) /\ Len(w) = Len(readQueue) + Len(Packets(r, t))
    BY <1>4, <1>6, Joined
  <2>2. readQueue' = w
    OBVIOUS
  <2> HIDE DEF w
  <2> QED BY <1>4, <2>1, <2>2, Zenon
<1>8. nextReqEvent' \in {"now", "later"}
  BY KickedFacts DEF IInv, TypeOK
<1>9. TypeOK'
  <2>1. serviced' \in [Requests -> Nat]
    <3>1. Len(Pieces[r]) - Len(t) \in Nat
      BY <1>4, <1>5
    <3> QED BY <3>1 DEF IInv, TypeOK
  <2> QED BY <1>1, <1>3, <1>7, <1>8, <2>1 DEF IInv, TypeOK
<1>10. Fits'
  <2>1. ~(Len(readQueue) + Len(respQueue) + Len(Pieces[r]) > ReadBufferSize)
    BY Zenon DEF readQueueFull
  <2>2. (Len(readQueue) + Len(t)) + Len(respQueue) <= ReadBufferSize
    <3>1. \A a, b, c, d, n \in Nat : ~(a + b + d > n) /\ c <= d => (a + c) + b <= n
      OBVIOUS
    <3> QED BY <1>4, <1>5, <1>6, <2>1, <3>1, SizeFacts, Zenon
  <2>3. Len(readQueue') + Len(respQueue') <= ReadBufferSize
    BY <1>1, <1>7, <2>2, Zenon
  <2> QED BY <1>1, <2>3 DEF IInv, Fits
<1>11. Written'
  BY DEF IInv, Written
<1>12. Counted'
  <2> SUFFICES ASSUME NEW q \in Requests
               PROVE  IF status'[q] = "accepted"
                      THEN Pending(q)' > 0 /\ serviced'[q] + Pending(q)' = Len(Pieces[q])
                      ELSE Pending(q)' = 0
    BY DEF Counted
  <2>1. Pending(q) \in Nat /\ Pending(q)' = Pending(q) + (IF q = r THEN Len(t) ELSE 0)
    BY <1>1, <1>4, ReadQueued
  <2>2. CASE q = r
    <3>1. Pending(q)' = Len(t) /\ status'[q] = "accepted"
      BY <1>2, <1>3, <1>4, <2>1, <2>2
    <3>2. serviced'[q] = Len(Pieces[r]) - Len(t)
      BY <2>2 DEF IInv, TypeOK
    <3>3. Len(t) > 0 /\ (Len(Pieces[r]) - Len(t)) + Len(t) = Len(Pieces[r])
      BY <1>4, <1>5
    <3> QED BY <2>2, <3>1, <3>2, <3>3, Zenon
  <2>3. CASE q # r
    <3>1. Pending(q)' = Pending(q)
      BY <2>1, <2>3
    <3>2. serviced'[q] = serviced[q] /\ status'[q] = status[q]
      BY <1>3, <2>3 DEF IInv, TypeOK
    <3>3. IF status[q] = "accepted"
          THEN Pending(q) > 0 /\ serviced[q] + Pending(q) = Len(Pieces[q])
          ELSE Pending(q) = 0
      BY DEF IInv, Counted
    <3> HIDE DEF Pending
    <3> QED BY <3>1, <3>2, <3>3
  <2> QED BY <2>2, <2>3
<1>13. NeverSleepsOnWork'
  BY <1>1, <1>8, AwakeKept DEF IInv
<1> QED BY <1>3, <1>9, <1>10, <1>11, <1>12, <1>13 DEF IInv

\* A write that is taken: the bursts the queue does not hold yet are added.
LEMMA WriteQueuedInv ==
  ASSUME IInv, NEW r \in Requests, recvTimingReq(r),
         NEW I \in SUBSET (DOMAIN Pieces[r]), NEW t, t = Sift(Pieces[r], I),
         \A i \in I : Pieces[r][i].addr \notin isInWriteQueue,
         ~writeQueueFull(Len(Pieces[r])),
         status' = [status EXCEPT ![r] = "answered"],
         writeQueue' = writeQueue \o Packets(r, t),
         isInWriteQueue' = isInWriteQueue \cup Addrs(t),
         nextReqEvent' = Kicked(nextReqEvent),
         UNCHANGED <<readQueue, serviced, retryRdReq, retryWrReq>>
  PROVE  IInv'
<1> USE DEF busVars, rankVars
<1>1. UNCHANGED <<respQueue, respondEvent, busVars, drainState, rankVars>>
  BY DEF recvTimingReq
<1>2. status[r] # "accepted"
  BY Sendable
<1>3. /\ status' \in [Requests -> {"unsent", "new", "refused", "again", "accepted", "answered"}]
      /\ \A q \in Requests : status'[q] = IF q = r THEN "answered" ELSE status[q]
      /\ OneRefused' /\ RetryRemembered'
  BY TakenFlags
<1>4. /\ Packets(r, t) \in Seq(Packet) /\ Len(Packets(r, t)) = Len(t)
      /\ Len(t) \in Nat /\ Len(t) <= Len(Pieces[r])
      /\ Addrs(Packets(r, t)) = Addrs(t) /\ Distinct(Packets(r, t))
      /\ \A a \in Addrs(t) : \E j \in I : a = Pieces[r][j].addr
      /\ Addrs(t) \subseteq DOMAIN RankOf
  <2>1. Adds(r, t, I)
    BY NewPackets
  <2> QED BY <2>1, Zenon DEF Adds
<1>5. Len(Pieces[r]) \in Nat
  BY PieceFacts
<1>6. writeQueue \in Seq(Packet) /\ Len(writeQueue) \in Nat
  <2>1. writeQueue \in Seq(Packet)
    BY DEF IInv, TypeOK
  <2> QED BY <2>1, LenProperties
<1>7. /\ writeQueue' \in Seq(Packet) /\ Len(writeQueue') = Len(writeQueue) + Len(t)
      /\ writeQueue # <<>> => writeQueue' # <<>>
  <2> DEFINE w == writeQueue \o Packets(r, t)
  <2>1. /\ w \in Seq(Packet) /\ Len(w) = Len(writeQueue) + Len(Packets(r, t))
        /\ writeQueue # <<>> => w # <<>>
    BY <1>4, <1>6, Joined
  <2>2. writeQueue' = w
    OBVIOUS
  <2> HIDE DEF w
  <2> QED BY <1>4, <2>1, <2>2, Zenon
<1>8. nextReqEvent' \in {"now", "later"}
  BY KickedFacts DEF IInv, TypeOK
<1>9. TypeOK'
  <2>1. isInWriteQueue' \subseteq DOMAIN RankOf
    BY <1>4 DEF IInv, TypeOK
  <2> QED BY <1>1, <1>3, <1>7, <1>8, <2>1 DEF IInv, TypeOK
<1>10. Fits'
  <2>1. Len(writeQueue') <= WriteBufferSize
    BY <1>4, <1>5, <1>6, <1>7, SizeFacts DEF writeQueueFull
  <2> QED BY <1>1, <2>1 DEF IInv, Fits
<1>11. Written'
  <2>1. isInWriteQueue = Addrs(writeQueue) /\ Distinct(writeQueue)
    BY DEF IInv, Written
  <2>2. Addrs(writeQueue) \cap Addrs(Packets(r, t)) = {}
    BY <1>4, <2>1
  <2>3. /\ Addrs(writeQueue') = Addrs(writeQueue) \cup Addrs(Packets(r, t))
        /\ Distinct(writeQueue')
    BY <1>4, <1>6, <2>1, <2>2, AddrsConcat
  <2>4. isInWriteQueue' = Addrs(writeQueue')
    BY <1>4, <2>1, <2>3
  <2> QED BY <2>3, <2>4 DEF Written
<1>12. Counted'
  <2>1. \A q \in Requests : status'[q] = "accepted" <=> status[q] = "accepted"
    BY <1>2, <1>3
  <2> QED BY <1>1, <2>1, CountedKept DEF IInv
<1>13. NeverSleepsOnWork'
  BY <1>1, <1>7, <1>8, AwakeKept DEF IInv
<1> QED BY <1>3, <1>9, <1>10, <1>11, <1>12, <1>13 DEF IInv

LEMMA RecvInv ==
  ASSUME IInv, NEW r \in Requests, recvTimingReq(r)
  PROVE  IInv'
<1>1. retryRdReq = FALSE /\ retryWrReq = FALSE
  BY Sendable
<1>2. UNCHANGED respQueue
  BY DEF recvTimingReq
<1>3. CASE RecvRead(r)
  <2> DEFINE I == {i \in DOMAIN Pieces[r] : ~FoundInWrQ(Pieces[r][i])}
             t == Sift(Pieces[r], I)
  <2>1. I \in SUBSET (DOMAIN Pieces[r])
    OBVIOUS
  <2>2. r \notin Writes /\ UNCHANGED <<writeQueue, isInWriteQueue, retryWrReq>>
    BY <1>3 DEF RecvRead
  <2>3. CASE readQueueFull(Len(Pieces[r]))
    <3>1. /\ retryRdReq' = TRUE /\ status' = [status EXCEPT ![r] = "refused"]
          /\ UNCHANGED <<readQueue, serviced, nextReqEvent>>
      BY <1>3, <2>3 DEF RecvRead
    <3> QED BY <1>1, <1>2, <2>2, <3>1, RefusedInv DEF queueVars
  <2>4. CASE ~readQueueFull(Len(Pieces[r])) /\ t = <<>>
    <3>1. /\ UNCHANGED <<readQueue, serviced, nextReqEvent, retryRdReq>>
          /\ status' = [status EXCEPT ![r] = "answered"]
      BY <1>3, <2>4 DEF RecvRead, addToReadQueue
    <3> QED BY <1>2, <2>2, <3>1, ReadFoundInv DEF queueVars
  <2>5. CASE ~readQueueFull(Len(Pieces[r])) /\ t # <<>>
    <3>1. /\ status' = [status EXCEPT ![r] = "accepted"]
          /\ readQueue' = readQueue \o Packets(r, t)
          /\ serviced' = [serviced EXCEPT ![r] = Len(Pieces[r]) - Len(t)]
          /\ nextReqEvent' = Kicked(nextReqEvent)
          /\ UNCHANGED retryRdReq
      BY <1>3, <2>5 DEF RecvRead, addToReadQueue
    <3> HIDE DEF I, t
    <3>2. t = Sift(Pieces[r], I)
      BY DEF t
    <3> QED BY <2>1, <2>2, <2>5, <3>1, <3>2, ReadQueuedInv
  <2> QED BY <2>3, <2>4, <2>5
<1>4. CASE RecvWrite(r)
  <2> DEFINE I == {i \in DOMAIN Pieces[r] : Pieces[r][i].addr \notin isInWriteQueue}
             t == Sift(Pieces[r], I)
  <2>1. /\ I \in SUBSET (DOMAIN Pieces[r])
        /\ \A i \in I : Pieces[r][i].addr \notin isInWriteQueue
    OBVIOUS
  <2>2. r \in Writes /\ UNCHANGED <<readQueue, serviced, retryRdReq>>
    BY <1>4 DEF RecvWrite
  <2>3. CASE writeQueueFull(Len(Pieces[r]))
    <3>1. /\ retryWrReq' = TRUE /\ status' = [status EXCEPT ![r] = "refused"]
          /\ UNCHANGED <<writeQueue, isInWriteQueue, nextReqEvent>>
      BY <1>4, <2>3 DEF RecvWrite
    <3> QED BY <1>1, <1>2, <2>2, <3>1, RefusedInv DEF queueVars
  <2>4. CASE ~writeQueueFull(Len(Pieces[r]))
    <3>1. /\ writeQueue' = writeQueue \o Packets(r, t)
          /\ isInWriteQueue' = isInWriteQueue \cup {p.addr : p \in ToSet(t)}
          /\ status' = [status EXCEPT ![r] = "answered"]
          /\ nextReqEvent' = Kicked(nextReqEvent)
          /\ UNCHANGED retryWrReq
      BY <1>4, <2>4 DEF RecvWrite, addToWriteQueue
    <3> HIDE DEF I, t
    <3>2. isInWriteQueue' = isInWriteQueue \cup Addrs(t)
      BY <3>1 DEF Addrs
    <3>3. t = Sift(Pieces[r], I)
      BY DEF t
    <3> QED BY <2>1, <2>2, <2>4, <3>1, <3>2, <3>3, WriteQueuedInv
  <2> QED BY <2>3, <2>4
<1> QED BY <1>3, <1>4 DEF recvTimingReq

-----------------------------------------------------------------------------
(* Retries                                                                 *)

Answered == {r \in Requests : status[r] = "answered"}

Blocked == {r \in Requests : status[r] = "refused"}

Status == {"unsent", "new", "refused", "again", "accepted", "answered"}

\* The port waits with one request, so that one flag is up at most.
LEMMA OneFlag ==
  ASSUME IInv
  PROVE  ~(retryRdReq /\ retryWrReq)
<1> SUFFICES ASSUME retryRdReq, retryWrReq PROVE FALSE
  OBVIOUS
<1>1. PICK q \in Requests \ Writes : status[q] = "refused"
  BY DEF IInv, RetryRemembered
<1>2. PICK r \in Writes : status[r] = "refused"
  BY DEF IInv, RetryRemembered
<1>3. q \in Requests /\ r \in Requests /\ q # r
  BY <1>1, <1>2, RequestAssumption
<1> QED BY <1>1, <1>2, <1>3 DEF IInv, OneRefused

\* A retry wakes the refused request and clears its flag; st is the state of
\* the requests at that moment.
LEMMA Retried ==
  ASSUME IInv, NEW st \in [Requests -> Status],
         \A q \in Requests : st[q] = "refused" <=> status[q] = "refused",
         \/ status' = sendRetryReq(st) /\ retryRdReq' = FALSE /\ retryWrReq' = FALSE
         \/ status' = st /\ UNCHANGED <<retryRdReq, retryWrReq>>
  PROVE  /\ status' \in [Requests -> Status]
         /\ \A q \in Requests : status'[q] = "accepted" <=> st[q] = "accepted"
         /\ \A q \in Requests : status'[q] = "answered" <=> st[q] = "answered"
         /\ Blocked' \in {Blocked, {}}
         /\ retryRdReq' \in BOOLEAN /\ retryWrReq' \in BOOLEAN
         /\ OneRefused' /\ RetryRemembered'
<1>1. Writes \subseteq Requests
  BY RequestAssumption
<1>2. retryRdReq \in BOOLEAN /\ retryWrReq \in BOOLEAN
  BY DEF IInv, TypeOK
<1>3. CASE status' = sendRetryReq(st) /\ retryRdReq' = FALSE /\ retryWrReq' = FALSE
  <2>1. \A q \in Requests : status'[q] = IF st[q] = "refused" THEN "again" ELSE st[q]
    BY <1>3 DEF sendRetryReq
  <2>2. status' \in [Requests -> Status]
    BY <1>3 DEF sendRetryReq, Status
  <2>3. \A q \in Requests : status'[q] # "refused"
    BY <2>1
  <2>4. OneRefused' /\ RetryRemembered'
    BY <1>1, <1>3, <2>3 DEF OneRefused, RetryRemembered
  <2>5. Blocked' = {}
    BY <2>3 DEF Blocked
  <2> QED BY <1>3, <2>1, <2>2, <2>4, <2>5
<1>4. CASE status' = st /\ UNCHANGED <<retryRdReq, retryWrReq>>
  <2>1. \A q \in Requests : status'[q] = "refused" <=> status[q] = "refused"
    BY <1>4
  <2>2. OneRefused'
    BY <2>1 DEF IInv, OneRefused
  <2>3. RetryRemembered'
    BY <1>1, <1>4, <2>1 DEF IInv, RetryRemembered
  <2>4. Blocked' = Blocked
    BY <2>1 DEF Blocked
  <2> QED BY <1>2, <1>4, <2>2, <2>3, <2>4
<1> QED BY <1>3, <1>4

-----------------------------------------------------------------------------
(* The response event                                                      *)

\* The read at the head of the response queue was accepted, and its last
\* burst is the one that leaves nothing pending.
LEMMA RespondFacts ==
  ASSUME IInv, respondEvent, NEW r, r = Head(respQueue).req
  PROVE  /\ r \in Requests /\ status[r] = "accepted"
         /\ Tail(respQueue) \in Seq(Packet)
         /\ Len(Tail(respQueue)) = Len(respQueue) - 1
         /\ \A q : /\ Count(respQueue, q) \in Nat /\ Count(readQueue, q) \in Nat
                   /\ Count(Tail(respQueue), q) \in Nat
                   /\ Count(Tail(respQueue), q) = Count(respQueue, q)
                                                    - (IF q = r THEN 1 ELSE 0)
         /\ serviced[r] \in Nat
         /\ serviced[r] + Pending(r) = Len(Pieces[r])
         /\ Pending(r) \in Nat \ {0}
         /\ LastBurst(r) <=> Pending(r) = 1
<1>1. readQueue \in Seq(Packet) /\ respQueue \in Seq(Packet) /\ respQueue # <<>>
  BY DEF IInv, TypeOK, Fits
<1>2. /\ Head(respQueue) \in Packet /\ Tail(respQueue) \in Seq(Packet)
      /\ Len(Tail(respQueue)) = Len(respQueue) - 1
  BY <1>1, HeadTailProperties
<1>3. r \in Requests
  BY <1>2 DEF Packet
<1>4. \A q : One(Head(respQueue), q) = IF q = r THEN 1 ELSE 0
  BY DEF One
<1>5. ASSUME NEW q
      PROVE  /\ Count(respQueue, q) \in Nat /\ Count(readQueue, q) \in Nat
             /\ Count(Tail(respQueue), q) \in Nat
             /\ Count(Tail(respQueue), q) = Count(respQueue, q) - (IF q = r THEN 1 ELSE 0)
  <2>1. /\ Count(respQueue, q) \in Nat /\ Count(readQueue, q) \in Nat
        /\ Count(Tail(respQueue), q) \in Nat
    BY <1>1, <1>2, PlacesFinite
  <2>2. Count(Tail(respQueue), q) = Count(respQueue, q) - One(Head(respQueue), q)
    BY <1>1, CountTail
  <2> QED BY <1>4, <2>1, <2>2
<1>6. Pending(r) \in Nat \ {0}
  <2>1. /\ Count(respQueue, r) \in Nat /\ Count(readQueue, r) \in Nat
        /\ Count(Tail(respQueue), r) \in Nat
        /\ Count(Tail(respQueue), r) = Count(respQueue, r) - 1
    BY <1>5
  <2> QED BY <2>1 DEF Pending
<1>7. status[r] = "accepted" /\ serviced[r] + Pending(r) = Len(Pieces[r])
  BY <1>3, <1>6, Zenon DEF IInv, Counted
<1>8. serviced[r] \in Nat /\ Len(Pieces[r]) \in Nat
  BY <1>3, PieceFacts DEF IInv, TypeOK
<1>9. LastBurst(r) <=> Pending(r) = 1
  <2>1. \A s, p, m \in Nat : p # 0 /\ s + p = m => (m = 1 \/ s + 1 = m <=> p = 1)
    OBVIOUS
  <2> QED BY <1>6, <1>7, <1>8, <2>1, Zenon DEF LastBurst
<1> QED BY <1>2, <1>3, <1>5, <1>6, <1>7, <1>8, <1>9

\* One burst of r is answered, the last one with the request, and a refused
\* read may be sent again.
LEMMA RespondEffect ==
  ASSUME IInv, processRespondEvent, NEW r, r = Head(respQueue).req
  PROVE  /\ r \in Requests /\ Pending(r) \in Nat \ {0}
         /\ \A q \in Requests : /\ Pending(q) \in Nat
                                /\ Pending(q)' = Pending(q) - (IF q = r THEN 1 ELSE 0)
         /\ status' \in [Requests -> Status]
         /\ status[r] = "accepted"
         /\ \A q \in Requests : q # r \/ Pending(r) # 1
               => (status'[q] = "accepted" <=> status[q] = "accepted")
         /\ \A q \in Requests : q # r \/ Pending(r) # 1
               => (status'[q] = "answered" <=> status[q] = "answered")
         /\ Pending(r) = 1 => status'[r] = "answered"
         /\ Blocked' \in {Blocked, {}}
         /\ retryRdReq' \in BOOLEAN /\ retryWrReq' \in BOOLEAN
         /\ OneRefused' /\ RetryRemembered'
<1> DEFINE st == IF LastBurst(r) THEN [status EXCEPT ![r] = "answered"] ELSE status
<1>1. /\ respondEvent /\ respQueue' = Tail(respQueue)
      /\ status' = IF retryRdReq THEN sendRetryReq(st) ELSE st
      /\ retryRdReq' = FALSE
      /\ UNCHANGED <<readQueue, retryWrReq>>
  BY Zenon DEF processRespondEvent, RetryRead
<1>2. /\ r \in Requests /\ status[r] = "accepted"
      /\ \A q : /\ Count(respQueue, q) \in Nat /\ Count(readQueue, q) \in Nat
                /\ Count(Tail(respQueue), q) \in Nat
                /\ Count(Tail(respQueue), q) = Count(respQueue, q)
                                                 - (IF q = r THEN 1 ELSE 0)
      /\ Pending(r) \in Nat \ {0}
      /\ LastBurst(r) <=> Pending(r) = 1
  BY <1>1, RespondFacts, Zenon
<1>3. status \in [Requests -> Status] /\ retryRdReq \in BOOLEAN /\ retryWrReq \in BOOLEAN
  BY DEF IInv, TypeOK, Status
<1>4. /\ st \in [Requests -> Status]
      /\ \A q \in Requests : st[q] = IF q = r /\ LastBurst(r) THEN "answered" ELSE status[q]
  BY <1>2, <1>3 DEF Status
<1> HIDE DEF st
<1>5. \A q \in Requests : st[q] = "refused" <=> status[q] = "refused"
  BY <1>2, <1>4
<1>6. \/ status' = sendRetryReq(st) /\ retryRdReq' = FALSE /\ retryWrReq' = FALSE
      \/ status' = st /\ UNCHANGED <<retryRdReq, retryWrReq>>
  <2>1. CASE retryRdReq = TRUE
    <3>1. retryWrReq = FALSE
      BY <1>3, <2>1, OneFlag
    <3> QED BY <1>1, <2>1, <3>1
  <2>2. CASE retryRdReq = FALSE
    BY <1>1, <2>2
  <2> QED BY <1>3, <2>1, <2>2
<1>7. /\ status' \in [Requests -> Status]
      /\ \A q \in Requests : status'[q] = "accepted" <=> st[q] = "accepted"
      /\ \A q \in Requests : status'[q] = "answered" <=> st[q] = "answered"
      /\ Blocked' \in {Blocked, {}}
      /\ retryRdReq' \in BOOLEAN /\ retryWrReq' \in BOOLEAN
      /\ OneRefused' /\ RetryRemembered'
  BY <1>4, <1>5, <1>6, Retried, Zenon
<1>8. ASSUME NEW q \in Requests
      PROVE  Pending(q) \in Nat /\ Pending(q)' = Pending(q) - (IF q = r THEN 1 ELSE 0)
  <2>1. /\ Count(respQueue, q) \in Nat /\ Count(readQueue, q) \in Nat
        /\ Count(respQueue', q) = Count(respQueue, q) - (IF q = r THEN 1 ELSE 0)
        /\ Count(readQueue', q) = Count(readQueue, q)
    BY <1>1, <1>2, Zenon
  <2> QED BY <2>1 DEF Pending
<1>9. \A q \in Requests : q # r \/ Pending(r) # 1 => st[q] = status[q]
  BY <1>2, <1>4
<1>10. Pending(r) = 1 => st[r] = "answered"
  BY <1>2, <1>4
<1> QED BY <1>2, <1>7, <1>8, <1>9, <1>10

LEMMA RespondInv ==
  ASSUME IInv, processRespondEvent
  PROVE  IInv'
<1> USE DEF busVars, rankVars
<1> DEFINE r == Head(respQueue).req
<1>1. /\ respondEvent
      /\ serviced' = IF Len(Pieces[r]) > 1
                     THEN [serviced EXCEPT ![r] = serviced[r] + 1] ELSE serviced
      /\ respQueue' = Tail(respQueue)
      /\ respondEvent' = RespondAgain(respQueue')
      /\ UNCHANGED <<readQueue, writeQueue, isInWriteQueue, nextReqEvent,
                     busVars, rankVars>>
  BY Zenon DEF processRespondEvent
<1>2. drainState' \in {drainState, "Drained"}
  BY DEF processRespondEvent
<1>3. r = Head(respQueue).req
  OBVIOUS
<1> HIDE DEF r
<1>4. /\ Tail(respQueue) \in Seq(Packet)
      /\ Len(Tail(respQueue)) = Len(respQueue) - 1
      /\ serviced[r] \in Nat
      /\ serviced[r] + Pending(r) = Len(Pieces[r])
  BY <1>1, <1>3, RespondFacts, Zenon
<1>5. /\ r \in Requests /\ Pending(r) \in Nat \ {0}
      /\ \A q \in Requests : /\ Pending(q) \in Nat
                             /\ Pending(q)' = Pending(q) - (IF q = r THEN 1 ELSE 0)
      /\ status' \in [Requests -> Status]
      /\ status[r] = "accepted"
      /\ \A q \in Requests : q # r \/ Pending(r) # 1
            => (status'[q] = "accepted" <=> status[q] = "accepted")
      /\ Pending(r) = 1 => status'[r] = "answered"
      /\ retryRdReq' \in BOOLEAN /\ retryWrReq' \in BOOLEAN
      /\ OneRefused' /\ RetryRemembered'
  BY <1>3, RespondEffect, Zenon
<1>6. TypeOK'
  <2>1. respondEvent' \in BOOLEAN
    BY <1>1 DEF RespondAgain
  <2>2. serviced' \in [Requests -> Nat]
    <3>1. serviced[r] + 1 \in Nat
      BY <1>4
    <3> QED BY <1>1, <1>5, <3>1 DEF IInv, TypeOK
  <2>3. drainState' \in {"Running", "Draining", "Drained"}
    BY <1>2 DEF IInv, TypeOK
  <2> QED BY <1>1, <1>4, <1>5, <2>1, <2>2, <2>3 DEF IInv, TypeOK, Status
<1>7. Fits'
  <2>1. Len(readQueue') + Len(respQueue') <= ReadBufferSize
    <3>1. Len(readQueue) \in Nat /\ Len(respQueue) \in Nat
      BY LenProperties DEF IInv, TypeOK
    <3>2. Len(readQueue) + Len(respQueue) <= ReadBufferSize
      BY DEF IInv, Fits
    <3>3. Len(readQueue) + (Len(respQueue) - 1) <= ReadBufferSize
      BY <3>1, <3>2, SizeFacts
    <3> QED BY <1>1, <1>4, <3>3, Zenon
  <2> QED BY <1>1, <2>1 DEF IInv, Fits, RespondAgain
<1>8. Written'
  BY <1>1 DEF IInv, Written
<1>9. Counted'
  <2> SUFFICES ASSUME NEW q \in Requests
               PROVE  IF status'[q] = "accepted"
                      THEN Pending(q)' > 0 /\ serviced'[q] + Pending(q)' = Len(Pieces[q])
                      ELSE Pending(q)' = 0
    BY DEF Counted
  <2>1. Pending(q) \in Nat /\ Pending(q)' = Pending(q) - (IF q = r THEN 1 ELSE 0)
    BY <1>5
  <2>2. serviced'[q] = IF q = r /\ Len(Pieces[r]) > 1 THEN serviced[r] + 1 ELSE serviced[q]
    BY <1>1, <1>5 DEF IInv, TypeOK
  <2>3. CASE q = r /\ Pending(r) = 1
    BY <1>5, <2>1, <2>3
  <2>4. CASE q = r /\ Pending(r) # 1
    <3>1. status'[q] = "accepted"
      BY <1>5, <2>4
    <3>2. \A s, p, m \in Nat : p # 0 /\ p # 1 /\ s + p = m
             => m > 1 /\ p - 1 > 0 /\ (s + 1) + (p - 1) = m
      OBVIOUS
    <3>3. Len(Pieces[r]) \in Nat
      BY <1>5, PieceFacts
    <3>4. /\ Len(Pieces[r]) > 1 /\ Pending(r) - 1 > 0
          /\ (serviced[r] + 1) + (Pending(r) - 1) = Len(Pieces[r])
      BY <1>4, <1>5, <2>4, <3>2, <3>3
    <3> QED BY <2>1, <2>2, <2>4, <3>1, <3>4
  <2>5. CASE q # r
    <3>1. Pending(q)' = Pending(q) /\ serviced'[q] = serviced[q]
      BY <2>1, <2>2, <2>5
    <3>2. status'[q] = "accepted" <=> status[q] = "accepted"
      BY <1>5, <2>5
    <3>3. IF status[q] = "accepted"
          THEN Pending(q) > 0 /\ serviced[q] + Pending(q) = Len(Pieces[q])
          ELSE Pending(q) = 0
      BY DEF IInv, Counted
    <3> QED BY <3>1, <3>2, <3>3
  <2> QED BY <2>3, <2>4, <2>5
<1>10. NeverSleepsOnWork'
  BY <1>1, AwakeKept DEF IInv
<1> QED BY <1>5, <1>6, <1>7, <1>8, <1>9, <1>10 DEF IInv

-----------------------------------------------------------------------------
(* The request event                                                       *)

\* The handler takes the turn of the bus, and no refresh waits for it after.
LEMMA StartFacts ==
  ASSUME IInv, StartRequestEvent
  PROVE  /\ refreshState' \in [Ranks -> {"REF_IDLE", "REF_DRAIN", "REF_RUN"}]
         /\ \A k \in Ranks : refreshState'[k] # "REF_DRAIN"
         /\ \A k \in Ranks : refreshState[k] # "REF_IDLE" => refreshState'[k] # "REF_IDLE"
         /\ busState' \in {"READ", "WRITE"}
         /\ WritesSoFar \in Nat
         /\ UNCHANGED <<due, serviced, retryRdReq>>
<1>1. /\ refreshState \in [Ranks -> {"REF_IDLE", "REF_DRAIN", "REF_RUN"}]
      /\ busStateNext \in {"READ", "WRITE"} /\ writesThisTime \in Nat
  BY DEF IInv, TypeOK
<1>2. \A k \in Ranks : refreshState'[k] = IF refreshState[k] = "REF_DRAIN"
                                          THEN "REF_RUN" ELSE refreshState[k]
  BY DEF StartRequestEvent
<1>3. refreshState' \in [Ranks -> {"REF_IDLE", "REF_DRAIN", "REF_RUN"}]
  BY <1>1 DEF StartRequestEvent
<1>4. WritesSoFar \in Nat
  BY <1>1 DEF WritesSoFar
<1> QED BY <1>1, <1>2, <1>3, <1>4 DEF StartRequestEvent

\* The handler may return without work or while a rank is refreshing.
LEMMA ReturnInv ==
  ASSUME IInv, StartRequestEvent, Return,
         drainState' \in {"Running", "Draining", "Drained"},
         \/ readQueue = <<>> /\ ~(Len(writeQueue) > WriteLowThreshold)
         \/ \E k \in Ranks : refreshState[k] # "REF_IDLE"
  PROVE  IInv'
<1>1. /\ refreshState' \in [Ranks -> {"REF_IDLE", "REF_DRAIN", "REF_RUN"}]
      /\ \A k \in Ranks : refreshState'[k] # "REF_DRAIN"
      /\ \A k \in Ranks : refreshState[k] # "REF_IDLE" => refreshState'[k] # "REF_IDLE"
      /\ busState' \in {"READ", "WRITE"}
      /\ WritesSoFar \in Nat
      /\ UNCHANGED <<due, serviced, retryRdReq>>
  BY StartFacts
<1>2. /\ nextReqEvent' = "none" /\ writesThisTime' = WritesSoFar
      /\ UNCHANGED <<status, readQueue, writeQueue, respQueue, isInWriteQueue,
                     respondEvent, busStateNext, retryWrReq, banksOpen, activeRank>>
  BY DEF Return
<1>3. TypeOK'
  BY <1>1, <1>2 DEF IInv, TypeOK
<1>4. Fits' /\ Written' /\ Counted' /\ OneRefused' /\ RetryRemembered'
  BY <1>1, <1>2, QueuesKept DEF queueVars
<1>5. NeverSleepsOnWork'
  <2>1. (readQueue' # <<>> \/ Len(writeQueue') > WriteLowThreshold)
           => \E k \in Ranks : refreshState'[k] # "REF_IDLE"
    BY <1>1, <1>2
  <2>2. busStateNext' = "WRITE" => writeQueue' # <<>>
    BY <1>2 DEF IInv, NeverSleepsOnWork
  <2> QED BY <1>1, <2>1, <2>2 DEF NeverSleepsOnWork
<1> QED BY <1>3, <1>4, <1>5 DEF IInv

LEMMA AllRanksBusyInv ==
  ASSUME IInv, AllRanksBusy
  PROVE  IInv'
<1>1. \E k \in Ranks : refreshState[k] # "REF_IDLE"
  BY RankFacts DEF AllRanksBusy, isBusy
<1>2. drainState' \in {"Running", "Draining", "Drained"}
  BY DEF IInv, TypeOK, AllRanksBusy
<1> QED BY <1>1, <1>2, ReturnInv DEF AllRanksBusy

LEMMA NothingToDoInv ==
  ASSUME IInv, NothingToDo
  PROVE  IInv'
<1>1. writeQueue \in Seq(Packet) /\ Len(writeQueue) \in Nat
  BY LenProperties DEF IInv, TypeOK
<1>2. Len(writeQueue) <= WriteLowThreshold
  <2>1. writeQueue = <<>> => Len(writeQueue) = 0
    BY <1>1, EmptySeq
  <2>2. writeQueue = <<>> \/ Len(writeQueue) <= WriteLowThreshold
    BY DEF NothingToDo
  <2> QED BY <1>1, <2>1, <2>2, SizeFacts
<1>3. ~(Len(writeQueue) > WriteLowThreshold)
  BY <1>1, <1>2, SizeFacts
<1>4. drainState' \in {"Running", "Draining", "Drained"}
  BY DEF IInv, TypeOK, NothingToDo
<1>5. StartRequestEvent /\ Return /\ readQueue = <<>>
  BY DEF NothingToDo
<1> QED BY <1>3, <1>4, <1>5, ReturnInv

LEMMA NoneFoundInv ==
  ASSUME IInv, NoneFound
  PROVE  IInv'
<1>1. ASSUME NEW q \in Seq(Packet), q # <<>>, \A p \in ToSet(q) : ~packetReady(p)
      PROVE  \E k \in Ranks : refreshState[k] # "REF_IDLE"
  <2>1. 1 \in 1..Len(q) /\ q[1] \in Packet
    <3>1. Len(q) \in Nat /\ Len(q) # 0
      BY <1>1, EmptySeq, LenProperties
    <3>2. 1 \in 1..Len(q)
      BY <3>1
    <3> QED BY <3>2, ElementOfSeq
  <2>2. q[1] \in ToSet(q)
    <3>1. DOMAIN q = 1..Len(q)
      BY LenProperties
    <3> QED BY <2>1, <3>1 DEF ToSet
  <2>3. RankOf[q[1].addr] \in Ranks
    BY <2>1, RankFacts DEF Packet
  <2> QED BY <1>1, <2>2, <2>3 DEF packetReady
<1>2. readQueue \in Seq(Packet) /\ writeQueue \in Seq(Packet)
  BY DEF IInv, TypeOK
<1>3. \E k \in Ranks : refreshState[k] # "REF_IDLE"
  <2>1. CASE readQueue # <<>> /\ \A p \in ToSet(readQueue) : ~packetReady(p)
    BY <1>1, <1>2, <2>1, Zenon
  <2>2. CASE busStateNext = "WRITE" /\ \A p \in ToSet(writeQueue) : ~packetReady(p)
    <3>1. writeQueue # <<>>
      BY <2>2 DEF IInv, NeverSleepsOnWork
    <3> QED BY <1>1, <1>2, <2>2, <3>1, Zenon
  <2> QED BY <2>1, <2>2, Zenon DEF NoneFound
<1>4. drainState' \in {"Running", "Draining", "Drained"}
  BY DEF IInv, TypeOK, NoneFound
<1>5. StartRequestEvent /\ Return
  BY DEF NoneFound
<1> QED BY <1>3, <1>4, <1>5, ReturnInv

\* The end of the handler.
LEMMA Scheduled ==
  ASSUME IInv, NEW n, ScheduleNext(n), UNCHANGED retryRdReq
  PROVE  /\ nextReqEvent' = "later" /\ UNCHANGED drainState
         /\ status' \in [Requests -> Status]
         /\ \A q \in Requests : status'[q] = "accepted" <=> status[q] = "accepted"
         /\ \A q \in Requests : status'[q] = "answered" <=> status[q] = "answered"
         /\ Blocked' \in {Blocked, {}}
         /\ retryRdReq' \in BOOLEAN /\ retryWrReq' \in BOOLEAN
         /\ OneRefused' /\ RetryRemembered'
<1>1. status \in [Requests -> Status] /\ retryRdReq \in BOOLEAN
  BY DEF IInv, TypeOK, Status
<1>2. \/ status' = sendRetryReq(status) /\ retryRdReq' = FALSE /\ retryWrReq' = FALSE
      \/ status' = status /\ UNCHANGED <<retryRdReq, retryWrReq>>
  <2>1. CASE retryWrReq /\ n < WriteBufferSize
    <3>1. retryRdReq = FALSE
      BY <1>1, <2>1, OneFlag
    <3> QED BY <2>1, <3>1 DEF ScheduleNext
  <2>2. CASE ~(retryWrReq /\ n < WriteBufferSize)
    BY <2>2 DEF ScheduleNext
  <2> QED BY <2>1, <2>2
<1>3. /\ status' \in [Requests -> Status]
      /\ \A q \in Requests : status'[q] = "accepted" <=> status[q] = "accepted"
      /\ \A q \in Requests : status'[q] = "answered" <=> status[q] = "answered"
      /\ Blocked' \in {Blocked, {}}
      /\ retryRdReq' \in BOOLEAN /\ retryWrReq' \in BOOLEAN
      /\ OneRefused' /\ RetryRemembered'
  BY <1>1, <1>2, Retried
<1> QED BY <1>3 DEF ScheduleNext

\* What every handler run that schedules the next one has in common.
LEMMA ScheduledInv ==
  ASSUME IInv, StartRequestEvent, NEW n, ScheduleNext(n),
         Fits', Written', Counted',
         readQueue' \in Seq(Packet), writeQueue' \in Seq(Packet), respQueue' \in Seq(Packet),
         isInWriteQueue' \subseteq isInWriteQueue, respondEvent' \in BOOLEAN,
         busStateNext' \in {"READ", "WRITE"}, writesThisTime' \in Nat,
         banksOpen' \in [Ranks -> BOOLEAN], activeRank' \in Ranks,
         busStateNext' = "WRITE" => writeQueue' # <<>>
  PROVE  IInv'
<1>1. /\ refreshState' \in [Ranks -> {"REF_IDLE", "REF_DRAIN", "REF_RUN"}]
      /\ \A k \in Ranks : refreshState'[k] # "REF_DRAIN"
      /\ busState' \in {"READ", "WRITE"}
      /\ UNCHANGED <<due, serviced, retryRdReq>>
  BY StartFacts
<1>2. /\ nextReqEvent' = "later" /\ UNCHANGED drainState
      /\ status' \in [Requests -> Status]
      /\ retryRdReq' \in BOOLEAN /\ retryWrReq' \in BOOLEAN
      /\ OneRefused' /\ RetryRemembered'
  BY <1>1, Scheduled
<1>3. TypeOK'
  BY <1>1, <1>2 DEF IInv, TypeOK, Status
<1>4. NeverSleepsOnWork'
  BY <1>1, <1>2 DEF NeverSleepsOnWork
<1> QED BY <1>2, <1>3, <1>4 DEF IInv

LEMMA SwitchToWritesInv ==
  ASSUME IInv, SwitchToWrites
  PROVE  IInv'
<1>1. /\ StartRequestEvent /\ ScheduleNext(Len(writeQueue))
      /\ writeQueue # <<>> /\ busStateNext' = "WRITE" /\ writesThisTime' = WritesSoFar
      /\ UNCHANGED <<readQueue, writeQueue, respQueue, isInWriteQueue,
                     respondEvent, banksOpen, activeRank>>
  BY DEF SwitchToWrites
<1>2. WritesSoFar \in Nat /\ UNCHANGED <<serviced, retryRdReq>>
  BY <1>1, StartFacts
<1>3. \A q \in Requests : status'[q] = "accepted" <=> status[q] = "accepted"
  BY <1>1, <1>2, Scheduled
<1>4. Counted'
  BY <1>1, <1>2, <1>3, CountedKept DEF IInv
<1>5. Fits' /\ Written'
  BY <1>1 DEF IInv, Fits, Written
<1>6. /\ readQueue' \in Seq(Packet) /\ writeQueue' \in Seq(Packet)
      /\ respQueue' \in Seq(Packet) /\ respondEvent' \in BOOLEAN
      /\ banksOpen' \in [Ranks -> BOOLEAN] /\ activeRank' \in Ranks
  BY <1>1 DEF IInv, TypeOK
<1> QED BY <1>1, <1>2, <1>4, <1>5, <1>6, ScheduledInv

\* The rank of a burst that is accessed.
LEMMA BurstFacts ==
  ASSUME IInv, NEW p \in Packet, doBurstAccess(p)
  PROVE  banksOpen' \in [Ranks -> BOOLEAN] /\ activeRank' \in Ranks
<1>1. RankOf[p.addr] \in Ranks
  BY RankFacts DEF Packet
<1> QED BY <1>1 DEF IInv, TypeOK, doBurstAccess

\* A burst that goes from the read queue to the response queue stays pending.
LEMMA ReadIssued ==
  ASSUME IInv, NEW i \in 1..Len(readQueue), IssueRead(i)
  PROVE  \A q : Pending(q)' = Pending(q)
<1> DEFINE x == readQueue[i]
<1>1. respQueue' = Append(respQueue, x) /\ readQueue' = RemoveAt(readQueue, i)
  BY DEF IssueRead
<1>2. readQueue \in Seq(Packet) /\ respQueue \in Seq(Packet)
  BY DEF IInv, TypeOK
<1>3. x \in Packet
  BY <1>2, ElementOfSeq
<1> HIDE DEF x
<1> TAKE q
<1>4. Count(readQueue', q) = Count(readQueue, q) - One(x, q)
  BY <1>1, <1>2, CountRemoved DEF x
<1>5. Count(respQueue', q) = Count(respQueue, q) + One(x, q)
  BY <1>1, <1>2, <1>3, CountAppend
<1>6. Count(readQueue, q) \in Nat /\ Count(respQueue, q) \in Nat /\ One(x, q) \in Nat
  BY <1>2, PlacesFinite DEF One
<1>7. \A a, b, c \in Nat : (a - c) + (b + c) = a + b
  OBVIOUS
<1>8. /\ Pending(q) = Count(readQueue, q) + Count(respQueue, q)
      /\ Pending(q)' = Count(readQueue', q) + Count(respQueue', q)
  BY DEF Pending
<1>9. (Count(readQueue, q) - One(x, q)) + (Count(respQueue, q) + One(x, q))
        = Count(readQueue, q) + Count(respQueue, q)
  BY <1>6, <1>7, Zenon
<1> QED BY <1>4, <1>5, <1>8, <1>9, Zenon

\* ... and keeps its slot.
LEMMA IssueReadInv ==
  ASSUME IInv, NEW i \in 1..Len(readQueue), IssueRead(i)
  PROVE  IInv'
<1> DEFINE x == readQueue[i]
<1>1. /\ StartRequestEvent /\ ScheduleNext(Len(writeQueue))
      /\ doBurstAccess(x) /\ respondEvent' = TRUE
      /\ respQueue' = Append(respQueue, x) /\ readQueue' = RemoveAt(readQueue, i)
      /\ busStateNext' = IF Len(writeQueue) > WriteHighThreshold THEN "WRITE" ELSE "READ"
      /\ writesThisTime' = WritesSoFar
      /\ UNCHANGED <<writeQueue, isInWriteQueue>>
  BY DEF IssueRead
<1>2. /\ readQueue \in Seq(Packet) /\ respQueue \in Seq(Packet) /\ writeQueue \in Seq(Packet)
      /\ Len(readQueue) \in Nat /\ Len(respQueue) \in Nat /\ Len(writeQueue) \in Nat
  BY LenProperties DEF IInv, TypeOK
<1>3. x \in Packet
  BY <1>2, ElementOfSeq
<1> HIDE DEF x
<1>4. readQueue' \in Seq(Packet) /\ Len(readQueue') = Len(readQueue) - 1
  BY <1>1, <1>2, Removed
<1>5. respQueue' \in Seq(Packet) /\ Len(respQueue') = Len(respQueue) + 1
  BY <1>1, <1>2, <1>3, AppendProperties
<1>6. WritesSoFar \in Nat /\ UNCHANGED <<serviced, retryRdReq>>
  BY <1>1, StartFacts
<1>7. Fits'
  <2>1. Len(readQueue) + Len(respQueue) <= ReadBufferSize /\ Len(writeQueue) <= WriteBufferSize
    BY DEF IInv, Fits
  <2>2. Len(readQueue') + Len(respQueue') <= ReadBufferSize
    BY <1>2, <1>4, <1>5, <2>1, SizeFacts
  <2>3. respQueue' # <<>>
    <3>1. Len(respQueue') # 0
      BY <1>2, <1>5
    <3> QED BY <1>5, <3>1, EmptySeq
  <2> QED BY <1>1, <2>1, <2>2, <2>3 DEF Fits
<1>8. Written'
  BY <1>1 DEF IInv, Written
<1>9. Counted'
  <2>1. \A q \in Requests : status'[q] = "accepted" <=> status[q] = "accepted"
    BY <1>1, <1>6, Scheduled
  <2>2. \A q : Pending(q)' = Pending(q)
    BY ReadIssued
  <2> QED BY <1>6, <2>1, <2>2 DEF IInv, Counted
<1>10. banksOpen' \in [Ranks -> BOOLEAN] /\ activeRank' \in Ranks
  BY <1>1, <1>3, BurstFacts
<1>11. busStateNext' \in {"READ", "WRITE"} /\ (busStateNext' = "WRITE" => writeQueue' # <<>>)
  <2>1. Len(writeQueue) > WriteHighThreshold => Len(writeQueue) # 0
    BY <1>2, SizeFacts
  <2>2. writeQueue = <<>> => Len(writeQueue) = 0
    BY <1>2, EmptySeq
  <2> QED BY <1>1, <2>1, <2>2
<1>12. writeQueue' \in Seq(Packet) /\ isInWriteQueue' \subseteq isInWriteQueue
  BY <1>1, <1>2
<1>13. respondEvent' \in BOOLEAN /\ writesThisTime' \in Nat
  BY <1>1, <1>6
<1> QED BY <1>1, <1>4, <1>5, <1>7, <1>8, <1>9, <1>10, <1>11, <1>12, <1>13, ScheduledInv, Zenon

\* A write that is issued leaves the queue and the set of addresses, and the
\* turn goes on only while a write is left.
LEMMA IssueWriteInv ==
  ASSUME IInv, NEW i \in 1..Len(writeQueue), IssueWrite(i)
  PROVE  IInv'
<1> DEFINE x == writeQueue[i]
<1>1. /\ StartRequestEvent /\ ScheduleNext(Len(writeQueue) - 1)
      /\ doBurstAccess(x)
      /\ writeQueue' = RemoveAt(writeQueue, i)
      /\ isInWriteQueue' = isInWriteQueue \ {x.addr}
      /\ writesThisTime' = WritesSoFar + 1
      /\ busStateNext' = IF ReadsNext(Len(writeQueue) - 1, writesThisTime')
                         THEN "READ" ELSE "WRITE"
      /\ UNCHANGED <<readQueue, respQueue, respondEvent>>
  BY Zenon DEF IssueWrite
<1>2. writeQueue \in Seq(Packet) /\ Len(writeQueue) \in Nat
  BY LenProperties DEF IInv, TypeOK
<1>3. x \in Packet
  BY <1>2, ElementOfSeq
<1> HIDE DEF x
<1>4. writeQueue' \in Seq(Packet) /\ Len(writeQueue') = Len(writeQueue) - 1
  BY <1>1, <1>2, Removed
<1>5. WritesSoFar \in Nat /\ UNCHANGED <<serviced, retryRdReq>>
  BY <1>1, StartFacts
<1>6. Fits'
  <2>1. Len(writeQueue') <= WriteBufferSize
    <3>1. Len(writeQueue) <= WriteBufferSize
      BY DEF IInv, Fits
    <3> QED BY <1>2, <1>4, <3>1, SizeFacts
  <2> QED BY <1>1, <2>1 DEF IInv, Fits
<1>7. Written'
  <2>1. isInWriteQueue = Addrs(writeQueue) /\ Distinct(writeQueue)
    BY DEF IInv, Written
  <2>2. Addrs(writeQueue') = Addrs(writeQueue) \ {x.addr} /\ Distinct(writeQueue')
    BY <1>1, <1>2, <2>1, AddrsRemoved DEF x
  <2> QED BY <1>1, <2>1, <2>2 DEF Written
<1>8. Counted'
  <2>1. \A q \in Requests : status'[q] = "accepted" <=> status[q] = "accepted"
    BY <1>1, <1>5, Scheduled
  <2> QED BY <1>1, <1>5, <2>1, CountedKept DEF IInv
<1>9. banksOpen' \in [Ranks -> BOOLEAN] /\ activeRank' \in Ranks
  BY <1>1, <1>3, BurstFacts
<1>10. busStateNext' \in {"READ", "WRITE"} /\ (busStateNext' = "WRITE" => writeQueue' # <<>>)
  <2>1. Len(writeQueue) - 1 = 0 => ReadsNext(Len(writeQueue) - 1, writesThisTime')
    BY DEF ReadsNext
  <2>2. writeQueue' = <<>> => Len(writeQueue') = 0
    BY <1>4, EmptySeq
  <2> QED BY <1>1, <1>4, <2>1, <2>2
<1>11. /\ readQueue' \in Seq(Packet) /\ respQueue' \in Seq(Packet)
       /\ isInWriteQueue' \subseteq isInWriteQueue
       /\ respondEvent' \in BOOLEAN
  BY <1>1 DEF IInv, TypeOK
<1>12. writesThisTime' \in Nat
  BY <1>1, <1>5
<1> QED BY <1>1, <1>4, <1>6, <1>7, <1>8, <1>9, <1>10, <1>11, <1>12, ScheduledInv, Zenon

-----------------------------------------------------------------------------
(* The ranks and draining                                                  *)

LEMMA RefreshDueInv ==
  ASSUME IInv, NEW k \in Ranks, RefreshDue(k)
  PROVE  IInv'
<1> USE DEF queueVars, busVars
<1>1. /\ due' = due \ {k}
      /\ refreshState' = [refreshState EXCEPT ![k] =
             IF WaitsForRequests(k) THEN "REF_DRAIN" ELSE "REF_RUN"]
      /\ UNCHANGED <<status, queueVars, nextReqEvent, respondEvent, busVars,
                     retryRdReq, retryWrReq, drainState, banksOpen, activeRank>>
  BY DEF RefreshDue
<1>2. refreshState \in [Ranks -> {"REF_IDLE", "REF_DRAIN", "REF_RUN"}]
  BY DEF IInv, TypeOK
<1>3. /\ refreshState' \in [Ranks -> {"REF_IDLE", "REF_DRAIN", "REF_RUN"}]
      /\ refreshState'[k] # "REF_IDLE"
      /\ refreshState'[k] = "REF_DRAIN" => nextReqEvent # "none"
      /\ \A j \in Ranks : j # k => refreshState'[j] = refreshState[j]
  BY <1>1, <1>2 DEF WaitsForRequests
<1>4. TypeOK'
  BY <1>1, <1>3 DEF IInv, TypeOK
<1>5. Fits' /\ Written' /\ Counted' /\ OneRefused' /\ RetryRemembered'
  BY <1>1, QueuesKept
<1>6. NeverSleepsOnWork'
  BY <1>1, <1>3 DEF IInv, NeverSleepsOnWork
<1> QED BY <1>4, <1>5, <1>6 DEF IInv

\* The end of a refresh starts the request loop.
LEMMA RefreshDoneInv ==
  ASSUME IInv, NEW k \in Ranks, RefreshDone(k)
  PROVE  IInv'
<1> USE DEF queueVars, busVars
<1>1. /\ refreshState' = [refreshState EXCEPT ![k] = "REF_IDLE"]
      /\ banksOpen' = [banksOpen EXCEPT ![k] = FALSE]
      /\ nextReqEvent' = Kicked(nextReqEvent)
      /\ due' \in {Ranks, due}
      /\ UNCHANGED <<status, queueVars, respondEvent, busVars, retryRdReq,
                     retryWrReq, drainState, activeRank>>
  BY DEF RefreshDone
<1>2. nextReqEvent' \in {"now", "later"}
  BY <1>1, KickedFacts DEF IInv, TypeOK
<1>3. TypeOK'
  BY <1>1, <1>2 DEF IInv, TypeOK
<1>4. Fits' /\ Written' /\ Counted' /\ OneRefused' /\ RetryRemembered'
  BY <1>1, QueuesKept
<1>5. NeverSleepsOnWork'
  BY <1>1, <1>2 DEF IInv, NeverSleepsOnWork
<1> QED BY <1>3, <1>4, <1>5 DEF IInv

LEMMA CloseBanksInv ==
  ASSUME IInv, NEW k \in Ranks, CloseBanks(k)
  PROVE  IInv'
<1> USE DEF queueVars, busVars, CloseBanks
<1>1. TypeOK'
  BY DEF IInv, TypeOK
<1>2. Fits' /\ Written' /\ Counted' /\ OneRefused' /\ RetryRemembered'
  BY QueuesKept
<1>3. NeverSleepsOnWork'
  BY AwakeKept DEF IInv
<1> QED BY <1>1, <1>2, <1>3 DEF IInv

LEMMA DrainInv ==
  ASSUME IInv, drain
  PROVE  IInv'
<1> USE DEF queueVars, busVars, rankVars
<1>1. /\ drainState' \in {"Draining", "Drained"}
      /\ nextReqEvent' \in {nextReqEvent, Kicked(nextReqEvent)}
      /\ UNCHANGED <<status, queueVars, respondEvent, busVars, retryRdReq,
                     retryWrReq, rankVars>>
  BY DEF drain
<1>2. nextReqEvent' = nextReqEvent \/ nextReqEvent' \in {"now", "later"}
  BY <1>1, KickedFacts DEF IInv, TypeOK
<1>3. TypeOK'
  BY <1>1, <1>2 DEF IInv, TypeOK
<1>4. Fits' /\ Written' /\ Counted' /\ OneRefused' /\ RetryRemembered'
  BY <1>1, QueuesKept
<1>5. NeverSleepsOnWork'
  BY <1>1, <1>2, AwakeKept DEF IInv
<1> QED BY <1>3, <1>4, <1>5 DEF IInv

LEMMA DrainResumeInv ==
  ASSUME IInv, drainResume
  PROVE  IInv'
<1> USE DEF queueVars, busVars, rankVars, drainResume
<1>1. TypeOK'
  BY DEF IInv, TypeOK
<1>2. Fits' /\ Written' /\ Counted' /\ OneRefused' /\ RetryRemembered'
  BY QueuesKept
<1>3. NeverSleepsOnWork'
  BY AwakeKept DEF IInv
<1> QED BY <1>1, <1>2, <1>3 DEF IInv

LEMMA StutterInv ==
  ASSUME IInv, UNCHANGED vars
  PROVE  IInv'
<1> USE DEF queueVars, busVars, rankVars, vars
<1>1. TypeOK'
  BY DEF IInv, TypeOK
<1>2. Fits' /\ Written' /\ Counted' /\ OneRefused' /\ RetryRemembered'
  BY QueuesKept
<1>3. NeverSleepsOnWork'
  BY AwakeKept DEF IInv
<1> QED BY <1>1, <1>2, <1>3 DEF IInv

LEMMA InvNext == IInv /\ [Next]_vars => IInv'
<1> SUFFICES ASSUME IInv, [Next]_vars PROVE IInv'
  OBVIOUS
<1>1. ASSUME NEW r \in Requests, recvTimingReq(r) PROVE IInv'
  BY <1>1, RecvInv
<1>2. CASE processRespondEvent
  BY <1>2, RespondInv
<1>3. CASE processNextReqEvent
  <2>1. CASE AllRanksBusy
    BY <2>1, AllRanksBusyInv
  <2>2. CASE NothingToDo
    BY <2>2, NothingToDoInv
  <2>3. CASE SwitchToWrites
    BY <2>3, SwitchToWritesInv
  <2>4. CASE NoneFound
    BY <2>4, NoneFoundInv
  <2>5. ASSUME NEW i \in 1..Len(readQueue), IssueRead(i) PROVE IInv'
    BY <2>5, IssueReadInv
  <2>6. ASSUME NEW i \in 1..Len(writeQueue), IssueWrite(i) PROVE IInv'
    BY <2>6, IssueWriteInv
  <2> QED BY <1>3, <2>1, <2>2, <2>3, <2>4, <2>5, <2>6 DEF processNextReqEvent
<1>4. ASSUME NEW k \in Ranks, RefreshDue(k) \/ RefreshDone(k) \/ CloseBanks(k) PROVE IInv'
  BY <1>4, RefreshDueInv, RefreshDoneInv, CloseBanksInv
<1>5. CASE drain
  BY <1>5, DrainInv
<1>6. CASE drainResume
  BY <1>6, DrainResumeInv
<1>7. CASE UNCHANGED vars
  BY <1>7, StutterInv
<1> QED BY <1>1, <1>2, <1>3, <1>4, <1>5, <1>6, <1>7 DEF Next

LEMMA InvHolds == Spec => []IInv
BY InvInit, InvNext, PTL DEF Spec

-----------------------------------------------------------------------------
(* Theorems                                                                *)

\* The values of the variables have their types, whatever order requests,
\* responses, refreshes and drains come in (all handlers of mem_ctrl.cc).
THEOREM TypeCorrect == Spec => []TypeOK
<1>1. IInv => TypeOK
  BY DEF IInv
<1> QED BY <1>1, InvHolds, PTL

\* What the handlers keep in two places agrees, as the asserts of mem_ctrl.cc
\* say: the queues fit their buffers, isInWriteQueue is the set of addresses of
\* the write queue, and every burst of an accepted read is counted or queued.
THEOREM QueuesAgree == Spec => []QueuesConsistent
<1>1. ASSUME IInv PROVE QueuesConsistent
  <2>1. /\ readQueue \in Seq(Packet) /\ respQueue \in Seq(Packet)
        /\ writeQueue \in Seq(Packet)
    BY <1>1 DEF IInv, TypeOK
  <2>2. /\ isInWriteQueue = {w.addr : w \in ToSet(writeQueue)}
        /\ Cardinality(isInWriteQueue) = Len(writeQueue)
    <3>1. isInWriteQueue = Addrs(writeQueue) /\ Distinct(writeQueue)
      BY <1>1 DEF IInv, Written
    <3>2. Cardinality(Addrs(writeQueue)) = Len(writeQueue)
      BY <2>1, <3>1, AddrsCounted
    <3> QED BY <3>1, <3>2 DEF Addrs
  <2>3. ASSUME NEW r \in Requests
        PROVE  IF status[r] = "accepted"
               THEN /\ PacketsOf(r) # {}
                    /\ serviced[r] + Cardinality(PacketsOf(r)) = Len(Pieces[r])
               ELSE PacketsOf(r) = {}
    <3>1. Cardinality(PacketsOf(r)) = Pending(r) /\ (PacketsOf(r) = {} <=> Pending(r) = 0)
      <4>1. PacketsOf(r) = Both(readQueue, respQueue, r)
        BY DEF PacketsOf, Both, Places
      <4> QED BY <2>1, <4>1, TwoQueues DEF Pending
    <3>2. IF status[r] = "accepted"
          THEN Pending(r) > 0 /\ serviced[r] + Pending(r) = Len(Pieces[r])
          ELSE Pending(r) = 0
      BY <1>1 DEF IInv, Counted
    <3>3. Pending(r) > 0 => Pending(r) # 0
      OBVIOUS
    <3> QED BY <3>1, <3>2, <3>3, Zenon
  <2> QED BY <1>1, <2>2, <2>3, Zenon DEF QueuesConsistent, IInv, Fits
<1> QED BY <1>1, InvHolds, PTL

\* The request loop and the refresh loop never wait for each other, and a
\* write turn always has a write left (processNextReqEvent, checkDrainDone).
THEOREM NeverAsleep == Spec => []NeverSleepsOnWork
<1>1. IInv => NeverSleepsOnWork
  BY DEF IInv
<1> QED BY <1>1, InvHolds, PTL

\* A refused request is remembered by the flag of its own kind and no flag
\* stays up without one: no retry is lost, none is sent to a port that waits
\* for nothing (recvTimingReq, processRespondEvent, processNextReqEvent).
THEOREM RetriesKept == Spec => []RetryRemembered
<1>1. IInv => RetryRemembered
  BY DEF IInv
<1> QED BY <1>1, InvHolds, PTL

-----------------------------------------------------------------------------
(* The controller implements MemService                                    *)

Left == [r \in Requests |-> Pending(r)]

LEMMA LeftNow ==
  ASSUME TypeOK
  PROVE  [r \in Requests |-> Cardinality(PacketsOf(r))] = Left
<1>1. readQueue \in Seq(Packet) /\ respQueue \in Seq(Packet)
  BY DEF TypeOK
<1>2. ASSUME NEW r \in Requests PROVE Cardinality(PacketsOf(r)) = Pending(r)
  <2>1. PacketsOf(r) = Both(readQueue, respQueue, r)
    BY DEF PacketsOf, Both, Places
  <2> QED BY <1>1, <2>1, TwoQueues DEF Pending
<1> QED BY <1>2 DEF Left

LEMMA LeftNext ==
  ASSUME TypeOK'
  PROVE  [r \in Requests |-> Cardinality(PacketsOf(r))]' = Left'
<1>1. readQueue' \in Seq(Packet) /\ respQueue' \in Seq(Packet)
  BY DEF TypeOK
<1>2. ASSUME NEW r \in Requests PROVE Cardinality(PacketsOf(r))' = Pending(r)'
  <2>1. PacketsOf(r)' = Both(readQueue', respQueue', r)
    BY DEF PacketsOf, Both, Places
  <2>2. Cardinality(Both(readQueue', respQueue', r)) = Count(readQueue', r) + Count(respQueue', r)
    BY <1>1, TwoQueues
  <2> QED BY <2>1, <2>2 DEF Pending
<1> QED BY <1>2 DEF Left

\* The steps of MemService, in terms of the controller's state.
Refused(r) ==
  /\ r \notin Answered /\ Left[r] = 0
  /\ Blocked = {} /\ Blocked' = {r}
  /\ UNCHANGED <<Left, Answered>>

Taken(r) ==
  /\ r \notin Answered /\ Left[r] = 0 /\ Blocked = {}
  /\ \E n \in 0..Len(Pieces[r]) :
        /\ Left' = [Left EXCEPT ![r] = n]
        /\ Answered' = IF n = 0 THEN Answered \cup {r} ELSE Answered
  /\ UNCHANGED Blocked

Served(r) ==
  /\ Left[r] > 0
  /\ Left' = [Left EXCEPT ![r] = Left[r] - 1]
  /\ Answered' = IF Left[r] = 1 THEN Answered \cup {r} ELSE Answered
  /\ Blocked' \in {Blocked, {}}

Idle == UNCHANGED <<Left, Answered>> /\ Blocked' \in {Blocked, {}}

LEMMA StateFacts ==
  /\ \A r \in Requests : Left[r] = Pending(r) /\ Left'[r] = Pending(r)'
  /\ \A r : r \in Answered <=> r \in Requests /\ status[r] = "answered"
  /\ \A r : r \in Answered' <=> r \in Requests /\ status'[r] = "answered"
  /\ \A r : r \in Blocked <=> r \in Requests /\ status[r] = "refused"
  /\ \A r : r \in Blocked' <=> r \in Requests /\ status'[r] = "refused"
BY DEF Left, Answered, Blocked

LEMMA LeftKept ==
  ASSUME UNCHANGED <<readQueue, respQueue>>
  PROVE  UNCHANGED Left
BY DEF Left, Pending

\* A request is refused, answered at once, or joins the read queue.
LEMMA RecvService ==
  ASSUME IInv, NEW r \in Requests, recvTimingReq(r)
  PROVE  Refused(r) \/ Taken(r)
<1>1. status \in [Requests -> Status]
  BY DEF IInv, TypeOK, Status
<1>2. /\ r \notin Answered /\ Blocked = {} /\ Left[r] = 0
      /\ status[r] # "answered" /\ status[r] # "refused" /\ Pending(r) = 0
  <2>1. /\ status[r] # "answered" /\ Pending(r) = 0
        /\ \A q \in Requests : status[q] # "refused"
    BY Sendable DEF recvTimingReq
  <2> QED BY <2>1, StateFacts
<1>3. UNCHANGED respQueue
  BY DEF recvTimingReq
<1>4. Left \in [Requests -> {Pending(q) : q \in Requests}] /\ Left = [Left EXCEPT ![r] = Left[r]]
  BY DEF Left
<1>5. ASSUME status' = [status EXCEPT ![r] = "refused"], UNCHANGED readQueue
      PROVE  Refused(r)
  <2>1. UNCHANGED Left
    BY <1>3, <1>5, LeftKept
  <2>2. \A q \in Requests : status'[q] = IF q = r THEN "refused" ELSE status[q]
    BY <1>1, <1>5
  <2>3. \A q : q \in Blocked' <=> q = r
    <3>1. \A q \in Requests : q \notin Blocked
      BY <1>2
    <3> QED BY <2>2, <3>1, StateFacts
  <2>4. \A q : q \in Answered' <=> q \in Answered
    BY <1>2, <2>2, StateFacts
  <2>5. Blocked' = {r} /\ Answered' = Answered
    BY <2>3, <2>4
  <2> QED BY <1>2, <2>1, <2>5 DEF Refused
<1>6. ASSUME status' = [status EXCEPT ![r] = "answered"], UNCHANGED readQueue
      PROVE  Taken(r)
  <2>1. UNCHANGED Left
    BY <1>3, <1>6, LeftKept
  <2>2. \A q \in Requests : status'[q] = IF q = r THEN "answered" ELSE status[q]
    BY <1>1, <1>6
  <2>3. \A q : q \in Blocked' <=> q \in Blocked
    BY <1>2, <2>2, StateFacts
  <2>4. \A q : q \in Answered' <=> q \in Answered \/ q = r
    BY <1>2, <2>2, StateFacts
  <2>5. Blocked' = Blocked /\ Answered' = Answered \cup {r}
    BY <2>3, <2>4
  <2>6. 0 \in 0..Len(Pieces[r]) /\ Left' = [Left EXCEPT ![r] = 0]
    BY <1>2, <1>4, <2>1, PieceFacts
  <2>7. \E n \in 0..Len(Pieces[r]) :
          /\ Left' = [Left EXCEPT ![r] = n]
          /\ Answered' = IF n = 0 THEN Answered \cup {r} ELSE Answered
    BY <2>5, <2>6
  <2> QED BY <1>2, <2>5, <2>7 DEF Taken
<1>7. ASSUME NEW I \in SUBSET (DOMAIN Pieces[r]), NEW t, t = Sift(Pieces[r], I), t # <<>>,
             status' = [status EXCEPT ![r] = "accepted"],
             readQueue' = readQueue \o Packets(r, t)
      PROVE  Taken(r)
  <2>1. /\ Packets(r, t) \in Seq(Packet) /\ Len(t) \in Nat
        /\ Len(t) <= Len(Pieces[r]) /\ Len(t) # 0
        /\ \A q : Count(Packets(r, t), q) = IF q = r THEN Len(t) ELSE 0
    <3>1. Adds(r, t, I)
      BY <1>7, NewPackets
    <3> QED BY <1>7, <3>1, Zenon DEF Adds
  <2>2. \A q : /\ Pending(q) \in Nat
               /\ Pending(q)' = Pending(q) + (IF q = r THEN Len(t) ELSE 0)
    BY <1>3, <1>7, <2>1, ReadQueued
  <2>3. \A q \in Requests : status'[q] = IF q = r THEN "accepted" ELSE status[q]
    BY <1>1, <1>7
  <2>4. \A q : (q \in Blocked' <=> q \in Blocked) /\ (q \in Answered' <=> q \in Answered)
    BY <1>2, <2>3, StateFacts
  <2>5. Blocked' = Blocked /\ Answered' = Answered
    BY <2>4
  <2>6. Left' = [Left EXCEPT ![r] = Len(t)]
    <3>1. \A q \in Requests : Pending(q)' = IF q = r THEN Len(t) ELSE Pending(q)
      BY <1>2, <2>1, <2>2
    <3>2. Left' = [q \in Requests |-> IF q = r THEN Len(t) ELSE Pending(q)]
      BY <3>1 DEF Left
    <3>3. [Left EXCEPT ![r] = Len(t)] = [q \in Requests |-> IF q = r THEN Len(t) ELSE Pending(q)]
      BY DEF Left
    <3> QED BY <3>2, <3>3, Zenon
  <2>7. Len(t) \in 0..Len(Pieces[r])
    BY <2>1, PieceFacts
  <2>8. \E n \in 0..Len(Pieces[r]) :
          /\ Left' = [Left EXCEPT ![r] = n]
          /\ Answered' = IF n = 0 THEN Answered \cup {r} ELSE Answered
    BY <2>1, <2>5, <2>6, <2>7, Zenon
  <2> QED BY <1>2, <2>5, <2>8, Zenon DEF Taken
<1>8. CASE RecvRead(r)
  <2> DEFINE I == {i \in DOMAIN Pieces[r] : ~FoundInWrQ(Pieces[r][i])}
             t == Sift(Pieces[r], I)
  <2>1. CASE readQueueFull(Len(Pieces[r]))
    BY <1>5, <1>8, <2>1 DEF RecvRead
  <2>2. CASE ~readQueueFull(Len(Pieces[r])) /\ t = <<>>
    BY <1>6, <1>8, <2>2 DEF RecvRead, addToReadQueue
  <2>3. CASE ~readQueueFull(Len(Pieces[r])) /\ t # <<>>
    <3>1. I \in SUBSET (DOMAIN Pieces[r])
      OBVIOUS
    <3>2. /\ status' = [status EXCEPT ![r] = "accepted"]
          /\ readQueue' = readQueue \o Packets(r, t)
      BY <1>8, <2>3 DEF RecvRead, addToReadQueue
    <3> HIDE DEF I
    <3> QED BY <1>7, <2>3, <3>1, <3>2
  <2> QED BY <2>1, <2>2, <2>3
<1>9. CASE RecvWrite(r)
  <2>1. UNCHANGED readQueue
    BY <1>9 DEF RecvWrite
  <2>2. \/ status' = [status EXCEPT ![r] = "refused"]
        \/ status' = [status EXCEPT ![r] = "answered"]
    BY <1>9 DEF RecvWrite, addToWriteQueue
  <2> QED BY <1>5, <1>6, <2>1, <2>2
<1> QED BY <1>8, <1>9 DEF recvTimingReq

\* A response is one burst of the read at the head of the queue.
LEMMA RespondService ==
  ASSUME IInv, processRespondEvent
  PROVE  \E r \in Requests : Served(r)
<1> DEFINE r == Head(respQueue).req
<1>1. r = Head(respQueue).req
  OBVIOUS
<1> HIDE DEF r
<1>2. /\ r \in Requests /\ Pending(r) \in Nat \ {0}
      /\ \A q \in Requests : /\ Pending(q) \in Nat
                             /\ Pending(q)' = Pending(q) - (IF q = r THEN 1 ELSE 0)
      /\ status[r] = "accepted"
      /\ \A q \in Requests : q # r \/ Pending(r) # 1
            => (status'[q] = "answered" <=> status[q] = "answered")
      /\ Pending(r) = 1 => status'[r] = "answered"
      /\ Blocked' \in {Blocked, {}}
  BY <1>1, RespondEffect, Zenon
<1>3. Left[r] > 0 /\ Left[r] = Pending(r)
  BY <1>2 DEF Left
<1>4. Left' = [Left EXCEPT ![r] = Left[r] - 1]
  <2>1. \A q \in Requests : Pending(q)' = IF q = r THEN Pending(r) - 1 ELSE Pending(q)
    BY <1>2
  <2>2. Left' = [q \in Requests |-> IF q = r THEN Pending(r) - 1 ELSE Pending(q)]
    BY <2>1 DEF Left
  <2>3. [Left EXCEPT ![r] = Pending(r) - 1]
          = [q \in Requests |-> IF q = r THEN Pending(r) - 1 ELSE Pending(q)]
    BY DEF Left
  <2> QED BY <1>3, <2>2, <2>3, Zenon
<1>5. Answered' = IF Left[r] = 1 THEN Answered \cup {r} ELSE Answered
  <2>1. CASE Pending(r) = 1
    <3>1. \A q : q \in Answered' <=> q \in Answered \/ q = r
      BY <1>2, <2>1, StateFacts
    <3> QED BY <1>3, <2>1, <3>1
  <2>2. CASE Pending(r) # 1
    <3>1. \A q : q \in Answered' <=> q \in Answered
      BY <1>2, <2>2, StateFacts
    <3> QED BY <1>3, <2>2, <3>1
  <2> QED BY <2>1, <2>2
<1>6. Served(r)
  BY <1>2, <1>3, <1>4, <1>5, Zenon DEF Served
<1> QED BY <1>2, <1>6

\* A handler run that schedules the next one answers nothing, and may tell
\* the port to retry.
LEMMA ScheduledService ==
  ASSUME IInv, StartRequestEvent, NEW n, ScheduleNext(n), UNCHANGED Left
  PROVE  Idle
<1>1. UNCHANGED retryRdReq
  BY StartFacts
<1>2. /\ \A q \in Requests : status'[q] = "answered" <=> status[q] = "answered"
      /\ Blocked' \in {Blocked, {}}
  BY <1>1, Scheduled
<1>3. Answered' = Answered
  <2>1. \A q : q \in Answered' <=> q \in Answered
    BY <1>2, StateFacts
  <2> QED BY <2>1
<1> QED BY <1>2, <1>3 DEF Idle

LEMMA QuietService ==
  ASSUME UNCHANGED <<status, readQueue, respQueue>>
  PROVE  Idle
<1>1. UNCHANGED Left
  BY LeftKept
<1>2. UNCHANGED <<Answered, Blocked>>
  BY DEF Answered, Blocked
<1> QED BY <1>1, <1>2 DEF Idle

LEMMA RequestService ==
  ASSUME IInv, processNextReqEvent
  PROVE  Idle
<1>1. CASE AllRanksBusy \/ NothingToDo \/ NoneFound
  <2>1. UNCHANGED <<status, readQueue, respQueue>>
    BY <1>1 DEF AllRanksBusy, NothingToDo, NoneFound, Return
  <2> QED BY <2>1, QuietService
<1>2. CASE SwitchToWrites
  <2>1. StartRequestEvent /\ ScheduleNext(Len(writeQueue)) /\ UNCHANGED <<readQueue, respQueue>>
    BY <1>2 DEF SwitchToWrites
  <2> QED BY <2>1, LeftKept, ScheduledService
<1>3. ASSUME NEW i \in 1..Len(readQueue), IssueRead(i) PROVE Idle
  <2>1. StartRequestEvent /\ ScheduleNext(Len(writeQueue))
    BY <1>3 DEF IssueRead
  <2>2. UNCHANGED Left
    <3>1. \A q : Pending(q)' = Pending(q)
      BY <1>3, ReadIssued
    <3> QED BY <3>1 DEF Left
  <2> QED BY <2>1, <2>2, ScheduledService
<1>4. ASSUME NEW i \in 1..Len(writeQueue), IssueWrite(i) PROVE Idle
  <2>1. /\ StartRequestEvent /\ ScheduleNext(Len(writeQueue) - 1)
        /\ UNCHANGED <<readQueue, respQueue>>
    BY <1>4, Zenon DEF IssueWrite
  <2> QED BY <2>1, LeftKept, ScheduledService
<1> QED BY <1>1, <1>2, <1>3, <1>4 DEF processNextReqEvent

\* Every step of the controller is a step of the service, or none.
LEMMA StepService ==
  ASSUME IInv, [Next]_vars
  PROVE  \/ \E r \in Requests : Refused(r) \/ Taken(r) \/ Served(r)
         \/ Idle
<1>1. ASSUME NEW r \in Requests, recvTimingReq(r) PROVE Refused(r) \/ Taken(r)
  BY <1>1, RecvService
<1>2. CASE processRespondEvent
  BY <1>2, RespondService
<1>3. CASE processNextReqEvent
  BY <1>3, RequestService
<1>4. ASSUME NEW k \in Ranks, RefreshDue(k) \/ RefreshDone(k) \/ CloseBanks(k) PROVE Idle
  <2>1. UNCHANGED <<status, readQueue, respQueue>>
    BY <1>4 DEF RefreshDue, RefreshDone, CloseBanks, queueVars
  <2> QED BY <2>1, QuietService
<1>5. CASE drain \/ drainResume \/ UNCHANGED vars
  <2>1. UNCHANGED <<status, readQueue, respQueue>>
    BY <1>5 DEF drain, drainResume, vars, queueVars
  <2> QED BY <2>1, QuietService
<1> QED BY <1>1, <1>2, <1>3, <1>4, <1>5 DEF Next

LEMMA ServiceInit == Init => Service!Init
<1> SUFFICES ASSUME Init PROVE Service!Init
  OBVIOUS
<1>1. IInv
  BY InvInit
<1>2. [r \in Requests |-> Cardinality(PacketsOf(r))] = Left
  BY <1>1, LeftNow DEF IInv
<1>3. \A r \in Requests : status[r] # "accepted" /\ status[r] # "refused" /\ status[r] # "answered"
  BY DEF Init
<1>4. \A r \in Requests : Pending(r) = 0
  BY <1>1, <1>3 DEF IInv, Counted
<1>5. Left = [r \in Requests |-> 0]
  BY <1>4 DEF Left
<1>6. Answered = {} /\ Blocked = {}
  BY <1>3 DEF Answered, Blocked
<1> QED BY <1>2, <1>5, <1>6 DEF Service!Init, Answered, Blocked

LEMMA ServiceNext == IInv /\ IInv' /\ [Next]_vars => [Service!Next]_(Service!vars)
<1> SUFFICES ASSUME IInv, IInv', [Next]_vars PROVE [Service!Next]_(Service!vars)
  OBVIOUS
<1> DEFINE L == [r \in Requests |-> Cardinality(PacketsOf(r))]
<1>1. L = Left /\ L' = Left'
  BY LeftNow, LeftNext DEF IInv
<1> HIDE DEF L
<1>2. \A r \in Requests : [q \in Requests |-> Len(Pieces[q])][r] = Len(Pieces[r])
  OBVIOUS
<1>3. ASSUME NEW r \in Requests, Refused(r) PROVE Service!Refuse(r)
  BY <1>1, <1>3 DEF Refused, Service!Refuse, L, Answered, Blocked
<1>4. ASSUME NEW r \in Requests, Taken(r) PROVE Service!Take(r)
  BY <1>1, <1>2, <1>4 DEF Taken, Service!Take, L, Answered, Blocked
<1>5. ASSUME NEW r \in Requests, Served(r) PROVE Service!Serve(r)
  BY <1>1, <1>5 DEF Served, Service!Serve, L, Answered, Blocked
<1>6. ASSUME Idle PROVE Service!Unblock \/ UNCHANGED Service!vars
  BY <1>1, <1>6 DEF Idle, Service!Unblock, Service!vars, L, Answered, Blocked
<1> QED BY <1>3, <1>4, <1>5, <1>6, StepService DEF Service!Next

\* The controller implements the service its port relies on: a request is
\* refused or taken, a taken one is answered exactly when its last burst has
\* arrived, never before and never twice (recvTimingReq, accessAndRespond).
THEOREM ServiceImplemented == Spec => ImplementsService
<1>1. Service!Init /\ [][Service!Next]_(Service!vars) => ImplementsService
  BY DEF ImplementsService, Service!Spec
<1> QED BY <1>1, InvHolds, ServiceInit, ServiceNext, PTL DEF Spec

-----------------------------------------------------------------------------
(* BlockHammer, for every threshold, window and set of sources: a row that *)
(* is read by one request at a time stays below the threshold.  The        *)
(* invariant is inductive once it says what the last permitted activation  *)
(* leaves behind: a source that is held to the end of the window at least. *)

\* A solo counter stands at the last permitted count only while its source is
\* held to the end of the window.
LastIsHeld ==
    \A s \in Sources :
        Solo(DRAMRowID(s)) /\ count[DRAMRowID(s)] = Threshold - 2
            => wait[s] + elapsed >= Window

\* The counters of the window before obeyed the same bound.
PreviousBelow == \A d \in RowIDs : Solo(d) => previous[d] < Threshold - 1

BlockHammerInv == BlockHammerTypeOK /\ ThrottledBelowThreshold /\ PreviousBelow /\ LastIsHeld

\* Half of the threshold, rounded down, doubled.
LEMMA ThresholdFacts ==
    Threshold \in Nat /\ 2 * Threshold <= ActualThreshold
  BY BlockHammerAssumption DEF Threshold

LEMMA BlackListFacts == BlackListThreshold \in Nat
  <1>1. Threshold * BlackListPercent \in Nat
    BY ThresholdFacts, BlockHammerAssumption
  <1> QED  BY <1>1 DEF BlackListThreshold

\* Unsigned arithmetic that does not wrap.
LEMMA NoWrap == ASSUME NEW x \in Nat, x < Wrap PROVE x % Wrap = x
  BY BlockHammerAssumption

\* What the activations left are, below and at the last permitted count.
LEMMA RemainingBelow ==
    ASSUME NEW c \in Nat, c <= Threshold - 2
    PROVE  ACTs_Remaining(c) = Threshold - c - 1
  BY ThresholdFacts, BlockHammerAssumption, NoWrap DEF ACTs_Remaining

LEMMA RemainingType ==
    ASSUME NEW c \in Nat PROVE ACTs_Remaining(c) \in Nat
  BY ThresholdFacts, BlockHammerAssumption DEF ACTs_Remaining

\* The delay is a number of ticks when the division is not by zero.
LEMMA DelayType ==
    ASSUME NEW at \in 0..Window, NEW c \in Nat,
           ~(c >= BlackListThreshold /\ ACTs_Remaining(c) = 0)
    PROVE  MC_delay(at, c) \in Nat
  <1>1. CASE c >= BlackListThreshold
    <2>1. ACTs_Remaining(c) \in Nat \ {0}
      BY <1>1, RemainingType
    <2>2. Window - at \in Nat
      BY BlockHammerAssumption
    <2>3. \A x \in Nat : \A r \in Nat \ {0} : x \div r \in Nat
      OBVIOUS
    <2> QED  BY <1>1, <2>1, <2>2, <2>3 DEF MC_delay
  <1>2. CASE ~(c >= BlackListThreshold)
    BY <1>2 DEF MC_delay
  <1> QED  BY <1>1, <1>2

\* The last permitted activation is held to the end of the window.
LEMMA LastDelay ==
    ASSUME NEW at \in 0..Window
    PROVE  MC_delay(at, Threshold - 2) = Window - at
  <1>1. ACTs_Remaining(Threshold - 2) = 1
    BY RemainingBelow, ThresholdFacts, ThrottleAssumption
  <1>2. Window - at \in Int /\ \A x \in Int : x \div 1 = x
    BY BlockHammerAssumption
  <1> QED  BY <1>1, <1>2, ThrottleAssumption, BlackListFacts, ThresholdFacts
           DEF MC_delay

LEMMA RowIDInt == \A s \in Sources : DRAMRowID(s) \in RowIDs
  BY DEF RowIDs

\* The invariant holds of the new counters.
LEMMA BlockHammerInvInit == BlockHammerInit => BlockHammerInv
  <1> SUFFICES ASSUME BlockHammerInit PROVE BlockHammerInv
    OBVIOUS
  <1> USE ThresholdFacts, BlockHammerAssumption, ThrottleAssumption DEF BlockHammerInit
  <1>1. BlockHammerTypeOK
    <2>1. trapped \in BOOLEAN
      BY Zenon
    <2> QED  BY <2>1 DEF BlockHammerTypeOK
  <1>2. ThrottledBelowThreshold
    BY DEF ThrottledBelowThreshold
  <1>3. PreviousBelow
    BY DEF PreviousBelow
  <1>4. LastIsHeld
    BY RowIDInt DEF LastIsHeld
  <1> QED  BY <1>1, <1>2, <1>3, <1>4 DEF BlockHammerInv

\* A tick preserves it: a held source comes one tick nearer to the end.
LEMMA BlockHammerTick == ASSUME BlockHammerInv, TimePasses PROVE BlockHammerInv'
  <1> USE BlockHammerAssumption
  <1>1. BlockHammerTypeOK'
    BY DEF BlockHammerInv, TimePasses, BlockHammerTypeOK
  <1>2. ThrottledBelowThreshold'
    BY DEF BlockHammerInv, TimePasses, ThrottledBelowThreshold
  <1>3. PreviousBelow'
    BY DEF BlockHammerInv, TimePasses, PreviousBelow
  <1>4. LastIsHeld'
    <2> SUFFICES ASSUME NEW s \in Sources, Solo(DRAMRowID(s)),
                        count[DRAMRowID(s)] = Threshold - 2
                 PROVE  wait'[s] + elapsed' >= Window
      BY DEF LastIsHeld, TimePasses
    <2>1. wait[s] + elapsed >= Window
      BY DEF BlockHammerInv, LastIsHeld
    <2>2. elapsed \in 0..Window /\ wait[s] \in Nat
      BY DEF BlockHammerInv, BlockHammerTypeOK
    <2>3. wait'[s] = IF wait[s] > 0 THEN wait[s] - 1 ELSE 0
      BY DEF TimePasses
    <2>4. elapsed' = IF elapsed < Window THEN elapsed + 1 ELSE Window
      BY DEF TimePasses
    <2> QED  BY <2>1, <2>2, <2>3, <2>4
  <1> QED  BY <1>1, <1>2, <1>3, <1>4 DEF BlockHammerInv

\* An access preserves it: a source at the last permitted count is free again
\* only at the end of the window, where the counters start anew.
LEMMA BlockHammerAccess == ASSUME BlockHammerInv, NEW s \in Sources, access(s) PROVE BlockHammerInv'
  <1> DEFINE ended == elapsed >= Window
             at == IF ended THEN 0 ELSE elapsed
             base == IF ended THEN [d \in RowIDs |-> 0] ELSE count
             c == base[DRAMRowID(s)] + 1
  <1> USE BlockHammerAssumption, ThresholdFacts, ThrottleAssumption
  <1>1. /\ elapsed \in 0..Window /\ count \in [RowIDs -> Nat]
        /\ previous \in [RowIDs -> Nat] /\ wait \in [Sources -> Nat]
    BY DEF BlockHammerInv, BlockHammerTypeOK
  <1>2. at \in 0..Window /\ base \in [RowIDs -> Nat]
    BY <1>1
  <1>3. DRAMRowID(s) \in RowIDs /\ c \in Nat
    BY <1>2, RowIDInt
  <1>4. /\ ~trapped /\ wait[s] = 0
        /\ elapsed' = at
        /\ count' = [base EXCEPT ![DRAMRowID(s)] = c]
        /\ previous' = IF ended THEN count ELSE previous
        /\ trapped' = (c >= BlackListThreshold /\ ACTs_Remaining(c) = 0)
        /\ \E l \in Latencies :
              wait' = IF trapped' \/ s \in Writers THEN wait
                      ELSE [wait EXCEPT ![s] = l + MC_delay(at, c)]
    BY DEF access
  <1>l. PICK l \in Latencies :
            wait' = IF trapped' \/ s \in Writers THEN wait
                    ELSE [wait EXCEPT ![s] = l + MC_delay(at, c)]
    BY <1>4
  <1>n. l \in Nat
    OBVIOUS
  <1> HIDE DEF at, c, base
  <1>5. trapped' \in BOOLEAN /\ wait' \in [Sources -> Nat]
    <2>1. CASE trapped' \/ s \in Writers
      BY <1>1, <1>4, <1>l, <2>1
    <2>2. CASE ~(trapped' \/ s \in Writers)
      <3>1. MC_delay(at, c) \in Nat
        BY <1>2, <1>3, <1>4, <2>2, DelayType
      <3>2. l + MC_delay(at, c) \in Nat
        BY <1>n, <3>1
      <3> QED  BY <1>1, <1>4, <1>l, <2>2, <3>2
    <2>3. trapped' \in BOOLEAN
      BY <1>4
    <2> QED  BY <2>1, <2>2, <2>3
  <1>6. BlockHammerTypeOK'
    <2>1. count' \in [RowIDs -> Nat]
      BY <1>2, <1>3, <1>4
    <2>2. previous' \in [RowIDs -> Nat]
      BY <1>1, <1>4
    <2> QED  BY <1>2, <1>4, <1>5, <2>1, <2>2 DEF BlockHammerTypeOK
  <1>7. \A d \in RowIDs : Solo(d) => base[d] < Threshold - 1
    BY <1>1 DEF base, BlockHammerInv, ThrottledBelowThreshold
  <1>8. Solo(DRAMRowID(s)) => c < Threshold - 1
    <2> SUFFICES ASSUME Solo(DRAMRowID(s)) PROVE c < Threshold - 1
      OBVIOUS
    <2>1. CASE ended
      BY <2>1, <1>3 DEF base, c
    <2>2. CASE ~ended
      <3>1. count[DRAMRowID(s)] # Threshold - 2
        BY <1>1, <1>4, <2>2 DEF BlockHammerInv, LastIsHeld
      <3>2. count[DRAMRowID(s)] < Threshold - 1
        BY <1>3 DEF BlockHammerInv, ThrottledBelowThreshold
      <3>3. c = count[DRAMRowID(s)] + 1 /\ count[DRAMRowID(s)] \in Nat
        BY <1>1, <1>3, <2>2 DEF base, c
      <3> QED  BY <3>1, <3>2, <3>3
    <2> QED  BY <2>1, <2>2
  <1>9. ThrottledBelowThreshold'
    BY <1>2, <1>3, <1>4, <1>7, <1>8 DEF ThrottledBelowThreshold
  <1>10. PreviousBelow'
    BY <1>4 DEF BlockHammerInv, PreviousBelow, ThrottledBelowThreshold
  <1>11. LastIsHeld'
    <2> SUFFICES ASSUME NEW t \in Sources, Solo(DRAMRowID(t)),
                        count'[DRAMRowID(t)] = Threshold - 2
                 PROVE  wait'[t] + elapsed' >= Window
      BY DEF LastIsHeld
    <2>1. DRAMRowID(t) \in RowIDs
      BY RowIDInt
    <2>2. CASE t = s
      <3>1. c = Threshold - 2
        BY <1>2, <1>3, <1>4, <2>2
      <3>2. s \notin Writers
        BY <2>2 DEF Solo
      <3>3. ACTs_Remaining(c) = 1
        BY <3>1, RemainingBelow, <1>3
      <3>4. wait'[s] = l + MC_delay(at, c)
        <4>0. ~(ACTs_Remaining(c) = 0)
          BY <3>3
        <4>1. ~trapped'
          BY <1>4, <4>0, Zenon
        <4> QED  BY <1>1, <1>l, <3>2, <4>1
      <3>5. MC_delay(at, c) = Window - at
        BY <3>1, <1>2, LastDelay
      <3> QED  BY <2>2, <3>4, <3>5, <1>n, <1>2, <1>4
    <2>3. CASE t # s
      <3>1. DRAMRowID(t) # DRAMRowID(s)
        BY <2>3 DEF Solo
      <3>2. base[DRAMRowID(t)] = Threshold - 2
        BY <1>2, <1>3, <1>4, <2>1, <3>1
      <3>3. wait'[t] = wait[t]
        BY <1>1, <1>l, <2>3
      <3>4. CASE ended
        BY <3>2, <3>4, <2>1 DEF base
      <3>5. CASE ~ended
        <4>1. wait[t] + elapsed >= Window
          BY <3>2, <3>5 DEF base, BlockHammerInv, LastIsHeld
        <4> QED  BY <4>1, <3>3, <3>5, <1>4 DEF at
      <3> QED  BY <3>4, <3>5
    <2> QED  BY <2>2, <2>3
  <1> QED  BY <1>6, <1>9, <1>10, <1>11 DEF BlockHammerInv

\* The invariant is inductive.
LEMMA BlockHammerInvNext == BlockHammerInv /\ [BlockHammerNext]_BlockHammerVars => BlockHammerInv'
  <1> SUFFICES ASSUME BlockHammerInv, [BlockHammerNext]_BlockHammerVars PROVE BlockHammerInv'
    OBVIOUS
  <1>1. CASE TimePasses
    BY <1>1, BlockHammerTick
  <1>2. ASSUME NEW s \in Sources, access(s) PROVE BlockHammerInv'
    BY <1>2, BlockHammerAccess
  <1>3. CASE UNCHANGED BlockHammerVars
    BY <1>3 DEF BlockHammerVars, BlockHammerInv, BlockHammerTypeOK,
                ThrottledBelowThreshold, PreviousBelow, LastIsHeld
  <1> QED  BY <1>1, <1>2, <1>3 DEF BlockHammerNext

LEMMA BlockHammerInvHolds == BlockHammerSpec => []BlockHammerInv
  BY BlockHammerInvInit, BlockHammerInvNext, PTL DEF BlockHammerSpec

\* The counters, delays and clock of BlockHammer keep their types.
THEOREM BlockHammerTypeCorrect == BlockHammerSpec => []BlockHammerTypeOK
  <1>1. BlockHammerInv => BlockHammerTypeOK
    BY DEF BlockHammerInv
  <1> QED  BY <1>1, BlockHammerInvHolds, PTL

\* A row that one request at a time reads stays below threshold - 1 in every
\* window: the delays of access() add up to the rest of the window before the
\* count where its division is by zero.
THEOREM ThrottlingWorks == BlockHammerSpec => []ThrottledBelowThreshold
  <1>1. BlockHammerInv => ThrottledBelowThreshold
    BY DEF BlockHammerInv
  <1> QED  BY <1>1, BlockHammerInvHolds, PTL

\* The activations of two windows, however the reset splits them, stay below
\* what the row survives: the halved threshold of the controller suffices.
THEOREM HalvingSuffices == BlockHammerSpec => []ActualThresholdKept
  <1>1. BlockHammerInv => ActualThresholdKept
    <2> SUFFICES ASSUME BlockHammerInv, NEW d \in RowIDs, Solo(d)
                 PROVE  previous[d] + count[d] < ActualThreshold
      BY DEF ActualThresholdKept
    <2>1. previous[d] \in Nat /\ count[d] \in Nat
      BY DEF BlockHammerInv, BlockHammerTypeOK
    <2>2. previous[d] < Threshold - 1 /\ count[d] < Threshold - 1
      BY DEF BlockHammerInv, PreviousBelow, ThrottledBelowThreshold
    <2> QED  BY <2>1, <2>2, ThresholdFacts, BlockHammerAssumption
  <1> QED  BY <1>1, BlockHammerInvHolds, PTL

=============================================================================
