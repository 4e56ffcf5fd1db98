--------------------------- MODULE BankTimingProofs ---------------------------
(***************************************************************************)
(* The ticks of activates, for every number of banks and all timings and   *)
(* delays that TimingAssumption allows: mitigations are not cut short, and *)
(* the limits of the DRAM are kept with mitigations and refreshes between. *)
(***************************************************************************)
EXTENDS BankTiming, FiniteSetTheorems, SequenceTheorems, WellFoundedInduction, TLAPS

\* A record of the banks as the handlers take it.
Typed(x) ==
  x \in [bank : [Banks -> [openRow : Int, act : Nat, pre : Nat, col : Int]],
         active : Int,
         ticks : [1 .. ActivationLimit -> Int],
         pre : Nat]

IsOpen(x, c) == x.bank[c].openRow # NO_ROW

\* When the bank of an activate at la and a mitigation until mi may go on: an
\* open bank has its precharge before it, a closed one has it behind it.
Spaced(x, la, mi) ==
  \A c \in Banks :
    /\ mi[c] <= x.bank[c].act
    /\ IsOpen(x, c) => /\ mi[c] <= x.bank[c].pre + tRP + tRFC
                       /\ la[c] + tRAS <= x.bank[c].pre
    /\ ~IsOpen(x, c) => /\ mi[c] <= x.pre + tRFC
                        /\ la[c] + tRAS + tRP <= x.pre
                        /\ la[c] + tRAS + tRP <= x.bank[c].act

\* No bank may be activated before the window of the oldest activate is over,
\* and no activate is later than the precharges, done or to come.
Limited(x) ==
  /\ \A c \in Banks : x.ticks[ActivationLimit] + tXAW <= x.bank[c].act
  /\ \A i \in 1 .. ActivationLimit :
       \/ x.ticks[i] <= x.pre
       \/ \E c \in Banks : IsOpen(x, c) /\ x.ticks[i] <= x.bank[c].pre

History(la, mi) == la \in [Banks -> Int] /\ mi \in [Banks -> Nat]

\* The assumption on the delays, in the parts that matter here.
GoodDelays ==
  /\ tRP \in Nat /\ tRAS \in Nat /\ tRRD \in Nat /\ tRFC \in Nat /\ tXAW \in Nat
  /\ tRCD \in Nat /\ tACT \in Nat \ {0} /\ ActivationLimit \in Nat \ {0}
  /\ tXAW <= tRFC
  /\ tCL \in Nat /\ tBURST \in Nat /\ BusDelay \in Nat
  /\ Recoveries \subseteq Nat /\ Bubbles \subseteq Nat
  /\ IsFiniteSet(Bubbles) /\ Bubbles # {}
  /\ BanksPerRank \in Nat /\ RowsPerBank \in Nat
  /\ \A d \in BankDelays : d \in Nat /\ d <= tRAS + tRP + tRFC

LEMMA Delays == GoodDelays
BY TimingAssumption DEF GoodDelays

LEMMA Later == \A m, n \in Int : /\ Most(m, n) \in Int
                                 /\ Most(m, n) >= m /\ Most(m, n) >= n
                                 /\ m \in Nat => Most(m, n) \in Nat
BY DEF Most

\* HoldAll() only delays activates.
LEMMA HoldFacts ==
  ASSUME NEW x, Typed(x), NEW t \in Int
  PROVE  /\ Typed(HoldAll(x, t))
         /\ HoldAll(x, t).ticks = x.ticks
         /\ HoldAll(x, t).pre = x.pre
         /\ \A c \in Banks :
              /\ HoldAll(x, t).bank[c].openRow = x.bank[c].openRow
              /\ HoldAll(x, t).bank[c].pre = x.bank[c].pre
              /\ HoldAll(x, t).bank[c].act >= x.bank[c].act
              /\ HoldAll(x, t).bank[c].act >= t
<1>1. \A n \in Nat : /\ Most(n, t) \in Nat
                     /\ Most(n, t) >= n /\ Most(n, t) >= t
  BY Later
<1>2. \A c \in Banks : x.bank[c].act \in Nat
  BY DEF Typed
<1>3. Typed(HoldAll(x, t))
  BY <1>1 DEF Typed, HoldAll
<1>4. /\ HoldAll(x, t).ticks = x.ticks
      /\ HoldAll(x, t).pre = x.pre
  BY DEF Typed, HoldAll
<1>5. \A c \in Banks :
              /\ HoldAll(x, t).bank[c].openRow = x.bank[c].openRow
              /\ HoldAll(x, t).bank[c].pre = x.bank[c].pre
              /\ HoldAll(x, t).bank[c].act = Most(x.bank[c].act, t)
  BY DEF Typed, HoldAll
<1> QED BY <1>1, <1>2, <1>3, <1>4, <1>5

\* prechargeBank() closes the bank, and allows its next activate tRP later.
LEMMA PrechargeFacts ==
  ASSUME GoodDelays, NEW x, Typed(x), NEW b \in Banks, NEW p \in Nat,
         x.bank[b].pre <= p, NEW auto \in BOOLEAN,
         NEW y, y = prechargeBank(x, b, p, auto)
  PROVE  /\ Typed(y) /\ y.ticks = x.ticks
         /\ y.pre >= x.pre /\ y.pre >= p + tRP
         /\ \A c \in Banks :
              /\ y.bank[c].openRow = IF c = b THEN NO_ROW ELSE x.bank[c].openRow
              /\ y.bank[c].pre >= x.bank[c].pre
              /\ y.bank[c].act >= x.bank[c].act
         /\ y.bank[b].act >= p + tRP
<1> DEFINE z == [x EXCEPT !.bank[b].openRow = NO_ROW, !.active = @ - 1,
                          !.bank[b].act = Most(@, p + tRP),
                          !.pre = Most(@, p + tRP)]
<1>1. p + tRP \in Int /\ NO_ROW \in Int
  BY DEF GoodDelays, NO_ROW
<1>0. x.pre \in Nat /\ \A c \in Banks : x.bank[c].act \in Nat /\ x.bank[c].pre \in Nat
  BY DEF Typed
<1>2. /\ Most(x.pre, p + tRP) \in Nat
      /\ Most(x.pre, p + tRP) >= x.pre /\ Most(x.pre, p + tRP) >= p + tRP
      /\ \A c \in Banks :
           /\ Most(x.bank[c].act, p + tRP) \in Nat
           /\ Most(x.bank[c].act, p + tRP) >= x.bank[c].act
           /\ Most(x.bank[c].act, p + tRP) >= p + tRP
           /\ Most(x.bank[c].pre, p) \in Nat
           /\ Most(x.bank[c].pre, p) >= x.bank[c].pre
  BY <1>0, <1>1 DEF Most
<1>3. /\ Typed(z) /\ z.ticks = x.ticks /\ z.pre = Most(x.pre, p + tRP)
      /\ \A c \in Banks :
           /\ z.bank[c].openRow = IF c = b THEN NO_ROW ELSE x.bank[c].openRow
           /\ z.bank[c].pre = x.bank[c].pre
           /\ z.bank[c].act = IF c = b THEN Most(x.bank[b].act, p + tRP)
                              ELSE x.bank[c].act
  <2> DEFINE B == [x.bank EXCEPT ![b].openRow = NO_ROW,
                                 ![b].act = Most(@, p + tRP)]
             q == Most(x.pre, p + tRP)
  <2>1. x.active - 1 \in Int /\ q \in Nat
    BY <1>1, <1>2 DEF Typed
  <2>2. B \in [Banks -> [openRow : Int, act : Nat, pre : Nat, col : Int]]
    BY <1>1, <1>2 DEF Typed
  <2>3. z.bank = B /\ z.active = x.active - 1 /\ z.ticks = x.ticks /\ z.pre = q
    BY DEF Typed
  <2>4. z = [[[x EXCEPT !.bank = B] EXCEPT !.active = x.active - 1] EXCEPT !.pre = q]
    BY DEF Typed
  <2>5. \A c \in Banks :
          /\ B[c].openRow = IF c = b THEN NO_ROW ELSE x.bank[c].openRow
          /\ B[c].pre = x.bank[c].pre
          /\ B[c].act = IF c = b THEN Most(x.bank[b].act, p + tRP)
                        ELSE x.bank[c].act
    BY DEF Typed
  <2> HIDE DEF B, q, z
  <2>6. Typed(z)
    BY <2>1, <2>2, <2>4 DEF Typed
  <2> QED BY <2>3, <2>5, <2>6 DEF q
<1>4. y = IF auto THEN [z EXCEPT !.bank[b].pre = p]
          ELSE [z EXCEPT !.bank = [c \in Banks |->
                  [z.bank[c] EXCEPT !.pre = Most(@, p)]]]
  BY DEF prechargeBank
<1> HIDE DEF z
<1>5. /\ Typed(y) /\ y.ticks = z.ticks /\ y.pre = z.pre
      /\ \A c \in Banks :
           /\ y.bank[c].openRow = z.bank[c].openRow
           /\ y.bank[c].pre = IF ~auto THEN Most(z.bank[c].pre, p)
                              ELSE IF c = b THEN p ELSE z.bank[c].pre
           /\ y.bank[c].act = z.bank[c].act
  <2>1. CASE auto
    <3>1. y = [z EXCEPT !.bank[b].pre = p]
      BY <1>4, <2>1
    <3> DEFINE B == [z.bank EXCEPT ![b].pre = p]
    <3>2. Typed(z)
      BY <1>3
    <3>3. y.ticks = z.ticks /\ y.pre = z.pre /\ y.bank = B /\ y = [z EXCEPT !.bank = B]
      BY <3>1, <3>2 DEF Typed
    <3>4. /\ B \in [Banks -> [openRow : Int, act : Nat, pre : Nat, col : Int]]
          /\ \A c \in Banks : /\ B[c].openRow = z.bank[c].openRow
                              /\ B[c].pre = IF c = b THEN p ELSE z.bank[c].pre
                              /\ B[c].act = z.bank[c].act
      BY <3>2 DEF Typed
    <3> HIDE DEF B
    <3>5. Typed(y)
      BY <3>2, <3>3, <3>4 DEF Typed
    <3> QED BY <2>1, <3>3, <3>4, <3>5
  <2>2. CASE ~auto
    <3> DEFINE B == [c \in Banks |-> [z.bank[c] EXCEPT !.pre = Most(@, p)]]
    <3>1. y = [z EXCEPT !.bank = B]
      BY <1>4, <2>2
    <3>2. /\ B \in [Banks -> [openRow : Int, act : Nat, pre : Nat, col : Int]]
          /\ \A c \in Banks : /\ B[c].openRow = z.bank[c].openRow
                              /\ B[c].pre = Most(z.bank[c].pre, p)
                              /\ B[c].act = z.bank[c].act
      <4>1. Typed(z) /\ \A c \in Banks : Most(z.bank[c].pre, p) \in Nat
        BY <1>2, <1>3
      <4> QED BY <4>1 DEF Typed
    <3> HIDE DEF B
    <3>3. Typed(y) /\ y.ticks = z.ticks /\ y.pre = z.pre /\ y.bank = B
      BY <1>3, <3>1, <3>2 DEF Typed
    <3> QED BY <2>2, <3>2, <3>3
  <2> QED BY <2>1, <2>2
<1>6. y.pre >= x.pre /\ y.pre >= p + tRP
  BY <1>2, <1>3, <1>5
<1>7. ASSUME NEW c \in Banks
      PROVE  /\ y.bank[c].openRow = IF c = b THEN NO_ROW ELSE x.bank[c].openRow
             /\ y.bank[c].pre >= x.bank[c].pre
             /\ y.bank[c].act >= x.bank[c].act
             /\ c = b => y.bank[c].act >= p + tRP
  BY <1>0, <1>2, <1>3, <1>5
<1> QED BY <1>3, <1>5, <1>6, <1>7

\* The activates of the window after one at a.
Shift(t, a) == <<a>> \o SubSeq(t, 1, ActivationLimit - 1)

LEMMA Shifted ==
  ASSUME GoodDelays, NEW t \in [1 .. ActivationLimit -> Int], NEW a \in Int
  PROVE  /\ Shift(t, a) \in [1 .. ActivationLimit -> Int]
         /\ \A i \in 1 .. ActivationLimit : Shift(t, a)[i] = IF i = 1 THEN a ELSE t[i - 1]
<1> DEFINE L == ActivationLimit
           v == SubSeq(t, 1, L - 1)
           u == Shift(t, a)
<1>1. L \in Nat \ {0}
  BY DEF GoodDelays
<1>2. t \in Seq(Int) /\ Len(t) = L
  BY <1>1
<1>3. v \in Seq(Int) /\ Len(v) = L - 1 /\ \A i \in 1 .. L - 1 : v[i] = t[i]
  BY <1>1, <1>2
<1>4. <<a>> \in Seq(Int) /\ Len(<<a>>) = 1 /\ <<a>>[1] = a
  OBVIOUS
<1>5. u = <<a>> \o v
  BY DEF Shift
<1> HIDE DEF v, L, u
<1>6. u \in Seq(Int) /\ Len(u) = 1 + Len(v)
  BY <1>3, <1>4, <1>5, ConcatProperties
<1>7. Len(u) = L
  BY <1>1, <1>3, <1>6
<1>8. \A i \in 1 .. L : u[i] = IF i = 1 THEN a ELSE v[i - 1]
  <2>1. \A i \in 1 .. Len(<<a>>) + Len(v) :
          u[i] = IF i <= Len(<<a>>) THEN <<a>>[i] ELSE v[i - Len(<<a>>)]
    BY <1>3, <1>4, <1>5, ConcatProperties
  <2> QED BY <1>1, <1>3, <1>4, <2>1
<1>9. \A i \in 1 .. L : i # 1 => v[i - 1] = t[i - 1]
  BY <1>1, <1>3
<1>10. u \in [1 .. Len(u) -> Int]
  BY <1>6, LenProperties
<1>11. u \in [1 .. L -> Int]
  BY <1>7, <1>10
<1> QED BY <1>8, <1>9, <1>11 DEF L, u

\* activateBank() opens the bank, and holds every activate until the rank allows
\* for one.
LEMMA ActivateFacts ==
  ASSUME GoodDelays, NEW x, Typed(x), NEW b \in Banks, NEW row \in Int, NEW a \in Nat,
         NEW y, y = activateBank(x, b, row, a)
  PROVE  /\ Typed(y) /\ y.pre = x.pre
         /\ \A i \in 1 .. ActivationLimit : y.ticks[i] = IF i = 1 THEN a ELSE x.ticks[i - 1]
         /\ \A c \in Banks :
              /\ y.bank[c].openRow = IF c = b THEN row ELSE x.bank[c].openRow
              /\ y.bank[c].pre = IF c = b THEN a + tRAS ELSE x.bank[c].pre
              /\ y.bank[c].act >= x.bank[c].act /\ y.bank[c].act >= a
              /\ y.bank[c].act >= y.ticks[ActivationLimit] + tXAW
<1> DEFINE u == Shift(x.ticks, a)
           n == [openRow |-> row, act |-> x.bank[b].act, pre |-> a + tRAS,
                 col |-> Most(x.bank[b].col, a + tRCD)]
           z == [x EXCEPT !.bank[b] = [openRow |-> row, act |-> @.act, pre |-> a + tRAS,
                                       col |-> Most(@.col, a + tRCD)],
                          !.active = @ + 1,
                          !.ticks = <<a>> \o SubSeq(@, 1, ActivationLimit - 1)]
           t == Most(a + tRRD, IF a - z.ticks[ActivationLimit] < tXAW
                                      THEN z.ticks[ActivationLimit] + tXAW ELSE 0)
<1>1. /\ x.ticks \in [1 .. ActivationLimit -> Int] /\ x.pre \in Nat /\ x.active \in Int
      /\ x.bank \in [Banks -> [openRow : Int, act : Nat, pre : Nat, col : Int]]
  BY DEF Typed
<1>2. /\ u \in [1 .. ActivationLimit -> Int]
      /\ \A i \in 1 .. ActivationLimit : u[i] = IF i = 1 THEN a ELSE x.ticks[i - 1]
  BY <1>1, Shifted
<1>3. n \in [openRow : Int, act : Nat, pre : Nat, col : Int]
  BY <1>1 DEF GoodDelays, Most
<1>4. z.bank = [x.bank EXCEPT ![b] = n] /\ z.ticks = u /\ z.pre = x.pre
  BY DEF Typed, Shift
<1>5. Typed(z)
  <2>1. z = [[[x EXCEPT !.bank = [x.bank EXCEPT ![b] = n]] EXCEPT !.active = x.active + 1]
              EXCEPT !.ticks = u]
    BY DEF Typed, Shift
  <2> HIDE DEF n, u, z
  <2>2. [x.bank EXCEPT ![b] = n] \in [Banks -> [openRow : Int, act : Nat, pre : Nat, col : Int]]
    BY <1>1, <1>3
  <2>3. x.active + 1 \in Int
    BY <1>1
  <2> QED BY <1>2, <2>1, <2>2, <2>3 DEF Typed
<1>6. \A c \in Banks :
        /\ z.bank[c].openRow = IF c = b THEN row ELSE x.bank[c].openRow
        /\ z.bank[c].pre = IF c = b THEN a + tRAS ELSE x.bank[c].pre
        /\ z.bank[c].act = x.bank[c].act
  <2>1. n.openRow = row /\ n.pre = a + tRAS /\ n.act = x.bank[b].act
    OBVIOUS
  <2> HIDE DEF n, z
  <2>2. \A c \in Banks : z.bank[c] = IF c = b THEN n ELSE x.bank[c]
    BY <1>1, <1>4
  <2> QED BY <2>1, <2>2
<1>7. y = HoldAll(z, t)
  BY DEF activateBank
<1>8. ActivationLimit \in 1 .. ActivationLimit
  BY DEF GoodDelays
<1> HIDE DEF u, n, z
<1>9. t \in Int /\ t >= a /\ t >= z.ticks[ActivationLimit] + tXAW
  BY <1>2, <1>4, <1>8 DEF GoodDelays, Most
<1> HIDE DEF t
<1>10. /\ Typed(y) /\ y.ticks = z.ticks /\ y.pre = z.pre
       /\ \A c \in Banks :
            /\ y.bank[c].openRow = z.bank[c].openRow
            /\ y.bank[c].pre = z.bank[c].pre
            /\ y.bank[c].act >= z.bank[c].act
            /\ y.bank[c].act >= t
  BY <1>5, <1>7, <1>9, HoldFacts
<1>11. \A c \in Banks : y.bank[c].act \in Nat
  BY <1>10 DEF Typed
<1>12. z.ticks[ActivationLimit] + tXAW \in Int
  BY <1>2, <1>4, <1>8 DEF GoodDelays
<1> QED BY <1>2, <1>4, <1>6, <1>9, <1>10, <1>11, <1>12

\* delayBankRowhammer() adds the delay to the activate of the bank, on top of
\* what the rank allows for.
Delayed(x, y, b, delay) ==
  /\ Typed(y) /\ y.pre = x.pre /\ y.ticks = x.ticks
  /\ \A c \in Banks :
       /\ IsOpen(y, c) <=> IsOpen(x, c)
       /\ y.bank[c].pre = x.bank[c].pre
       /\ y.bank[c].act >= x.bank[c].act
  /\ y.bank[b].act >= x.bank[b].act + delay

LEMMA DelayFacts ==
  ASSUME GoodDelays, NEW x, Typed(x), NEW b \in Banks, NEW row \in Nat, NEW a \in Nat,
         NEW delay \in Nat
  PROVE  Delayed(x, delayBankRowhammer(x, b, row, a, delay), b, delay)
<1>0. PICK y : y = delayBankRowhammer(x, b, row, a, delay)
  OBVIOUS
<1> DEFINE t == a + tRRD * (delay \div tACT)
           z == HoldAll(x, t)
           n == IF row - 1 > 0 THEN row - 1 ELSE row + 1
           B == [z.bank EXCEPT ![b].act = @ + delay,
                               ![b].openRow = IF @ = NO_ROW THEN @ ELSE n]
<1>1. t \in Int
  <2>1. delay \div tACT \in Nat
    BY DEF GoodDelays
  <2> QED BY <2>1 DEF GoodDelays
<1>2. n \in Int /\ n # NO_ROW
  BY DEF NO_ROW
<1> HIDE DEF t, n
<1>3. /\ Typed(z) /\ z.ticks = x.ticks /\ z.pre = x.pre
      /\ \A c \in Banks :
           /\ z.bank[c].openRow = x.bank[c].openRow
           /\ z.bank[c].pre = x.bank[c].pre
           /\ z.bank[c].act >= x.bank[c].act
  BY <1>1, HoldFacts
<1>4. y = [z EXCEPT !.bank[b].act = @ + delay,
                    !.bank[b].openRow = IF @ = NO_ROW THEN @ ELSE n]
  BY <1>0 DEF delayBankRowhammer, t, n
<1> HIDE DEF z
<1>5. Typed(z)
  BY <1>3
<1>6. y = [z EXCEPT !.bank = B] /\ y.bank = B /\ y.ticks = z.ticks /\ y.pre = z.pre
  BY <1>4, <1>5 DEF Typed
<1>7. /\ B \in [Banks -> [openRow : Int, act : Nat, pre : Nat, col : Int]]
      /\ \A c \in Banks :
           /\ B[c].openRow = IF c = b /\ z.bank[c].openRow # NO_ROW THEN n
                             ELSE z.bank[c].openRow
           /\ B[c].pre = z.bank[c].pre
           /\ B[c].act = IF c = b THEN z.bank[c].act + delay ELSE z.bank[c].act
  <2> DEFINE T == [openRow : Int, act : Nat, pre : Nat, col : Int]
             m == [z.bank[b] EXCEPT !.act = @ + delay,
                                    !.openRow = IF @ = NO_ROW THEN @ ELSE n]
  <2>1. z.bank \in [Banks -> T] /\ z.bank[b] \in T
    BY <1>5 DEF Typed
  <2>2. B = [z.bank EXCEPT ![b] = m]
    BY <2>1
  <2>3. /\ m \in T /\ m.pre = z.bank[b].pre /\ m.act = z.bank[b].act + delay
        /\ m.openRow = IF z.bank[b].openRow # NO_ROW THEN n ELSE z.bank[b].openRow
    <3> DEFINE o == IF z.bank[b].openRow = NO_ROW THEN z.bank[b].openRow ELSE n
               e == z.bank[b].act + delay
               r == z.bank[b]
    <3>1. r \in T /\ o \in Int /\ e \in Nat /\ m = [r EXCEPT !.act = e, !.openRow = o]
      BY <1>2, <2>1
    <3> HIDE DEF m, o, e, r
    <3>2. m \in T /\ m.pre = r.pre /\ m.act = e /\ m.openRow = o
      BY <3>1
    <3> QED BY <3>2 DEF o, e, r
  <2> HIDE DEF m, B, T
  <2>4. B \in [Banks -> T]
    BY <2>1, <2>2, <2>3
  <2>5. \A c \in Banks : B[c] = IF c = b THEN m ELSE z.bank[c]
    BY <2>1, <2>2
  <2> QED BY <2>3, <2>4, <2>5 DEF T
<1> HIDE DEF B
<1>8. Typed(y)
  BY <1>5, <1>6, <1>7 DEF Typed
<1>9. \A c \in Banks : z.bank[c].act \in Nat /\ x.bank[c].act \in Nat
  BY <1>5 DEF Typed
<1>10. ASSUME NEW c \in Banks
       PROVE  /\ IsOpen(y, c) <=> IsOpen(x, c)
              /\ y.bank[c].pre = x.bank[c].pre
              /\ y.bank[c].act >= x.bank[c].act
              /\ c = b => y.bank[c].act >= x.bank[c].act + delay
  BY <1>2, <1>3, <1>6, <1>7, <1>9 DEF IsOpen
<1> QED BY <1>0, <1>3, <1>6, <1>8, <1>10 DEF Delayed

\* What every reachable state of the rank keeps.
Fit(x, la, mi) == Typed(x) /\ History(la, mi) /\ Spaced(x, la, mi) /\ Limited(x)

\* The numbers that the handlers compare.
LEMMA Numbers ==
  ASSUME GoodDelays, NEW x, Typed(x)
  PROVE  /\ x.pre \in Nat
         /\ \A c \in Banks : x.bank[c].act \in Nat /\ x.bank[c].pre \in Nat
         /\ \A i \in 1 .. ActivationLimit : x.ticks[i] \in Int
         /\ ActivationLimit \in 1 .. ActivationLimit
BY DEF Typed, GoodDelays

\* A precharge keeps the spacing: what an open bank owed is now behind its
\* precharge.
LEMMA PrechargeKeeps ==
  ASSUME GoodDelays, NEW x, NEW la, NEW mi, Fit(x, la, mi), NEW b \in Banks,
         NEW p \in Nat, x.bank[b].pre <= p, NEW auto \in BOOLEAN
  PROVE  /\ Fit(prechargeBank(x, b, p, auto), la, mi)
         /\ ~IsOpen(prechargeBank(x, b, p, auto), b)
         /\ prechargeBank(x, b, p, auto).ticks = x.ticks
         /\ prechargeBank(x, b, p, auto).bank[b].act >= x.bank[b].act
<1>1. PICK y : y = prechargeBank(x, b, p, auto)
  OBVIOUS
<1>2. Typed(x) /\ History(la, mi) /\ Spaced(x, la, mi) /\ Limited(x)
  BY DEF Fit
<1>3. /\ Typed(y) /\ y.ticks = x.ticks
      /\ y.pre >= x.pre /\ y.pre >= p + tRP
      /\ \A c \in Banks :
           /\ y.bank[c].openRow = IF c = b THEN NO_ROW ELSE x.bank[c].openRow
           /\ y.bank[c].pre >= x.bank[c].pre
           /\ y.bank[c].act >= x.bank[c].act
      /\ y.bank[b].act >= p + tRP
  BY <1>1, <1>2, PrechargeFacts
<1>4. /\ x.pre \in Nat /\ y.pre \in Nat /\ ActivationLimit \in 1 .. ActivationLimit
      /\ \A c \in Banks : /\ x.bank[c].act \in Nat /\ x.bank[c].pre \in Nat
                          /\ y.bank[c].act \in Nat /\ y.bank[c].pre \in Nat
                          /\ la[c] \in Int /\ mi[c] \in Nat
      /\ \A i \in 1 .. ActivationLimit : x.ticks[i] \in Int
  BY <1>2, <1>3, Numbers DEF History
<1>5. \A c \in Banks : IsOpen(y, c) <=> c # b /\ IsOpen(x, c)
  BY <1>3 DEF IsOpen
<1>6. Spaced(y, la, mi)
  <2> SUFFICES ASSUME NEW c \in Banks
               PROVE  /\ mi[c] <= y.bank[c].act
                      /\ IsOpen(y, c) => /\ mi[c] <= y.bank[c].pre + tRP + tRFC
                                         /\ la[c] + tRAS <= y.bank[c].pre
                      /\ ~IsOpen(y, c) => /\ mi[c] <= y.pre + tRFC
                                          /\ la[c] + tRAS + tRP <= y.pre
                                          /\ la[c] + tRAS + tRP <= y.bank[c].act
    BY DEF Spaced
  <2>1. /\ mi[c] <= x.bank[c].act
        /\ IsOpen(x, c) => /\ mi[c] <= x.bank[c].pre + tRP + tRFC
                           /\ la[c] + tRAS <= x.bank[c].pre
        /\ ~IsOpen(x, c) => /\ mi[c] <= x.pre + tRFC
                            /\ la[c] + tRAS + tRP <= x.pre
                            /\ la[c] + tRAS + tRP <= x.bank[c].act
    BY <1>2 DEF Spaced
  <2>2. c = b => x.bank[c].pre <= p /\ y.bank[c].act >= p + tRP
    BY <1>3
  <2>3. y.bank[c].pre >= x.bank[c].pre /\ y.bank[c].act >= x.bank[c].act
    BY <1>3
  <2> QED BY <1>3, <1>4, <1>5, <2>1, <2>2, <2>3 DEF GoodDelays
<1>7. Limited(y)
  <2>1. \A c \in Banks : y.ticks[ActivationLimit] + tXAW <= y.bank[c].act
    <3> SUFFICES ASSUME NEW c \in Banks
                 PROVE  x.ticks[ActivationLimit] + tXAW <= y.bank[c].act
      BY <1>3
    <3>1. x.ticks[ActivationLimit] + tXAW <= x.bank[c].act /\ y.bank[c].act >= x.bank[c].act
      BY <1>2, <1>3 DEF Limited
    <3> QED BY <1>4, <3>1 DEF GoodDelays
  <2>2. ASSUME NEW i \in 1 .. ActivationLimit
        PROVE  \/ y.ticks[i] <= y.pre
               \/ \E c \in Banks : IsOpen(y, c) /\ y.ticks[i] <= y.bank[c].pre
    <3>1. CASE x.ticks[i] <= x.pre
      BY <1>3, <1>4, <3>1
    <3>2. ASSUME NEW c \in Banks, IsOpen(x, c), x.ticks[i] <= x.bank[c].pre
          PROVE  \/ x.ticks[i] <= y.pre
                 \/ \E d \in Banks : IsOpen(y, d) /\ x.ticks[i] <= y.bank[d].pre
      <4>1. CASE c = b
        BY <1>3, <1>4, <3>2, <4>1 DEF GoodDelays
      <4>2. CASE c # b
        <5>1. IsOpen(y, c) /\ y.bank[c].pre >= x.bank[c].pre
          BY <1>3, <1>5, <3>2, <4>2
        <5>2. x.ticks[i] <= y.bank[c].pre
          BY <1>4, <3>2, <5>1
        <5> QED BY <5>1, <5>2
      <4> QED BY <4>1, <4>2
    <3> QED BY <1>2, <1>3, <3>1, <3>2 DEF Limited
  <2> QED BY <2>1, <2>2 DEF Limited
<1> QED BY <1>1, <1>2, <1>3, <1>5, <1>6, <1>7 DEF Fit

\* Later ticks, with the same banks open, keep the spacing.
LEMMA LaterKeeps ==
  ASSUME GoodDelays, NEW x, NEW la, NEW mi, Fit(x, la, mi), NEW y, Typed(y),
         y.ticks = x.ticks, y.pre >= x.pre,
         \A c \in Banks : /\ IsOpen(y, c) <=> IsOpen(x, c)
                          /\ y.bank[c].pre >= x.bank[c].pre
                          /\ y.bank[c].act >= x.bank[c].act
  PROVE  Fit(y, la, mi)
<1>2. Typed(x) /\ History(la, mi) /\ Spaced(x, la, mi) /\ Limited(x)
  BY DEF Fit
<1>4. /\ x.pre \in Nat /\ y.pre \in Nat /\ ActivationLimit \in 1 .. ActivationLimit
      /\ \A c \in Banks : /\ x.bank[c].act \in Nat /\ x.bank[c].pre \in Nat
                          /\ y.bank[c].act \in Nat /\ y.bank[c].pre \in Nat
                          /\ la[c] \in Int /\ mi[c] \in Nat
      /\ \A i \in 1 .. ActivationLimit : x.ticks[i] \in Int
  BY <1>2, Numbers DEF History
<1>6. Spaced(y, la, mi)
  <2> SUFFICES ASSUME NEW c \in Banks
               PROVE  /\ mi[c] <= y.bank[c].act
                      /\ IsOpen(y, c) => /\ mi[c] <= y.bank[c].pre + tRP + tRFC
                                         /\ la[c] + tRAS <= y.bank[c].pre
                      /\ ~IsOpen(y, c) => /\ mi[c] <= y.pre + tRFC
                                          /\ la[c] + tRAS + tRP <= y.pre
                                          /\ la[c] + tRAS + tRP <= y.bank[c].act
    BY DEF Spaced
  <2>1. /\ mi[c] <= x.bank[c].act
        /\ IsOpen(x, c) => /\ mi[c] <= x.bank[c].pre + tRP + tRFC
                           /\ la[c] + tRAS <= x.bank[c].pre
        /\ ~IsOpen(x, c) => /\ mi[c] <= x.pre + tRFC
                            /\ la[c] + tRAS + tRP <= x.pre
                            /\ la[c] + tRAS + tRP <= x.bank[c].act
    BY <1>2 DEF Spaced
  <2> QED BY <1>4, <2>1 DEF GoodDelays
<1>7. Limited(y)
  <2>1. \A c \in Banks : y.ticks[ActivationLimit] + tXAW <= y.bank[c].act
    <3> SUFFICES ASSUME NEW c \in Banks
                 PROVE  x.ticks[ActivationLimit] + tXAW <= y.bank[c].act
      OBVIOUS
    <3>1. x.ticks[ActivationLimit] + tXAW <= x.bank[c].act
      BY <1>2 DEF Limited
    <3> QED BY <1>4, <3>1 DEF GoodDelays
  <2>2. ASSUME NEW i \in 1 .. ActivationLimit
        PROVE  \/ y.ticks[i] <= y.pre
               \/ \E c \in Banks : IsOpen(y, c) /\ y.ticks[i] <= y.bank[c].pre
    <3>1. CASE x.ticks[i] <= x.pre
      BY <1>4, <3>1
    <3>2. ASSUME NEW c \in Banks, IsOpen(x, c), x.ticks[i] <= x.bank[c].pre
          PROVE  \E d \in Banks : IsOpen(y, d) /\ x.ticks[i] <= y.bank[d].pre
      <4>1. x.ticks[i] <= y.bank[c].pre
        BY <1>4, <3>2
      <4> QED BY <3>2, <4>1
    <3> QED BY <1>2, <3>1, <3>2 DEF Limited
  <2> QED BY <2>1, <2>2 DEF Limited
<1> QED BY <1>2, <1>6, <1>7 DEF Fit

\* An activate of a closed bank at the tick the bank allows.
LEMMA ActivateKeeps ==
  ASSUME GoodDelays, NEW x, NEW la, NEW mi, Fit(x, la, mi), NEW b \in Banks,
         ~IsOpen(x, b), NEW row \in Nat, NEW a, a = x.bank[b].act
  PROVE  /\ Fit(activateBank(x, b, row, a), [la EXCEPT ![b] = a], mi)
         /\ activateBank(x, b, row, a).bank[b].act >= a
         /\ IsOpen(activateBank(x, b, row, a), b)
<1>1. PICK y : y = activateBank(x, b, row, a)
  OBVIOUS
<1>2. Typed(x) /\ History(la, mi) /\ Spaced(x, la, mi) /\ Limited(x)
  BY DEF Fit
<1>3. a \in Nat
  BY <1>2, Numbers
<1>4. /\ Typed(y) /\ y.pre = x.pre
      /\ \A i \in 1 .. ActivationLimit : y.ticks[i] = IF i = 1 THEN a ELSE x.ticks[i - 1]
      /\ \A c \in Banks :
           /\ y.bank[c].openRow = IF c = b THEN row ELSE x.bank[c].openRow
           /\ y.bank[c].pre = IF c = b THEN a + tRAS ELSE x.bank[c].pre
           /\ y.bank[c].act >= x.bank[c].act /\ y.bank[c].act >= a
           /\ y.bank[c].act >= y.ticks[ActivationLimit] + tXAW
  BY <1>1, <1>2, <1>3, ActivateFacts
<1>5. /\ x.pre \in Nat /\ y.pre \in Nat /\ ActivationLimit \in 1 .. ActivationLimit
      /\ \A c \in Banks : /\ x.bank[c].act \in Nat /\ x.bank[c].pre \in Nat
                          /\ y.bank[c].act \in Nat /\ y.bank[c].pre \in Nat
                          /\ la[c] \in Int /\ mi[c] \in Nat
      /\ \A i \in 1 .. ActivationLimit : x.ticks[i] \in Int /\ y.ticks[i] \in Int
  BY <1>2, <1>4, Numbers DEF History
<1>6. \A c \in Banks : IsOpen(y, c) <=> c = b \/ IsOpen(x, c)
  BY <1>4 DEF IsOpen, NO_ROW
<1>7. PICK lb : lb = [la EXCEPT ![b] = a]
  OBVIOUS
<1>8. /\ History(lb, mi)
      /\ \A c \in Banks : lb[c] = IF c = b THEN a ELSE la[c]
  BY <1>2, <1>3, <1>7 DEF History
<1>9. Spaced(y, lb, mi)
  <2> SUFFICES ASSUME NEW c \in Banks
               PROVE  /\ mi[c] <= y.bank[c].act
                      /\ IsOpen(y, c) => /\ mi[c] <= y.bank[c].pre + tRP + tRFC
                                         /\ lb[c] + tRAS <= y.bank[c].pre
                      /\ ~IsOpen(y, c) => /\ mi[c] <= y.pre + tRFC
                                          /\ lb[c] + tRAS + tRP <= y.pre
                                          /\ lb[c] + tRAS + tRP <= y.bank[c].act
    BY DEF Spaced
  <2>1. /\ mi[c] <= x.bank[c].act
        /\ IsOpen(x, c) => /\ mi[c] <= x.bank[c].pre + tRP + tRFC
                           /\ la[c] + tRAS <= x.bank[c].pre
        /\ ~IsOpen(x, c) => /\ mi[c] <= x.pre + tRFC
                            /\ la[c] + tRAS + tRP <= x.pre
                            /\ la[c] + tRAS + tRP <= x.bank[c].act
    BY <1>2 DEF Spaced
  <2>2. /\ y.bank[c].pre = IF c = b THEN a + tRAS ELSE x.bank[c].pre
        /\ y.bank[c].act >= x.bank[c].act
        /\ lb[c] = IF c = b THEN a ELSE la[c]
    BY <1>4, <1>8
  <2>3. CASE c = b
    BY <1>3, <1>5, <1>6, <2>1, <2>2, <2>3 DEF GoodDelays
  <2>4. CASE c # b
    BY <1>4, <1>5, <1>6, <2>1, <2>2, <2>4 DEF GoodDelays
  <2> QED BY <2>3, <2>4
<1>10. Limited(y)
  <2>1. \A c \in Banks : y.ticks[ActivationLimit] + tXAW <= y.bank[c].act
    <3> SUFFICES ASSUME NEW c \in Banks
                 PROVE  y.ticks[ActivationLimit] + tXAW <= y.bank[c].act
      OBVIOUS
    <3>1. y.ticks[ActivationLimit] + tXAW \in Int /\ y.bank[c].act \in Int
      BY <1>5 DEF GoodDelays
    <3> QED BY <1>4, <3>1
  <2>2. ASSUME NEW i \in 1 .. ActivationLimit
        PROVE  \/ y.ticks[i] <= y.pre
               \/ \E c \in Banks : IsOpen(y, c) /\ y.ticks[i] <= y.bank[c].pre
    <3>1. CASE i = 1
      <4>1. y.ticks[i] <= y.bank[b].pre
        BY <1>3, <1>4, <3>1 DEF GoodDelays
      <4> QED BY <1>6, <4>1
    <3>2. CASE i # 1
      <4>1. i - 1 \in 1 .. ActivationLimit /\ y.ticks[i] = x.ticks[i - 1]
        BY <1>4, <3>2 DEF GoodDelays
      <4>2. ASSUME NEW c \in Banks, IsOpen(x, c), x.ticks[i - 1] <= x.bank[c].pre
            PROVE  IsOpen(y, c) /\ y.ticks[i] <= y.bank[c].pre
        BY <1>4, <1>6, <4>1, <4>2
      <4> QED BY <1>2, <1>4, <4>1, <4>2 DEF Limited
    <3> QED BY <3>1, <3>2
  <2> QED BY <2>1, <2>2 DEF Limited
<1> QED BY <1>1, <1>4, <1>6, <1>7, <1>8, <1>9, <1>10 DEF Fit

\* The burst delays the precharge of its bank.
LEMMA BurstKeeps ==
  ASSUME GoodDelays, NEW x, NEW la, NEW mi, Fit(x, la, mi), NEW b \in Banks,
         NEW p \in Int
  PROVE  LET y == [x EXCEPT !.bank[b].pre = Most(@, p)]
         IN  /\ Fit(y, la, mi) /\ y.ticks = x.ticks
             /\ y.bank[b].act = x.bank[b].act /\ y.bank[b].pre \in Nat
<1> DEFINE T == [openRow : Int, act : Nat, pre : Nat, col : Int]
           q == Most(x.bank[b].pre, p)
           B == [x.bank EXCEPT ![b].pre = q]
           y == [x EXCEPT !.bank[b].pre = Most(@, p)]
<1>1. Typed(x)
  BY DEF Fit
<1>2. q \in Nat /\ q >= x.bank[b].pre
  <2>1. x.bank[b].pre \in Nat
    BY <1>1, Numbers
  <2> QED BY <2>1 DEF Most
<1>3. y = [x EXCEPT !.bank = B] /\ y.bank = B /\ y.ticks = x.ticks /\ y.pre = x.pre
  BY <1>1 DEF Typed
<1> HIDE DEF q
<1>4. /\ B \in [Banks -> T]
      /\ \A c \in Banks : /\ B[c].openRow = x.bank[c].openRow
                          /\ B[c].pre = IF c = b THEN q ELSE x.bank[c].pre
                          /\ B[c].act = x.bank[c].act
  BY <1>1, <1>2 DEF Typed
<1> HIDE DEF B, y
<1>5. Typed(y)
  BY <1>1, <1>3, <1>4 DEF Typed
<1>6. /\ x.pre \in Nat
      /\ \A c \in Banks : x.bank[c].act \in Nat /\ x.bank[c].pre \in Nat
  BY <1>1, Numbers
<1>7. \A c \in Banks : /\ IsOpen(y, c) <=> IsOpen(x, c)
                       /\ y.bank[c].pre >= x.bank[c].pre
                       /\ y.bank[c].act >= x.bank[c].act
  BY <1>2, <1>3, <1>4, <1>6 DEF IsOpen
<1>8. Fit(y, la, mi)
  <2>1. y.pre >= x.pre /\ y.ticks = x.ticks
    BY <1>3, <1>6
  <2> QED BY <1>5, <1>7, <2>1, LaterKeeps
<1> QED BY <1>2, <1>3, <1>4, <1>8 DEF y

\* A mitigation of the bank of an activate at la[b] is over before the bank is
\* activated again, and within tRFC of its precharge.
LEMMA DelayKeeps ==
  ASSUME GoodDelays, NEW x, NEW la, NEW mi, Fit(x, la, mi), NEW b \in Banks,
         NEW row \in Nat, la[b] \in Nat, la[b] <= x.bank[b].act,
         NEW delay \in Nat, delay <= tRAS + tRP + tRFC
  PROVE  Fit(delayBankRowhammer(x, b, row, la[b], delay), la,
             [mi EXCEPT ![b] = la[b] + delay])
<1>0. PICK a \in Nat : a = la[b]
  OBVIOUS
<1>1. PICK y : y = delayBankRowhammer(x, b, row, a, delay)
  OBVIOUS
<1>2. PICK mj : mj = [mi EXCEPT ![b] = la[b] + delay]
  OBVIOUS
<1>3. Typed(x) /\ History(la, mi)
  BY DEF Fit
<1>4. /\ Typed(y) /\ y.pre = x.pre /\ y.ticks = x.ticks
      /\ \A c \in Banks :
           /\ IsOpen(y, c) <=> IsOpen(x, c)
           /\ y.bank[c].pre = x.bank[c].pre
           /\ y.bank[c].act >= x.bank[c].act
      /\ y.bank[b].act >= x.bank[b].act + delay
  <2>1. Typed(x)
    BY <1>3
  <2>2. Delayed(x, y, b, delay)
    BY <1>1, <2>1, DelayFacts
  <2> QED BY <2>2 DEF Delayed
<1>5. /\ y.pre \in Nat
      /\ \A c \in Banks : /\ x.bank[c].act \in Nat /\ x.bank[c].pre \in Nat
                          /\ y.bank[c].act \in Nat /\ y.bank[c].pre \in Nat
                          /\ la[c] \in Int /\ mi[c] \in Nat
  BY <1>3, <1>4, Numbers DEF History
<1>6. /\ History(la, mj)
      /\ \A c \in Banks : mj[c] = IF c = b THEN la[b] + delay ELSE mi[c]
  BY <1>2, <1>3 DEF History
<1>7. Fit(y, la, mi)
  BY <1>4, <1>5, LaterKeeps
<1>8. Spaced(y, la, mj)
  <2> SUFFICES ASSUME NEW c \in Banks
               PROVE  /\ mj[c] <= y.bank[c].act
                      /\ IsOpen(y, c) => /\ mj[c] <= y.bank[c].pre + tRP + tRFC
                                         /\ la[c] + tRAS <= y.bank[c].pre
                      /\ ~IsOpen(y, c) => /\ mj[c] <= y.pre + tRFC
                                          /\ la[c] + tRAS + tRP <= y.pre
                                          /\ la[c] + tRAS + tRP <= y.bank[c].act
    BY DEF Spaced
  <2>1. /\ mi[c] <= y.bank[c].act
        /\ IsOpen(y, c) => /\ mi[c] <= y.bank[c].pre + tRP + tRFC
                           /\ la[c] + tRAS <= y.bank[c].pre
        /\ ~IsOpen(y, c) => /\ mi[c] <= y.pre + tRFC
                            /\ la[c] + tRAS + tRP <= y.pre
                            /\ la[c] + tRAS + tRP <= y.bank[c].act
    BY <1>7 DEF Fit, Spaced
  <2>2. CASE c # b
    BY <1>6, <2>1, <2>2
  <2>3. CASE c = b
    BY <1>4, <1>5, <1>6, <2>1, <2>3 DEF GoodDelays
  <2> QED BY <2>2, <2>3
<1> QED BY <1>0, <1>1, <1>2, <1>6, <1>7, <1>8 DEF Fit

\* The variables that a handler's record is kept in.
LEMMA KeptFits ==
  ASSUME GoodDelays, NEW z, NEW la, NEW mi, Fit(z, la, mi), NEW w,
         w = [bank |-> z.bank, active |-> z.active, ticks |-> z.ticks, pre |-> z.pre]
  PROVE  Fit(w, la, mi)
<1>1. Typed(z)
  BY DEF Fit
<1>2. w.bank = z.bank /\ w.ticks = z.ticks /\ w.pre = z.pre
  OBVIOUS
<1>3. Typed(w)
  BY <1>1 DEF Typed
<1>4. /\ z.pre \in Nat
      /\ \A c \in Banks : z.bank[c].act \in Nat /\ z.bank[c].pre \in Nat
  BY <1>1, Numbers
<1>5. w.pre >= w.pre /\ w.pre >= z.pre
  BY <1>2, <1>4
<1>6. \A c \in Banks : /\ IsOpen(w, c) <=> IsOpen(z, c)
                       /\ w.bank[c].pre >= z.bank[c].pre
                       /\ w.bank[c].act >= z.bank[c].act
  BY <1>2, <1>4 DEF IsOpen
<1> QED BY <1>2, <1>3, <1>5, <1>6, LaterKeeps

\* A finite set of numbers has a largest.
LEMMA LongestOf ==
  ASSUME NEW S \in SUBSET Nat, S # {}, IsFiniteSet(S)
  PROVE  Longest(S) \in S /\ \A n \in S : n <= Longest(S)
<1> DEFINE Below == {ss \in Nat \X Nat : ss[1] < ss[2]}
           Above(n) == {m \in S : m > n}
           Sizes == {Cardinality(Above(n)) : n \in S}
<1>1. IsWellFoundedOn(Below, Nat)
  BY NatLessThanWellFounded, Zenon DEF OpToRel
<1>2. \A n \in S : Above(n) \in SUBSET S
  OBVIOUS
<1>3. \A n \in S : IsFiniteSet(Above(n)) /\ Cardinality(Above(n)) \in Nat
  BY <1>2, FS_Subset, FS_CardinalityType
<1>4. Sizes \in SUBSET Nat /\ Sizes # {}
  BY <1>3
<1> HIDE DEF Below
<1>5. PICK e \in Sizes : \A f \in Sizes : ~(<<f, e>> \in Below)
  <2> HIDE DEF Sizes
  <2> QED BY <1>1, <1>4, WFMin, Zenon
<1>6. \A f \in Sizes : ~(f < e)
  BY <1>4, <1>5 DEF Below
<1>7. PICK n \in S : e = Cardinality(Above(n))
  BY <1>5
<1>8. \A m \in S : m <= n
  <2> SUFFICES ASSUME NEW m \in S, m > n PROVE FALSE
    OBVIOUS
  <2>1. Above(m) \in SUBSET Above(n) /\ m \in Above(n) /\ m \notin Above(m)
    <3>1. \A k \in S : k \in Nat
      OBVIOUS
    <3>2. m \in Above(n) /\ m \notin Above(m)
      BY <3>1
    <3>3. \A k \in Above(m) : k \in S /\ k > n
      BY <3>1
    <3> QED BY <3>2, <3>3
  <2>2. Cardinality(Above(m)) \in Sizes
    OBVIOUS
  <2> HIDE DEF Above, Sizes
  <2>3. /\ Cardinality(Above(m)) <= Cardinality(Above(n))
        /\ Cardinality(Above(n)) = Cardinality(Above(m)) => Above(n) = Above(m)
    BY <1>3, <2>1, FS_Subset
  <2>4. Cardinality(Above(n)) # Cardinality(Above(m))
    BY <2>1, <2>3
  <2> QED BY <1>3, <1>6, <1>7, <2>2, <2>3, <2>4
<1> QED BY <1>8 DEF Longest

\* The inductive invariant.  The bound of a mitigation is not inductive: a
\* refresh overwrites the tick of every bank, and keeps the bound only because
\* the mitigation is over tRFC after the precharge of its bank.
TimingInv ==
  /\ Fit(Now, lastAct, mitigated)
  /\ nextBurstAt \in Int
  /\ refreshState # "REF_IDLE" => \A c \in Banks : bank[c].openRow = NO_ROW
  /\ MitigationKept

\* A burst: what the activate, if there is one, comes after, and the state it
\* leaves.
LEMMA BurstStep ==
  ASSUME GoodDelays, TimingInv, NEW b \in Banks, NEW row \in Rows,
         NEW recovery \in Recoveries, NEW auto \in BOOLEAN, NEW delay \in BankDelays,
         NEW bubble \in Bubbles, doBurstAccess(b, row, recovery, auto, delay, bubble)
  PROVE  /\ Fit(Now, lastAct, mitigated)' /\ nextBurstAt' \in Int
         /\ refreshState' = "REF_IDLE"
         /\ cmd'.act => /\ cmd'.bank \in Banks
                        /\ cmd'.actAt >= cmd'.busy
                        /\ cmd'.actAt - actTicks[ActivationLimit] >= tXAW
                        /\ cmd'.actAt - lastAct[cmd'.bank] >= tRAS + tRP
<1> DEFINE miss == bank[b].openRow # row
           x == Now
           closed == IF miss /\ bank[b].openRow # NO_ROW
                     THEN prechargeBank(x, b, bank[b].pre, FALSE) ELSE x
           a == closed.bank[b].act
           opened == IF miss THEN activateBank(closed, b, row, a) ELSE x
           early == IF bubble = FetchBubble THEN tCL + tBURST ELSE 0
           at == Most(opened.bank[b].col, Most(nextBurstAt + bubble - early, 0))
           moved == [opened EXCEPT !.bank[b].pre = Most(@, at + recovery)]
           done == IF auto THEN prechargeBank(moved, b, moved.bank[b].pre, TRUE)
                   ELSE moved
           last == IF delay = 0 THEN done
                   ELSE delayBankRowhammer(done, b, row, a, delay)
           la == IF miss THEN [lastAct EXCEPT ![b] = a] ELSE lastAct
           mi == IF delay = 0 THEN mitigated ELSE [mitigated EXCEPT ![b] = a + delay]
<1>1. /\ refreshState = "REF_IDLE" /\ UNCHANGED refreshState
      /\ ~miss => delay = 0
      /\ Keep(last)
      /\ nextBurstAt' = at + tBURST + (IF delay = 0 THEN 0 ELSE BusDelay)
      /\ lastAct' = la /\ mitigated' = mi
      /\ cmd' = [bank |-> b, act |-> miss, actAt |-> IF miss THEN a ELSE 0,
                 busy |-> mitigated[b]]
  BY DEF doBurstAccess
<1>2. /\ Fit(x, lastAct, mitigated) /\ nextBurstAt \in Int
      /\ x.bank = bank /\ x.ticks = actTicks
  BY DEF TimingInv, Now
<1>3. row \in Nat /\ recovery \in Nat /\ bubble \in Nat /\ delay \in Nat /\ delay <= tRAS + tRP + tRFC
  BY DEF GoodDelays, Rows
<1> HIDE DEF x
<1>4. /\ Fit(closed, lastAct, mitigated) /\ closed.ticks = actTicks
      /\ miss => ~IsOpen(closed, b)
  <2>1. CASE miss /\ bank[b].openRow # NO_ROW
    <3>1. x.bank[b].pre \in Nat /\ x.bank[b].pre <= bank[b].pre
      BY <1>2, Numbers DEF Fit
    <3>2. closed = prechargeBank(x, b, bank[b].pre, FALSE) /\ bank[b].pre \in Nat
      BY <1>2, <2>1, <3>1
    <3> HIDE DEF closed
    <3> QED BY <1>2, <3>1, <3>2, PrechargeKeeps
  <2>2. CASE ~(miss /\ bank[b].openRow # NO_ROW)
    BY <1>2, <2>2 DEF IsOpen
  <2> QED BY <2>1, <2>2
<1> HIDE DEF closed
<1>5. a \in Nat
  BY <1>4, Numbers DEF Fit
<1>6. Fit(opened, la, mitigated) /\ (miss => la[b] = a /\ opened.bank[b].act >= a)
  <2>1. CASE miss
    <3>1. lastAct \in [Banks -> Int]
      BY <1>2 DEF Fit, History
    <3>2. [lastAct EXCEPT ![b] = a][b] = a
      BY <3>1
    <3>3. /\ Fit(activateBank(closed, b, row, a), [lastAct EXCEPT ![b] = a], mitigated)
          /\ activateBank(closed, b, row, a).bank[b].act >= a
      BY <1>3, <1>4, <2>1, ActivateKeeps
    <3> QED BY <2>1, <3>2, <3>3
  <2>2. CASE ~miss
    BY <1>2, <2>2
  <2> QED BY <2>1, <2>2
<1> HIDE DEF opened, la
<1>7. at \in Int
  <2>1. opened.bank[b].col \in Int
    BY <1>6 DEF Fit, Typed
  <2>2. early \in Int
    BY DEF GoodDelays
  <2> HIDE DEF early
  <2> QED BY <1>2, <1>3, <2>1, <2>2 DEF Most
<1> HIDE DEF at
<1>8. /\ Fit(moved, la, mitigated)
      /\ moved.bank[b].act = opened.bank[b].act /\ moved.bank[b].pre \in Nat
  <2>1. at + recovery \in Int
    BY <1>3, <1>7
  <2> QED BY <1>6, <2>1, BurstKeeps
<1> HIDE DEF moved
<1>9. Fit(done, la, mitigated) /\ done.bank[b].act >= moved.bank[b].act
  <2>0. moved.bank[b].act \in Nat /\ moved.bank[b].pre <= moved.bank[b].pre
    BY <1>8, Numbers DEF Fit
  <2>1. CASE auto
    <3>1. done = prechargeBank(moved, b, moved.bank[b].pre, TRUE)
      BY <2>1
    <3> HIDE DEF done
    <3> QED BY <1>8, <2>0, <3>1, PrechargeKeeps
  <2>2. CASE ~auto
    BY <1>8, <2>0, <2>2
  <2> QED BY <2>1, <2>2
<1> HIDE DEF done
<1>10. Fit(last, la, mi)
  <2>1. CASE delay = 0
    BY <1>9, <2>1
  <2>2. CASE delay # 0
    <3>1. miss /\ la[b] = a /\ opened.bank[b].act >= a
      BY <1>1, <1>6, <2>2
    <3>2. opened.bank[b].act \in Nat /\ moved.bank[b].act \in Nat /\ done.bank[b].act \in Nat
      BY <1>6, <1>8, <1>9, Numbers DEF Fit
    <3>3. la[b] \in Nat /\ la[b] <= done.bank[b].act
      BY <1>5, <1>8, <1>9, <3>1, <3>2
    <3>4. Fit(delayBankRowhammer(done, b, row, la[b], delay), la,
              [mitigated EXCEPT ![b] = la[b] + delay])
      BY <1>3, <1>9, <3>3, DelayKeeps
    <3> QED BY <2>2, <3>1, <3>4
  <2> QED BY <2>1, <2>2
<1> HIDE DEF last, mi
<1>11. Fit(Now, lastAct, mitigated)'
  <2>1. Now' = [bank |-> last.bank, active |-> last.active,
                       ticks |-> last.ticks, pre |-> last.pre]
    BY <1>1 DEF Now, Keep
  <2>2. Fit(Now', la, mi)
    BY <1>10, <2>1, KeptFits
  <2> QED BY <1>1, <2>2
<1>12. nextBurstAt' \in Int
  BY <1>1, <1>7 DEF GoodDelays
<1>13. ASSUME miss
       PROVE  /\ a >= mitigated[b] /\ a - actTicks[ActivationLimit] >= tXAW
              /\ a - lastAct[b] >= tRAS + tRP
  <2>1. /\ mitigated[b] <= a /\ lastAct[b] + tRAS + tRP <= a
        /\ actTicks[ActivationLimit] + tXAW <= a
    BY <1>4, <1>13 DEF Fit, Spaced, Limited
  <2>2. /\ mitigated[b] \in Nat /\ lastAct[b] \in Int /\ actTicks[ActivationLimit] \in Int
    BY <1>4, Numbers DEF Fit, History
  <2> QED BY <1>5, <2>1, <2>2 DEF GoodDelays
<1> QED BY <1>1, <1>11, <1>12, <1>13

\* The banks that wait for a refresh are precharged at one tick.
LEMMA RefreshPreStep ==
  ASSUME GoodDelays, TimingInv, RefreshPre
  PROVE  /\ Fit(Now, lastAct, mitigated)'
         /\ \A c \in Banks : bank[c].openRow' = NO_ROW
<1> DEFINE T == [openRow : Int, act : Nat, pre : Nat, col : Int]
           x == Now
           P == {0} \cup {bank[b].pre : b \in Banks}
           p == Longest(P)
           open == {b \in Banks : bank[b].openRow # NO_ROW}
           y == Now'
<1>1. /\ UNCHANGED <<lastAct, mitigated>>
      /\ IF open = {} THEN Keep(Now)
         ELSE /\ bank' = [b \in Banks |->
                     [bank[b] EXCEPT !.openRow = NO_ROW, !.act = Most(@, p + tRP),
                                     !.pre = Most(@, p)]]
              /\ numBanksActive' = numBanksActive - Cardinality(open)
              /\ prechargeAt' = Most(prechargeAt, p + tRP)
              /\ UNCHANGED actTicks
  BY Zenon DEF RefreshPre
<1>2. /\ Fit(x, lastAct, mitigated) /\ Typed(x)
      /\ x.bank = bank /\ x.ticks = actTicks /\ x.pre = prechargeAt
      /\ x.active = numBanksActive
  BY DEF TimingInv, Now, Fit
<1>3. /\ bank \in [Banks -> T] /\ numBanksActive \in Int /\ prechargeAt \in Nat
      /\ actTicks \in [1 .. ActivationLimit -> Int]
  BY <1>2 DEF Typed
<1>4. CASE open = {}
  <2>1. Keep(Now)
    BY <1>1, <1>4
  <2>2. /\ bank' = bank /\ numBanksActive' = numBanksActive /\ actTicks' = actTicks
        /\ prechargeAt' = prechargeAt
    BY <2>1 DEF Keep, Now
  <2>3. Now' = Now
    BY <2>2 DEF Now
  <2>4. \A c \in Banks : bank[c].openRow' = NO_ROW
    BY <1>4, <2>2
  <2> QED BY <1>1, <1>2, <2>3, <2>4
<1>5. CASE open # {}
  <2>1. P \in SUBSET Nat /\ P # {} /\ IsFiniteSet(P)
    <3> DEFINE Q == {bank[c].pre : c \in Banks}
               f == [c \in Banks |-> bank[c].pre]
    <3>1. IsFiniteSet(Banks)
      BY FS_Interval DEF GoodDelays, Banks
    <3>2. f \in Surjection(Banks, Q)
      BY DEF Surjection
    <3>3. IsFiniteSet(Q)
      BY <3>1, <3>2, FS_Surjection
    <3>4. IsFiniteSet({0})
      BY FS_Singleton
    <3>5. IsFiniteSet({0} \cup Q)
      BY <3>3, <3>4, FS_Union
    <3>6. Q \in SUBSET Nat
      BY <1>3
    <3> QED BY <3>5, <3>6
  <2>2. p \in Nat /\ \A c \in Banks : bank[c].pre <= p
    <3>1. p \in P /\ \A n \in P : n <= p
      BY <2>1, LongestOf
    <3> QED BY <2>1, <3>1
  <2>3. IsFiniteSet(open) /\ Cardinality(open) \in Nat
    <3>1. IsFiniteSet(Banks)
      BY FS_Interval DEF GoodDelays, Banks
    <3>2. open \in SUBSET Banks
      OBVIOUS
    <3> QED BY <3>1, <3>2, FS_Subset, FS_CardinalityType
  <2>4. /\ bank' = [b \in Banks |->
                     [bank[b] EXCEPT !.openRow = NO_ROW, !.act = Most(@, p + tRP),
                                     !.pre = Most(@, p)]]
        /\ numBanksActive' = numBanksActive - Cardinality(open)
        /\ prechargeAt' = Most(prechargeAt, p + tRP) /\ actTicks' = actTicks
    BY <1>1, <1>5
  <2> HIDE DEF p, P, open
  <2>5. /\ \A c \in Banks :
             /\ Most(bank[c].act, p + tRP) \in Nat
             /\ Most(bank[c].act, p + tRP) >= bank[c].act
             /\ Most(bank[c].act, p + tRP) >= p + tRP
             /\ Most(bank[c].pre, p) \in Nat
             /\ bank[c].pre \in Nat /\ bank[c].act \in Nat
        /\ Most(prechargeAt, p + tRP) \in Nat
        /\ Most(prechargeAt, p + tRP) >= prechargeAt
        /\ Most(prechargeAt, p + tRP) >= p + tRP
        /\ NO_ROW \in Int
    BY <1>3, <2>2 DEF GoodDelays, Most, NO_ROW
  <2>6. /\ bank' \in [Banks -> T]
        /\ \A c \in Banks :
             /\ bank[c].openRow' = NO_ROW
             /\ bank[c].act' >= bank[c].act /\ bank[c].act' >= p + tRP
    BY <1>3, <2>4, <2>5
  <2>7. /\ numBanksActive' \in Int /\ prechargeAt' \in Nat
        /\ prechargeAt' >= prechargeAt /\ prechargeAt' >= p + tRP
    <3>1. numBanksActive - Cardinality(open) \in Int
      BY <1>3, <2>3
    <3> QED BY <2>4, <2>5, <3>1
  <2>8. /\ y.bank = bank' /\ y.ticks = actTicks' /\ y.pre = prechargeAt'
        /\ y = [bank |-> bank', active |-> numBanksActive', ticks |-> actTicks',
                pre |-> prechargeAt']
    BY DEF Now
  <2>9. Typed(y)
    BY <1>3, <2>4, <2>6, <2>7, <2>8 DEF Typed
  <2> HIDE DEF y, x
  <2>10. \A c \in Banks : ~IsOpen(y, c)
    BY <2>6, <2>8 DEF IsOpen
  <2>11. History(lastAct, mitigated) /\ Spaced(x, lastAct, mitigated) /\ Limited(x)
    BY <1>2 DEF Fit
  <2>12. /\ ActivationLimit \in 1 .. ActivationLimit
         /\ \A c \in Banks : /\ y.bank[c].act \in Nat /\ y.bank[c].pre \in Nat
                             /\ lastAct[c] \in Int /\ mitigated[c] \in Nat
         /\ \A i \in 1 .. ActivationLimit : actTicks[i] \in Int
    BY <1>2, <2>9, <2>11, Numbers DEF History
  <2>13. Spaced(y, lastAct, mitigated)
    <3> SUFFICES ASSUME NEW c \in Banks
                 PROVE  /\ mitigated[c] <= y.bank[c].act
                        /\ mitigated[c] <= y.pre + tRFC
                        /\ lastAct[c] + tRAS + tRP <= y.pre
                        /\ lastAct[c] + tRAS + tRP <= y.bank[c].act
      BY <2>10 DEF Spaced
    <3>1. /\ mitigated[c] <= bank[c].act
          /\ IsOpen(x, c) => /\ mitigated[c] <= bank[c].pre + tRP + tRFC
                             /\ lastAct[c] + tRAS <= bank[c].pre
          /\ ~IsOpen(x, c) => /\ mitigated[c] <= prechargeAt + tRFC
                              /\ lastAct[c] + tRAS + tRP <= prechargeAt
                              /\ lastAct[c] + tRAS + tRP <= bank[c].act
      BY <1>2, <2>11 DEF Spaced
    <3>2. /\ y.bank[c].act >= bank[c].act /\ y.bank[c].act >= p + tRP
          /\ bank[c].pre <= p /\ y.bank[c].act \in Nat
          /\ bank[c].pre \in Nat /\ bank[c].act \in Nat
          /\ lastAct[c] \in Int /\ mitigated[c] \in Nat
      BY <2>2, <2>5, <2>6, <2>8, <2>12
    <3>3. y.pre >= prechargeAt /\ y.pre >= p + tRP /\ y.pre \in Nat
      BY <2>7, <2>8
    <3>4. /\ p \in Nat /\ prechargeAt \in Nat
          /\ tRAS \in Nat /\ tRP \in Nat /\ tRFC \in Nat
      BY <1>3, <2>2 DEF GoodDelays
    <3> QED BY <3>1, <3>2, <3>3, <3>4
  <2>14. Limited(y)
    <3>1. ASSUME NEW c \in Banks
          PROVE  y.ticks[ActivationLimit] + tXAW <= y.bank[c].act
      <4>1. actTicks[ActivationLimit] + tXAW <= bank[c].act
        BY <1>2, <2>11 DEF Limited
      <4>2. y.bank[c].act >= bank[c].act
        BY <2>6, <2>8
      <4>3. /\ y.ticks[ActivationLimit] = actTicks[ActivationLimit]
            /\ actTicks[ActivationLimit] \in Int /\ tXAW \in Nat
            /\ bank[c].act \in Nat /\ y.bank[c].act \in Nat
        BY <2>4, <2>5, <2>8, <2>12 DEF GoodDelays
      <4> QED BY <4>1, <4>2, <4>3
    <3>2. ASSUME NEW i \in 1 .. ActivationLimit
          PROVE  y.ticks[i] <= y.pre
      <4>1. \/ actTicks[i] <= prechargeAt
            \/ \E c \in Banks : actTicks[i] <= bank[c].pre
        BY <1>2, <2>11 DEF Limited
      <4>2. \/ actTicks[i] <= prechargeAt
            \/ actTicks[i] <= p
        BY <2>2, <2>5, <2>12, <4>1
      <4>3. /\ y.ticks[i] = actTicks[i] /\ actTicks[i] \in Int
            /\ y.pre >= prechargeAt /\ y.pre >= p + tRP /\ y.pre \in Nat
            /\ p \in Nat /\ prechargeAt \in Nat /\ tRP \in Nat
        BY <1>3, <2>2, <2>4, <2>7, <2>8, <2>12 DEF GoodDelays
      <4> QED BY <4>2, <4>3
    <3> QED BY <3>1, <3>2 DEF Limited
  <2>15. Fit(y, lastAct, mitigated)
    BY <2>9, <2>11, <2>13, <2>14 DEF Fit
  <2> QED BY <1>1, <2>6, <2>15 DEF y
<1> QED BY <1>4, <1>5

\* The refresh starts when all banks are closed and their precharges are done,
\* and holds them for tRFC, no less than what is left of a mitigation.
LEMMA RefreshStartStep ==
  ASSUME GoodDelays, TimingInv, RefreshStart
  PROVE  /\ Fit(Now, lastAct, mitigated)'
         /\ \A c \in Banks : bank[c].openRow' = NO_ROW
<1> DEFINE T == [openRow : Int, act : Nat, pre : Nat, col : Int]
           x == Now
           y == Now'
<1>1. /\ prechargeAt = 0 /\ prechargeAt' = 0 /\ actTicks' = actTicks
      /\ numBanksActive' = numBanksActive /\ lastAct' = lastAct /\ mitigated' = mitigated
      /\ bank' = [c \in Banks |-> [bank[c] EXCEPT !.act = tRFC]]
      /\ refreshState # "REF_IDLE"
  BY DEF RefreshStart
<1>2. /\ Fit(x, lastAct, mitigated) /\ Typed(x)
      /\ x.bank = bank /\ x.ticks = actTicks /\ x.pre = prechargeAt
      /\ x.active = numBanksActive
  BY DEF TimingInv, Now, Fit
<1>3. /\ bank \in [Banks -> T] /\ numBanksActive \in Int
      /\ actTicks \in [1 .. ActivationLimit -> Int]
  BY <1>2 DEF Typed
<1>4. \A c \in Banks : bank[c].openRow = NO_ROW
  BY <1>1 DEF TimingInv
<1>5. /\ bank' \in [Banks -> T]
      /\ \A c \in Banks : /\ bank[c].openRow' = NO_ROW
                          /\ bank[c].act' = tRFC
  BY <1>1, <1>3, <1>4 DEF GoodDelays
<1>6. /\ y.bank = bank' /\ y.ticks = actTicks /\ y.pre = 0
      /\ y = [bank |-> bank', active |-> numBanksActive, ticks |-> actTicks, pre |-> 0]
  BY <1>1 DEF Now
<1>7. Typed(y)
  BY <1>3, <1>5, <1>6 DEF Typed
<1> HIDE DEF x, y
<1>8. \A c \in Banks : ~IsOpen(y, c) /\ ~IsOpen(x, c)
  BY <1>2, <1>4, <1>5, <1>6 DEF IsOpen
<1>9. History(lastAct, mitigated) /\ Spaced(x, lastAct, mitigated) /\ Limited(x)
  BY <1>2 DEF Fit
<1>10. /\ ActivationLimit \in 1 .. ActivationLimit
       /\ \A c \in Banks : lastAct[c] \in Int /\ mitigated[c] \in Nat
       /\ \A i \in 1 .. ActivationLimit : actTicks[i] \in Int
  BY <1>2, <1>9, Numbers DEF History
<1>11. Spaced(y, lastAct, mitigated)
  <2> SUFFICES ASSUME NEW c \in Banks
               PROVE  /\ mitigated[c] <= tRFC
                      /\ mitigated[c] <= 0 + tRFC
                      /\ lastAct[c] + tRAS + tRP <= 0
                      /\ lastAct[c] + tRAS + tRP <= tRFC
    BY <1>5, <1>6, <1>8 DEF Spaced
  <2>1. mitigated[c] <= 0 + tRFC /\ lastAct[c] + tRAS + tRP <= 0
    BY <1>1, <1>2, <1>8, <1>9 DEF Spaced
  <2> QED BY <1>10, <2>1 DEF GoodDelays
<1>12. Limited(y)
  <2>1. \A i \in 1 .. ActivationLimit : actTicks[i] <= 0
    BY <1>1, <1>2, <1>8, <1>9 DEF Limited
  <2>2. actTicks[ActivationLimit] + tXAW <= tRFC
    BY <1>10, <2>1 DEF GoodDelays
  <2> QED BY <1>5, <1>6, <2>1, <2>2 DEF Limited
<1>13. Fit(y, lastAct, mitigated)
  BY <1>7, <1>9, <1>11, <1>12 DEF Fit
<1> QED BY <1>1, <1>5, <1>13 DEF y

\* All ticks come one nearer, and none is kept below its floor.
LEMMA TickStep ==
  ASSUME GoodDelays, TimingInv, Tick
  PROVE  /\ Fit(Now, lastAct, mitigated)' /\ nextBurstAt' \in Int
         /\ \A c \in Banks : bank[c].openRow' = bank[c].openRow
<1> DEFINE T == [openRow : Int, act : Nat, pre : Nat, col : Int]
           x == Now
           y == Now'
<1>1. /\ prechargeAt' = Less(prechargeAt) /\ numBanksActive' = numBanksActive
      /\ bank' = [b \in Banks |->
                    [bank[b] EXCEPT !.act = Less(@), !.pre = Less(@),
                                    !.col = Less(@)]]
      /\ actTicks' = [i \in 1 .. ActivationLimit |-> Most(actTicks[i] - 1, -tXAW)]
      /\ nextBurstAt' = Most(nextBurstAt - 1, -Longest(Bubbles))
      /\ lastAct' = [b \in Banks |-> Most(lastAct[b] - 1, -(tRAS + tRP))]
      /\ mitigated' = [b \in Banks |-> Less(mitigated[b])]
  BY DEF Tick
<1>2. /\ Fit(x, lastAct, mitigated) /\ Typed(x)
      /\ x.bank = bank /\ x.ticks = actTicks /\ x.pre = prechargeAt
      /\ x.active = numBanksActive /\ nextBurstAt \in Int
  BY DEF TimingInv, Now, Fit
<1>3. /\ bank \in [Banks -> T] /\ numBanksActive \in Int /\ prechargeAt \in Nat
      /\ actTicks \in [1 .. ActivationLimit -> Int]
  BY <1>2 DEF Typed
<1>4. nextBurstAt' \in Int
  <2>1. Longest(Bubbles) \in Nat
    BY LongestOf DEF GoodDelays
  <2>2. nextBurstAt' = Most(nextBurstAt - 1, -Longest(Bubbles))
    BY <1>1
  <2> QED BY <1>2, <2>1, <2>2 DEF Most
<1>5. \A c \in Banks :
        /\ Less(bank[c].act) \in Nat /\ Less(bank[c].act) >= bank[c].act - 1
        /\ Less(bank[c].pre) \in Nat /\ Less(bank[c].pre) >= bank[c].pre - 1
        /\ Less(bank[c].col) \in Nat
        /\ bank[c].act \in Nat /\ bank[c].pre \in Nat
  BY <1>3 DEF Less, Most
<1>6. /\ bank' \in [Banks -> T]
      /\ \A c \in Banks : /\ bank[c].openRow' = bank[c].openRow
                          /\ bank[c].act' = Less(bank[c].act)
                          /\ bank[c].pre' = Less(bank[c].pre)
  <2>1. bank' = [b \in Banks |->
                    [bank[b] EXCEPT !.act = Less(@), !.pre = Less(@),
                                    !.col = Less(@)]]
    BY <1>1
  <2> DEFINE r(b) == [bank[b] EXCEPT !.act = Less(@), !.pre = Less(@),
                                     !.col = Less(@)]
  <2>2. ASSUME NEW c \in Banks
        PROVE  /\ r(c) \in T /\ r(c).openRow = bank[c].openRow
               /\ r(c).act = Less(bank[c].act) /\ r(c).pre = Less(bank[c].pre)
    <3>1. /\ bank[c] \in T /\ Less(bank[c].act) \in Nat
          /\ Less(bank[c].pre) \in Nat /\ Less(bank[c].col) \in Nat
      BY <1>3, <1>5
    <3>2. PICK v \in T : v = bank[c]
      BY <3>1
    <3>3. PICK e \in Nat : e = Less(v.act)
      BY <3>1, <3>2
    <3>4. PICK f \in Nat : f = Less(v.pre)
      BY <3>1, <3>2
    <3>5. PICK g \in Int : g = Less(v.col)
      BY <3>1, <3>2
    <3>6. r(c) = [v EXCEPT !.act = e, !.pre = f, !.col = g]
      BY <3>2, <3>3, <3>4, <3>5
    <3> HIDE DEF r
    <3> DEFINE w == [v EXCEPT !.act = e, !.pre = f]
    <3>7. w \in T /\ w.openRow = v.openRow /\ w.act = e /\ w.pre = f
      OBVIOUS
    <3>8. r(c) = [w EXCEPT !.col = g]
      BY <3>6
    <3> HIDE DEF w
    <3>9. r(c) \in T /\ r(c).openRow = w.openRow /\ r(c).act = w.act /\ r(c).pre = w.pre
      BY <3>7, <3>8
    <3> QED BY <3>2, <3>3, <3>4, <3>7, <3>9
  <2>3. bank' = [b \in Banks |-> r(b)]
    BY <2>1
  <2> HIDE DEF r, T
  <2>4. bank' \in [Banks -> T]
    BY <2>2, <2>3
  <2>5. \A c \in Banks : bank'[c] = r(c)
    BY <2>3
  <2> QED BY <2>2, <2>4, <2>5
<1>7. /\ actTicks' \in [1 .. ActivationLimit -> Int]
      /\ \A i \in 1 .. ActivationLimit :
           actTicks[i]' = actTicks[i] - 1 \/ actTicks[i]' = -tXAW
  <2>1. actTicks' = [i \in 1 .. ActivationLimit |-> Most(actTicks[i] - 1, -tXAW)]
    BY <1>1
  <2>2. tXAW \in Nat /\ actTicks \in [1 .. ActivationLimit -> Int]
    BY <1>3 DEF GoodDelays
  <2> QED BY <2>1, <2>2 DEF Most
<1>8. History(lastAct, mitigated) /\ Spaced(x, lastAct, mitigated) /\ Limited(x)
  BY <1>2 DEF Fit
<1>9. /\ lastAct' \in [Banks -> Int] /\ mitigated' \in [Banks -> Nat]
      /\ \A c \in Banks :
           /\ lastAct[c]' = lastAct[c] - 1 \/ lastAct[c]' = -(tRAS + tRP)
           /\ mitigated[c]' = mitigated[c] - 1 \/ mitigated[c]' = 0
           /\ lastAct[c] \in Int /\ mitigated[c] \in Nat
           /\ lastAct[c]' \in Int /\ mitigated[c]' \in Nat
  <2>1. /\ lastAct' = [b \in Banks |-> Most(lastAct[b] - 1, -(tRAS + tRP))]
        /\ mitigated' = [b \in Banks |-> Less(mitigated[b])]
    BY <1>1
  <2>2. /\ tRAS \in Nat /\ tRP \in Nat
        /\ lastAct \in [Banks -> Int] /\ mitigated \in [Banks -> Nat]
    BY <1>8 DEF GoodDelays, History
  <2> QED BY <2>1, <2>2 DEF Most, Less
<1>10. prechargeAt' \in Nat /\ prechargeAt' >= prechargeAt - 1
  <2>1. prechargeAt' = Less(prechargeAt)
    BY <1>1
  <2> QED BY <1>3, <2>1 DEF Less, Most
<1>11. /\ y.bank = bank' /\ y.ticks = actTicks' /\ y.pre = prechargeAt'
       /\ y = [bank |-> bank', active |-> numBanksActive, ticks |-> actTicks',
               pre |-> prechargeAt']
  BY <1>1 DEF Now
<1>12. Typed(y)
  BY <1>3, <1>6, <1>7, <1>10, <1>11 DEF Typed
<1> HIDE DEF x, y
<1>13. \A c \in Banks : IsOpen(y, c) <=> IsOpen(x, c)
  BY <1>2, <1>6, <1>11 DEF IsOpen
<1>14. \A c \in Banks :
         /\ bank[c].act \in Nat /\ bank[c].pre \in Nat
         /\ y.bank[c].act \in Nat /\ y.bank[c].pre \in Nat
         /\ y.bank[c].act >= bank[c].act - 1 /\ y.bank[c].pre >= bank[c].pre - 1
         /\ lastAct[c] \in Int /\ mitigated[c] \in Nat
         /\ lastAct[c]' \in Int /\ mitigated[c]' \in Nat
  BY <1>5, <1>6, <1>9, <1>11
<1>15. tRAS \in Nat /\ tRP \in Nat /\ tRFC \in Nat /\ tXAW \in Nat
  BY DEF GoodDelays
<1>16. Spaced(y, lastAct', mitigated')
  <2> SUFFICES ASSUME NEW c \in Banks
               PROVE  /\ mitigated[c]' <= y.bank[c].act
                      /\ IsOpen(y, c) => /\ mitigated[c]' <= y.bank[c].pre + tRP + tRFC
                                         /\ lastAct[c]' + tRAS <= y.bank[c].pre
                      /\ ~IsOpen(y, c) => /\ mitigated[c]' <= y.pre + tRFC
                                          /\ lastAct[c]' + tRAS + tRP <= y.pre
                                          /\ lastAct[c]' + tRAS + tRP <= y.bank[c].act
    BY DEF Spaced
  <2>1. /\ mitigated[c] <= bank[c].act
        /\ IsOpen(y, c) => /\ mitigated[c] <= bank[c].pre + tRP + tRFC
                           /\ lastAct[c] + tRAS <= bank[c].pre
        /\ ~IsOpen(y, c) => /\ mitigated[c] <= prechargeAt + tRFC
                            /\ lastAct[c] + tRAS + tRP <= prechargeAt
                            /\ lastAct[c] + tRAS + tRP <= bank[c].act
    BY <1>2, <1>8, <1>13 DEF Spaced
  <2>2. /\ bank[c].act \in Nat /\ bank[c].pre \in Nat
        /\ y.bank[c].act \in Nat /\ y.bank[c].pre \in Nat
        /\ y.bank[c].act >= bank[c].act - 1 /\ y.bank[c].pre >= bank[c].pre - 1
        /\ lastAct[c] \in Int /\ mitigated[c] \in Nat
        /\ y.pre \in Nat /\ y.pre >= prechargeAt - 1 /\ prechargeAt \in Nat
    BY <1>3, <1>10, <1>11, <1>14
  <2>3. /\ lastAct[c]' = lastAct[c] - 1 \/ lastAct[c]' = -(tRAS + tRP)
        /\ mitigated[c]' = mitigated[c] - 1 \/ mitigated[c]' = 0
    BY <1>9
  <2> QED BY <1>15, <2>1, <2>2, <2>3
<1>17. Limited(y)
  <2>0. /\ ActivationLimit \in 1 .. ActivationLimit
        /\ \A i \in 1 .. ActivationLimit : actTicks[i] \in Int
    BY <1>3 DEF GoodDelays
  <2>1. ASSUME NEW c \in Banks
        PROVE  y.ticks[ActivationLimit] + tXAW <= y.bank[c].act
    <3>1. actTicks[ActivationLimit] + tXAW <= bank[c].act
      BY <1>2, <1>8 DEF Limited
    <3>2. /\ y.ticks[ActivationLimit] = actTicks[ActivationLimit] - 1
             \/ y.ticks[ActivationLimit] = -tXAW
          /\ actTicks[ActivationLimit] \in Int
      BY <1>7, <1>11, <2>0
    <3> QED BY <1>14, <1>15, <3>1, <3>2
  <2>2. ASSUME NEW i \in 1 .. ActivationLimit
        PROVE  \/ y.ticks[i] <= y.pre
               \/ \E c \in Banks : IsOpen(y, c) /\ y.ticks[i] <= y.bank[c].pre
    <3>1. /\ y.ticks[i] = actTicks[i] - 1 \/ y.ticks[i] = -tXAW
          /\ actTicks[i] \in Int /\ prechargeAt \in Nat
          /\ y.pre \in Nat /\ y.pre >= prechargeAt - 1
      BY <1>3, <1>7, <1>10, <1>11, <2>0
    <3>2. CASE actTicks[i] <= prechargeAt
      BY <1>15, <3>1, <3>2
    <3>3. ASSUME NEW c \in Banks, IsOpen(x, c), actTicks[i] <= bank[c].pre
          PROVE  \E d \in Banks : IsOpen(y, d) /\ y.ticks[i] <= y.bank[d].pre
      <4>1. y.ticks[i] <= y.bank[c].pre
        BY <1>14, <1>15, <3>1, <3>3
      <4> QED BY <1>13, <3>3, <4>1
    <3> QED BY <1>2, <1>8, <3>2, <3>3 DEF Limited
  <2> QED BY <2>1, <2>2 DEF Limited
<1>18. Fit(y, lastAct', mitigated')
  BY <1>9, <1>12, <1>16, <1>17 DEF Fit, History
<1> QED BY <1>4, <1>6, <1>18 DEF y

LEMMA TimingInit == ASSUME GoodDelays, Init PROVE TimingInv
<1>1. Typed(Now)
  BY DEF Init, Now, Typed, GoodDelays, NO_ROW
<1>2. History(lastAct, mitigated)
  BY DEF Init, History, GoodDelays
<1>3. /\ Now.bank = bank /\ Now.ticks = actTicks /\ Now.pre = 0
      /\ ActivationLimit \in 1 .. ActivationLimit
  BY DEF Init, Now, GoodDelays
<1>4. /\ \A c \in Banks : /\ bank[c].act = 0 /\ bank[c].openRow = NO_ROW
                          /\ lastAct[c] = -(tRAS + tRP) /\ mitigated[c] = 0
      /\ \A i \in 1 .. ActivationLimit : actTicks[i] = -tXAW
  BY DEF Init
<1>5. tRAS \in Nat /\ tRP \in Nat /\ tRFC \in Nat /\ tXAW \in Nat
  BY DEF GoodDelays
<1>6. \A c \in Banks : ~IsOpen(Now, c)
  BY <1>3, <1>4 DEF IsOpen
<1>7. Spaced(Now, lastAct, mitigated)
  BY <1>3, <1>4, <1>5, <1>6 DEF Spaced
<1>8. Limited(Now)
  BY <1>3, <1>4, <1>5 DEF Limited
<1> QED BY <1>1, <1>2, <1>7, <1>8
        DEF TimingInv, Fit, Init, MitigationKept, NoCmd

\* One step: the invariant is kept, and an activate keeps its distances.
LEMMA TimingNext ==
  ASSUME GoodDelays, TimingInv, [Next]_vars
  PROVE  /\ TimingInv'
         /\ vars' # vars /\ cmd'.act =>
              /\ cmd'.actAt - actTicks[ActivationLimit] >= tXAW
              /\ cmd'.actAt - lastAct[cmd'.bank] >= tRAS + tRP
<1>0. /\ Fit(Now, lastAct, mitigated) /\ nextBurstAt \in Int
      /\ refreshState # "REF_IDLE" => \A c \in Banks : bank[c].openRow = NO_ROW
      /\ MitigationKept
  BY DEF TimingInv
<1>1. CASE Burst
  <2>1. PICK b \in Banks, row \in Rows, recovery \in Recoveries, auto \in BOOLEAN,
             delay \in BankDelays, bubble \in Bubbles :
          doBurstAccess(b, row, recovery, auto, delay, bubble)
    BY <1>1 DEF Burst
  <2>2. /\ Fit(Now, lastAct, mitigated)' /\ nextBurstAt' \in Int
        /\ refreshState' = "REF_IDLE"
        /\ cmd'.act => /\ cmd'.bank \in Banks
                       /\ cmd'.actAt >= cmd'.busy
                       /\ cmd'.actAt - actTicks[ActivationLimit] >= tXAW
                       /\ cmd'.actAt - lastAct[cmd'.bank] >= tRAS + tRP
    BY <2>1, BurstStep
  <2> QED BY <2>2 DEF TimingInv, MitigationKept
<1>2. CASE RefreshPre
  <2>1. /\ Fit(Now, lastAct, mitigated)'
        /\ \A c \in Banks : bank[c].openRow' = NO_ROW
    BY <1>2, RefreshPreStep
  <2>2. nextBurstAt' = nextBurstAt /\ ~cmd'.act
    BY <1>2 DEF RefreshPre, NoCmd
  <2> QED BY <1>0, <2>1, <2>2 DEF TimingInv, MitigationKept
<1>3. CASE RefreshStart
  <2>1. /\ Fit(Now, lastAct, mitigated)'
        /\ \A c \in Banks : bank[c].openRow' = NO_ROW
    BY <1>3, RefreshStartStep
  <2>2. nextBurstAt' = nextBurstAt /\ ~cmd'.act
    BY <1>3 DEF RefreshStart, NoCmd
  <2> QED BY <1>0, <2>1, <2>2 DEF TimingInv, MitigationKept
<1>4. CASE RefreshRun
  <2>1. /\ Now' = Now /\ lastAct' = lastAct /\ mitigated' = mitigated
        /\ nextBurstAt' = nextBurstAt /\ ~cmd'.act /\ refreshState' = "REF_IDLE"
    BY <1>4 DEF RefreshRun, NoCmd, Now
  <2> QED BY <1>0, <2>1 DEF TimingInv, MitigationKept
<1>5. CASE Tick
  <2>1. /\ Fit(Now, lastAct, mitigated)' /\ nextBurstAt' \in Int
        /\ \A c \in Banks : bank[c].openRow' = bank[c].openRow
    BY <1>5, TickStep
  <2>2. refreshState' = refreshState /\ ~cmd'.act
    BY <1>5 DEF Tick, NoCmd
  <2> QED BY <1>0, <2>1, <2>2 DEF TimingInv, MitigationKept
<1>6. CASE UNCHANGED vars
  <2>1. /\ Now' = Now /\ lastAct' = lastAct /\ mitigated' = mitigated
        /\ nextBurstAt' = nextBurstAt /\ cmd' = cmd /\ refreshState' = refreshState
        /\ bank' = bank
    BY <1>6 DEF vars, Now
  <2> QED BY <1>0, <1>6, <2>1 DEF TimingInv, MitigationKept
<1> QED BY <1>1, <1>2, <1>3, <1>4, <1>5, <1>6 DEF Next

LEMMA TimingInvHolds == Spec => []TimingInv
<1>1. Init => TimingInv
  BY Delays, TimingInit
<1>2. TimingInv /\ [Next]_vars => TimingInv'
  BY Delays, TimingNext
<1> QED BY <1>1, <1>2, PTL DEF Spec

\* No bank is activated before its mitigation is over: what delayBankRowhammer()
\* adds is not lost in a refresh nor in an access to another bank, for every
\* number of banks and all timings with mitigations no longer than tRC + tRFC.
THEOREM Mitigations == Spec => []MitigationKept
<1>1. TimingInv => MitigationKept
  BY DEF TimingInv
<1> QED BY <1>1, TimingInvHolds, PTL

\* activateBank() never meets its panic: an activate that it records is tXAW
\* after the oldest one that it still knows of.
THEOREM Windows == Spec => WindowKept
<1>1. TimingInv /\ [Next]_vars
        => [cmd'.act => cmd'.actAt - actTicks[ActivationLimit] >= tXAW]_vars
  BY Delays, TimingNext
<1> QED BY <1>1, TimingInvHolds, PTL DEF Spec, WindowKept

\* Two activates of a bank are tRAS + tRP apart, also where a mitigation or a
\* refresh comes between them.
THEOREM RowCycles == Spec => RowCycleKept
<1>1. TimingInv /\ [Next]_vars
        => [cmd'.act => cmd'.actAt - lastAct[cmd'.bank] >= tRAS + tRP]_vars
  BY Delays, TimingNext
<1> QED BY <1>1, TimingInvHolds, PTL DEF Spec, RowCycleKept
=============================================================================
