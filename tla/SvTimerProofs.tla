----------------------------- MODULE SvTimerProofs -----------------------------
(***************************************************************************)
(* Proofs about SvTimer: the timer lists stay in deadline order across the *)
(* wrap of the tick counter, hold exactly the active timers, and the       *)
(* signal between SysTick and the loop is never lost, for any number of    *)
(* timers, any tick width and any periods within SvTimerAssumption.        *)
(***************************************************************************)
EXTENDS SvTimer, SequenceTheorems, TLAPS

--------------------------------------------------------------------------------
(* Tick arithmetic.                                                        *)

\* n + d ticks, n on the counter, is on the counter.
LEMMA WrapType ==
    ASSUME NEW n \in 0 .. TickMod - 1, NEW d \in Int, -Half < d, d < Half
    PROVE  Wrap(n + d) \in 0 .. TickMod - 1
BY SvTimerAssumption DEF Wrap, TickMod

\* The unsigned difference of two deadlines orders them as they really are.
LEMMA WrapOrder ==
    ASSUME NEW n \in 0 .. TickMod - 1, NEW d \in -MaxLate - 1 .. MaxInit,
           NEW e \in -MaxLate - 1 .. MaxInit
    PROVE  TickSub(Wrap(n + d), Wrap(n + e)) < Half <=> e <= d
BY SvTimerAssumption DEF Wrap, TickMod, TickSub

\* The unsigned difference to now tells whether a deadline has passed.
LEMMA WrapExpired ==
    ASSUME NEW n \in 0 .. TickMod - 1, NEW d \in -MaxLate - 1 .. MaxInit
    PROVE  Expired(n, Wrap(n + d)) <=> d <= 0
BY SvTimerAssumption DEF Wrap, TickMod, TickSub, Expired

\* One tick later a deadline is one tick nearer, and the same.
LEMMA WrapStep ==
    ASSUME NEW n \in 0 .. TickMod - 1, NEW d \in -MaxLate - 1 .. MaxInit
    PROVE  /\ TickAdd(n, 1) \in 0 .. TickMod - 1
           /\ Wrap(TickAdd(n, 1) + (d - 1)) = Wrap(n + d)
BY SvTimerAssumption DEF Wrap, TickMod, TickAdd

\* An accepted period is within the bound on periods.
LEMMA AcceptedTicks ==
    ASSUME NEW ms \in Asked, Accepted(ms)
    PROVE  sv_tick_from_millisecond(ms) \in 0 .. MaxInit
<1> DEFINE product == TicksPerSecond * ms + 999
<1>1. product \in Nat
  <2>1. ms \in Nat /\ TicksPerSecond \in Nat
    BY SvTimerAssumption
  <2>2. TicksPerSecond * ms \in Nat
    BY <2>1
  <2>3. QED
    BY <2>2
<1>2. product % MsWord \in Nat
  BY <1>1, SvTimerAssumption
<1>3. (product % MsWord) \div 1000 \in Nat
  BY <1>2
<1>4. sv_tick_from_millisecond(ms) <= MaxInit
  BY SvTimerAssumption
<1>5. QED
  BY <1>3, <1>4, SvTimerAssumption DEF sv_tick_from_millisecond

--------------------------------------------------------------------------------
(* The sequence operators the lists are built with.                        *)

\* InsertAt makes room at p: what was before p stays, what was after moves up.
LEMMA InsertAtFacts ==
    ASSUME NEW S, NEW l \in Seq(S), NEW t \in S, NEW p \in 1 .. Len(l) + 1
    PROVE  /\ InsertAt(l, p, t) \in Seq(S)
           /\ Len(InsertAt(l, p, t)) = Len(l) + 1
           /\ \A i \in 1 .. Len(l) + 1 :
                InsertAt(l, p, t)[i] = IF i < p THEN l[i] ELSE IF i = p THEN t ELSE l[i - 1]
<1> DEFINE a == SubSeq(l, 1, p - 1)
           b == a \o <<t>>
           c == SubSeq(l, p, Len(l))
<1>1. Len(l) \in Nat
  OBVIOUS
<1>2. /\ a \in Seq(S) /\ Len(a) = p - 1
      /\ \A i \in 1 .. p - 1 : a[i] = l[i]
  BY <1>1
<1>3. /\ c \in Seq(S) /\ Len(c) = Len(l) - p + 1
      /\ \A i \in 1 .. Len(l) - p + 1 : c[i] = l[p + i - 1]
  <2>1. \A i \in p .. Len(l) : l[i] \in S
    OBVIOUS
  <2>2. QED
    BY <1>1, <2>1, SubSeqProperties
<1>4. <<t>> \in Seq(S) /\ Len(<<t>>) = 1 /\ <<t>>[1] = t
  OBVIOUS
<1> HIDE DEF a, c
<1>5. /\ b \in Seq(S) /\ Len(b) = p
      /\ \A i \in 1 .. p : b[i] = IF i < p THEN l[i] ELSE t
  BY <1>1, <1>2, <1>4, ConcatProperties
<1> HIDE DEF b
<1>6. /\ b \o c \in Seq(S) /\ Len(b \o c) = Len(l) + 1
      /\ \A i \in 1 .. Len(l) + 1 : (b \o c)[i] = IF i <= p THEN b[i] ELSE c[i - p]
  BY <1>1, <1>3, <1>5, ConcatProperties
<1>7. InsertAt(l, p, t) = b \o c
  BY DEF InsertAt, a, b, c
<1>8. ASSUME NEW i \in 1 .. Len(l) + 1
      PROVE  InsertAt(l, p, t)[i] = IF i < p THEN l[i] ELSE IF i = p THEN t ELSE l[i - 1]
  BY <1>1, <1>3, <1>5, <1>6, <1>7
<1>9. QED
  BY <1>6, <1>7, <1>8

\* RemoveAt closes the gap at p: what was after p moves down.
LEMMA RemoveAtFacts ==
    ASSUME NEW S, NEW l \in Seq(S), NEW p \in 1 .. Len(l)
    PROVE  /\ RemoveAt(l, p) \in Seq(S)
           /\ Len(RemoveAt(l, p)) = Len(l) - 1
           /\ \A i \in 1 .. Len(l) - 1 :
                RemoveAt(l, p)[i] = IF i < p THEN l[i] ELSE l[i + 1]
<1> DEFINE a == SubSeq(l, 1, p - 1)
           c == SubSeq(l, p + 1, Len(l))
<1>1. Len(l) \in Nat
  OBVIOUS
<1>2. /\ a \in Seq(S) /\ Len(a) = p - 1
      /\ \A i \in 1 .. p - 1 : a[i] = l[i]
  BY <1>1
<1>3. /\ c \in Seq(S) /\ Len(c) = Len(l) - p
      /\ \A i \in 1 .. Len(l) - p : c[i] = l[p + i]
  <2>1. \A i \in p + 1 .. Len(l) : l[i] \in S
    OBVIOUS
  <2>2. QED
    BY <1>1, <2>1, SubSeqProperties
<1> HIDE DEF a, c
<1>4. /\ a \o c \in Seq(S) /\ Len(a \o c) = Len(a) + Len(c)
      /\ \A i \in 1 .. Len(a) + Len(c) :
           (a \o c)[i] = IF i <= Len(a) THEN a[i] ELSE c[i - Len(a)]
  <2>1. a \in Seq(S) /\ c \in Seq(S)
    BY <1>2, <1>3
  <2>2. QED
    BY <2>1, ConcatProperties, Zenon
<1>5. RemoveAt(l, p) = a \o c
  BY DEF RemoveAt, a, c
<1>6. Len(a) = p - 1 /\ Len(c) = Len(l) - p /\ Len(a) + Len(c) = Len(l) - 1
  BY <1>1, <1>2, <1>3
<1>8. ASSUME NEW i \in 1 .. Len(l) - 1
      PROVE  RemoveAt(l, p)[i] = IF i < p THEN l[i] ELSE l[i + 1]
  <2>1. CASE i < p
    BY <2>1, <1>1, <1>2, <1>4, <1>5, <1>6
  <2>2. CASE i >= p
    <3>1. i - (p - 1) \in 1 .. Len(l) - p /\ p + (i - (p - 1)) = i + 1
      BY <2>2, <1>1
    <3>2. (a \o c)[i] = c[i - Len(a)]
      <4>1. i \in 1 .. Len(a) + Len(c) /\ ~(i <= Len(a))
        BY <2>2, <1>1, <1>6
      <4>2. QED
        BY <4>1, <1>4
    <3>3. QED
      BY <3>1, <3>2, <1>3, <1>5, <1>6, <2>2
  <2>3. QED
    BY <2>1, <2>2, <1>1
<1>9. QED
  BY <1>4, <1>5, <1>6, <1>8

--------------------------------------------------------------------------------
(* What they do to an ordered list without duplicates.                     *)

\* A list as timer_handle and sv_timer_start expect it.
ListSound(l, togo) == l \in Seq(Timers) /\ NoDup(l) /\ InOrder(l, togo)

\* A list of timers has timers on it.
LEMMA LinkedTimers == ASSUME NEW l \in Seq(Timers) PROVE Linked(l) \subseteq Timers
<1>1. \A i \in DOMAIN l : l[i] \in Timers
  OBVIOUS
<1>2. QED
  BY <1>1 DEF Linked

\* The head of a list with c put in is c, or a timer of the list.
LEMMA InsertedHead ==
    ASSUME NEW l \in Seq(Timers), NEW c \in Timers, NEW p \in 1 .. Len(l) + 1,
           NEW t, t = Head(InsertAt(l, p, c)), t # c
    PROVE  t \in Linked(l)
<1>1. PICK m : m = InsertAt(l, p, c)
  OBVIOUS
<1>2. /\ m \in Seq(Timers) /\ Len(m) = Len(l) + 1
      /\ \A i \in 1 .. Len(l) + 1 :
           m[i] = IF i < p THEN l[i] ELSE IF i = p THEN c ELSE l[i - 1]
  <2>1. /\ InsertAt(l, p, c) \in Seq(Timers)
        /\ Len(InsertAt(l, p, c)) = Len(l) + 1
        /\ \A i \in 1 .. Len(l) + 1 :
             InsertAt(l, p, c)[i] = IF i < p THEN l[i] ELSE IF i = p THEN c ELSE l[i - 1]
    BY ONLY InsertAtFacts, p \in 1 .. Len(l) + 1, l \in Seq(Timers), c \in Timers
  <2>2. QED
    BY <1>1, <2>1
<1>3. Len(l) \in Nat /\ DOMAIN l = 1 .. Len(l) /\ 1 \in 1 .. Len(l) + 1
  OBVIOUS
<1>4. t = m[1]
  BY <1>1, <1>2, <1>3
<1>5. 1 < p
  BY <1>2, <1>3, <1>4
<1>6. t = l[1] /\ 1 \in DOMAIN l
  BY <1>2, <1>3, <1>4, <1>5
<1>7. QED
  BY <1>6 DEF Linked

\* The same in terms of indices, with what the provers need of the types.
LEMMA ListSoundFacts ==
    ASSUME NEW l, NEW g \in [Timers -> Int], ListSound(l, g)
    PROVE  /\ l \in Seq(Timers) /\ Len(l) \in Nat /\ DOMAIN l = 1 .. Len(l)
           /\ \A i \in 1 .. Len(l) : l[i] \in Timers /\ g[l[i]] \in Int
           /\ \A i, j \in 1 .. Len(l) : l[i] = l[j] => i = j
           /\ \A i, j \in 1 .. Len(l) : i < j => g[l[i]] <= g[l[j]]
BY DEF ListSound, NoDup, InOrder

\* A list that takes its elements from l in order.
LEMMA SublistSound ==
    ASSUME NEW l, NEW g \in [Timers -> Int], ListSound(l, g),
           NEW m \in Seq(Timers), NEW h \in [1 .. Len(m) -> 1 .. Len(l)],
           \A i \in 1 .. Len(m) : m[i] = l[h[i]],
           \A i, j \in 1 .. Len(m) : i < j => h[i] < h[j]
    PROVE  ListSound(m, g)
<1>1. /\ Len(m) \in Nat /\ DOMAIN m = 1 .. Len(m) /\ Len(l) \in Nat
      /\ \A i, j \in 1 .. Len(l) : l[i] = l[j] => i = j
      /\ \A i, j \in 1 .. Len(l) : i < j => g[l[i]] <= g[l[j]]
  BY ListSoundFacts
<1>2. ASSUME NEW i \in 1 .. Len(m), NEW j \in 1 .. Len(m), m[i] = m[j] PROVE i = j
  <2>1. h[i] = h[j]
    <3>1. h[i] \in 1 .. Len(l) /\ h[j] \in 1 .. Len(l) /\ l[h[i]] = l[h[j]]
      BY <1>2
    <3>2. QED
      BY <3>1, <1>1
  <2>2. ~(i < j) /\ ~(j < i)
    BY <2>1, <1>1
  <2>3. QED
    BY <2>2, <1>1
<1>3. ASSUME NEW i \in 1 .. Len(m), NEW j \in 1 .. Len(m), i < j PROVE g[m[i]] <= g[m[j]]
  <2>1. h[i] \in 1 .. Len(l) /\ h[j] \in 1 .. Len(l) /\ h[i] < h[j]
    BY <1>3
  <2>2. g[l[h[i]]] <= g[l[h[j]]]
    BY <2>1, <1>1
  <2>3. QED
    BY <2>2
<1>4. QED
  BY <1>1, <1>2, <1>3 DEF ListSound, NoDup, InOrder

\* A timer linked before the first later deadline leaves the list sorted, without duplicates.
LEMMA InsertSound ==
    ASSUME NEW l, NEW g \in [Timers -> Int], NEW t \in Timers, NEW p \in 1 .. Len(l) + 1,
           ListSound(l, g), t \notin Linked(l),
           \A q \in 1 .. p - 1 : g[l[q]] < g[t],
           p <= Len(l) => g[t] <= g[l[p]]
    PROVE  /\ ListSound(InsertAt(l, p, t), g)
           /\ Linked(InsertAt(l, p, t)) = Linked(l) \cup {t}
<1> DEFINE m == InsertAt(l, p, t)
<1>1. /\ l \in Seq(Timers) /\ Len(l) \in Nat /\ DOMAIN l = 1 .. Len(l)
      /\ \A i \in 1 .. Len(l) : l[i] \in Timers /\ g[l[i]] \in Int
      /\ \A i, j \in 1 .. Len(l) : l[i] = l[j] => i = j
      /\ \A i, j \in 1 .. Len(l) : i < j => g[l[i]] <= g[l[j]]
      /\ \A i \in 1 .. Len(l) : l[i] # t
      /\ g[t] \in Int
  BY ListSoundFacts DEF Linked
<1>2. /\ m \in Seq(Timers) /\ Len(m) = Len(l) + 1
      /\ \A i \in 1 .. Len(l) + 1 : m[i] = IF i < p THEN l[i] ELSE IF i = p THEN t ELSE l[i - 1]
  <2>1. l \in Seq(Timers) /\ t \in Timers /\ p \in 1 .. Len(l) + 1
    BY <1>1
  <2> HIDE DEF m
  <2>2. m = InsertAt(l, p, t)
    BY DEF m
  <2>3. /\ InsertAt(l, p, t) \in Seq(Timers)
        /\ Len(InsertAt(l, p, t)) = Len(l) + 1
        /\ \A i \in 1 .. Len(l) + 1 :
             InsertAt(l, p, t)[i] = IF i < p THEN l[i] ELSE IF i = p THEN t ELSE l[i - 1]
    BY ONLY <2>1, InsertAtFacts
  <2>4. QED
    BY <2>2, <2>3
<1> HIDE DEF m
<1>3. /\ DOMAIN m = 1 .. Len(l) + 1 /\ m[p] = t
      /\ \A i \in 1 .. p - 1 : i \in 1 .. Len(l) /\ m[i] = l[i]
      /\ \A i \in p + 1 .. Len(l) + 1 : i - 1 \in 1 .. Len(l) /\ m[i] = l[i - 1]
  <2>1. DOMAIN m = 1 .. Len(l) + 1
    BY <1>2
  <2>2. p \in 1 .. Len(l) + 1 /\ m[p] = t
    BY <1>1, <1>2
  <2>3. ASSUME NEW i \in 1 .. p - 1 PROVE i \in 1 .. Len(l) /\ m[i] = l[i]
    <3>1. i \in 1 .. Len(l) /\ i \in 1 .. Len(l) + 1 /\ i < p
      BY <1>1
    <3>2. QED
      BY <3>1, <1>2
  <2>4. ASSUME NEW i \in p + 1 .. Len(l) + 1 PROVE i - 1 \in 1 .. Len(l) /\ m[i] = l[i - 1]
    <3>1. i - 1 \in 1 .. Len(l) /\ i \in 1 .. Len(l) + 1 /\ ~(i < p) /\ i # p
      BY <1>1
    <3>2. QED
      BY <3>1, <1>2
  <2>5. QED
    BY <2>1, <2>2, <2>3, <2>4
<1>4. ASSUME NEW i \in 1 .. Len(l) + 1, NEW j \in 1 .. Len(l) + 1, i < j
      PROVE  m[i] # m[j] /\ g[m[i]] <= g[m[j]]
  <2>1. CASE j < p
    <3>1. i \in 1 .. p - 1 /\ j \in 1 .. p - 1
      BY <2>1, <1>4, <1>1
    <3>2. i \in 1 .. Len(l) /\ j \in 1 .. Len(l) /\ m[i] = l[i] /\ m[j] = l[j]
      BY <3>1, <1>3
    <3>3. g[l[i]] <= g[l[j]] /\ l[i] # l[j]
      BY <3>2, <1>1, <1>4
    <3>4. QED
      BY <3>2, <3>3
  <2>2. CASE j = p
    <3>1. i \in 1 .. p - 1 /\ m[i] = l[i] /\ i \in 1 .. Len(l) /\ m[j] = t
      BY <2>2, <1>4, <1>1, <1>3
    <3>2. g[l[i]] < g[t] /\ l[i] # t /\ g[l[i]] \in Int /\ g[t] \in Int
      BY <3>1, <1>1
    <3>3. QED
      BY <3>1, <3>2
  <2>3. CASE j > p
    <3>1. j - 1 \in 1 .. Len(l) /\ m[j] = l[j - 1] /\ p \in 1 .. Len(l) /\ p <= j - 1
      BY <2>3, <1>1, <1>3
    <3>2. g[t] <= g[l[j - 1]] /\ l[j - 1] # t
      <4>1. g[t] <= g[l[p]] /\ g[l[p]] \in Int /\ g[l[j - 1]] \in Int /\ g[t] \in Int
        BY <3>1, <1>1
      <4>2. p = j - 1 \/ g[l[p]] <= g[l[j - 1]]
        BY <3>1, <1>1
      <4>3. QED
        BY <4>1, <4>2, <3>1, <1>1
    <3>3. CASE i = p
      BY <3>1, <3>2, <3>3, <1>3
    <3>4. CASE i < p
      <4>1. i \in 1 .. Len(l) /\ m[i] = l[i] /\ i < j - 1
        BY <3>1, <3>4, <2>3, <1>1, <1>3
      <4>2. g[l[i]] <= g[l[j - 1]] /\ l[i] # l[j - 1]
        BY <4>1, <3>1, <1>1
      <4>3. QED
        BY <4>1, <4>2, <3>1
    <3>5. CASE i > p
      <4>1. i - 1 \in 1 .. Len(l) /\ m[i] = l[i - 1] /\ i - 1 < j - 1
        BY <3>5, <2>3, <1>1, <1>3, <1>4
      <4>2. g[l[i - 1]] <= g[l[j - 1]] /\ l[i - 1] # l[j - 1]
        BY <4>1, <3>1, <1>1
      <4>3. QED
        BY <4>1, <4>2, <3>1
    <3>6. QED
      BY <3>3, <3>4, <3>5, <1>1
  <2>4. QED
    BY <2>1, <2>2, <2>3, <1>1
<1>5. NoDup(m)
  <2> SUFFICES ASSUME NEW i \in 1 .. Len(l) + 1, NEW j \in 1 .. Len(l) + 1, m[i] = m[j]
               PROVE  i = j
    BY <1>3 DEF NoDup
  <2>1. ~(i < j) /\ ~(j < i)
    BY <1>4
  <2>2. QED
    BY <2>1, <1>1
<1>6. InOrder(m, g)
  BY <1>3, <1>4 DEF InOrder
<1>7. Linked(m) = Linked(l) \cup {t}
  <2>1. ASSUME NEW i \in 1 .. Len(l) + 1 PROVE m[i] \in Linked(l) \cup {t}
    <3>1. CASE i < p
      BY <3>1, <1>1, <1>3 DEF Linked
    <3>2. CASE i = p
      BY <3>2, <1>3
    <3>3. CASE i > p
      <4>1. i - 1 \in 1 .. Len(l) /\ m[i] = l[i - 1]
        BY <3>3, <1>1, <1>3
      <4>2. QED
        BY <4>1, <1>1 DEF Linked
    <3>4. QED
      BY <3>1, <3>2, <3>3, <1>1
  <2>2. t \in Linked(m)
    BY <1>3, <1>1 DEF Linked
  <2>3. ASSUME NEW i \in 1 .. Len(l) PROVE l[i] \in Linked(m)
    <3>1. CASE i < p
      <4>1. i \in DOMAIN m /\ m[i] = l[i]
        BY <3>1, <1>1, <1>3
      <4>2. QED
        BY <4>1 DEF Linked
    <3>2. CASE i >= p
      <4>1. i + 1 \in p + 1 .. Len(l) + 1 /\ (i + 1) - 1 = i
        BY <3>2, <1>1
      <4>2. i + 1 \in DOMAIN m /\ m[i + 1] = l[i]
        BY <4>1, <1>3, <1>1
      <4>3. QED
        BY <4>2 DEF Linked
    <3>3. QED
      BY <3>1, <3>2, <1>1
  <2>4. Linked(m) \subseteq Linked(l) \cup {t}
    BY <2>1, <1>3 DEF Linked
  <2>5. Linked(l) \subseteq Linked(m)
    BY <2>3, <1>1 DEF Linked
  <2>6. QED
    BY <2>2, <2>4, <2>5
<1>8. QED
  BY <1>2, <1>5, <1>6, <1>7 DEF ListSound, m

\* Unlinking a timer leaves the list sorted, without duplicates, and takes only that timer.
LEMMA RemoveSound ==
    ASSUME NEW l, NEW g \in [Timers -> Int], NEW p \in DOMAIN l, ListSound(l, g)
    PROVE  /\ ListSound(RemoveAt(l, p), g)
           /\ Linked(RemoveAt(l, p)) = Linked(l) \ {l[p]}
<1> DEFINE m == RemoveAt(l, p)
           h == [i \in 1 .. Len(l) - 1 |-> IF i < p THEN i ELSE i + 1]
<1>1. /\ l \in Seq(Timers) /\ Len(l) \in Nat /\ DOMAIN l = 1 .. Len(l) /\ p \in 1 .. Len(l)
      /\ \A i, j \in 1 .. Len(l) : l[i] = l[j] => i = j
  BY ListSoundFacts
<1>2. /\ m \in Seq(Timers) /\ Len(m) = Len(l) - 1
      /\ \A i \in 1 .. Len(l) - 1 : m[i] = IF i < p THEN l[i] ELSE l[i + 1]
  BY <1>1, RemoveAtFacts
<1>3. /\ h \in [1 .. Len(l) - 1 -> 1 .. Len(l)]
      /\ \A i \in 1 .. Len(l) - 1 : h[i] = IF i < p THEN i ELSE i + 1
  BY <1>1
<1> HIDE DEF m, h
<1>4. ASSUME NEW i \in 1 .. Len(l) - 1
      PROVE  h[i] \in 1 .. Len(l) /\ h[i] # p /\ m[i] = l[h[i]]
  <2>1. CASE i < p
    <3>1. h[i] = i /\ m[i] = l[i]
      BY <2>1, <1>2, <1>3
    <3>2. i \in 1 .. Len(l) /\ i # p
      BY <2>1, <1>1
    <3>3. QED
      BY <3>1, <3>2
  <2>2. CASE ~(i < p)
    <3>1. h[i] = i + 1 /\ m[i] = l[i + 1] /\ i + 1 \in 1 .. Len(l) /\ i + 1 # p
      BY <2>2, <1>1, <1>2, <1>3
    <3>2. QED
      BY <3>1
  <2>3. QED
    BY <2>1, <2>2
<1>5. \A i, j \in 1 .. Len(l) - 1 : i < j => h[i] < h[j]
  BY <1>1, <1>3
<1>6. ListSound(m, g)
  <2>1. m \in Seq(Timers) /\ h \in [1 .. Len(m) -> 1 .. Len(l)]
    BY <1>2, <1>3
  <2>2. /\ \A i \in 1 .. Len(m) : m[i] = l[h[i]]
        /\ \A i, j \in 1 .. Len(m) : i < j => h[i] < h[j]
    BY <1>2, <1>4, <1>5
  <2>3. QED
    BY <2>1, <2>2, SublistSound
<1>7. DOMAIN m = 1 .. Len(l) - 1
  BY <1>2
<1>8. ASSUME NEW i \in 1 .. Len(l) - 1 PROVE m[i] \in Linked(l) \ {l[p]}
  <2>1. h[i] \in 1 .. Len(l) /\ h[i] # p /\ m[i] = l[h[i]]
    BY <1>4
  <2>2. QED
    BY <2>1, <1>1 DEF Linked
<1>9. ASSUME NEW i \in 1 .. Len(l), i # p PROVE l[i] \in Linked(m)
  <2>1. CASE i < p
    <3>1. i \in 1 .. Len(l) - 1 /\ m[i] = l[i]
      BY <2>1, <1>1, <1>2
    <3>2. QED
      BY <3>1, <1>7 DEF Linked
  <2>2. CASE i > p
    <3>1. i - 1 \in 1 .. Len(l) - 1 /\ ~(i - 1 < p) /\ (i - 1) + 1 = i
      BY <2>2, <1>1
    <3>2. m[i - 1] = l[i]
      BY <3>1, <1>2
    <3>3. QED
      BY <3>1, <3>2, <1>7 DEF Linked
  <2>3. QED
    BY <1>9, <2>1, <2>2, <1>1
<1>10. Linked(m) \subseteq Linked(l) \ {l[p]}
  BY <1>7, <1>8 DEF Linked
<1>11. Linked(l) \ {l[p]} \subseteq Linked(m)
  <2>1. ASSUME NEW x \in Linked(l), x # l[p] PROVE x \in Linked(m)
    <3>1. PICK i \in 1 .. Len(l) : x = l[i]
      BY <1>1 DEF Linked
    <3>2. QED
      BY <3>1, <2>1, <1>9
  <2>2. QED
    BY <2>1
<1>12. QED
  BY <1>6, <1>10, <1>11 DEF m

\* The list without its first k timers.
LEMMA SuffixSound ==
    ASSUME NEW l, NEW g \in [Timers -> Int], NEW k \in 0 .. Len(l), ListSound(l, g)
    PROVE  /\ ListSound(SubSeq(l, k + 1, Len(l)), g)
           /\ Linked(SubSeq(l, k + 1, Len(l))) = Linked(l) \ {l[i] : i \in 1 .. k}
           /\ Linked(SubSeq(l, k + 1, Len(l))) = {l[i] : i \in k + 1 .. Len(l)}
<1> DEFINE m == SubSeq(l, k + 1, Len(l))
           h == [i \in 1 .. Len(l) - k |-> k + i]
<1>1. /\ l \in Seq(Timers) /\ Len(l) \in Nat /\ DOMAIN l = 1 .. Len(l)
      /\ \A i \in 1 .. Len(l) : l[i] \in Timers
      /\ \A i, j \in 1 .. Len(l) : l[i] = l[j] => i = j
  BY ListSoundFacts
<1>2. /\ m \in Seq(Timers) /\ Len(m) = Len(l) - k
      /\ \A i \in 1 .. Len(l) - k : m[i] = l[k + i]
  <2>1. \A i \in k + 1 .. Len(l) : l[i] \in Timers
    BY <1>1
  <2>2. /\ m \in Seq(Timers)
        /\ Len(m) = IF k + 1 <= Len(l) THEN Len(l) - (k + 1) + 1 ELSE 0
        /\ \A i \in 1 .. Len(l) - (k + 1) + 1 : m[i] = l[(k + 1) + i - 1]
    <3>1. k + 1 \in Int /\ Len(l) \in Int
      BY <1>1
    <3>2. QED
      BY <2>1, <3>1, SubSeqProperties
  <2> HIDE DEF m
  <2>3. Len(m) = Len(l) - k /\ Len(l) - (k + 1) + 1 = Len(l) - k
    <3>1. Len(l) \in Nat /\ k \in Int /\ k >= 0 /\ k <= Len(l)
      BY <1>1
    <3>2. Len(m) = IF k + 1 <= Len(l) THEN Len(l) - (k + 1) + 1 ELSE 0
      BY <2>2
    <3>3. QED
      BY <3>1, <3>2
  <2>4. \A i \in 1 .. Len(l) - k : (k + 1) + i - 1 = k + i
    BY <1>1
  <2>5. QED
    BY <2>2, <2>3, <2>4
<1>3. /\ h \in [1 .. Len(l) - k -> 1 .. Len(l)]
      /\ \A i \in 1 .. Len(l) - k : h[i] = k + i
  BY <1>1
<1> HIDE DEF m, h
<1>4. \A i \in 1 .. Len(m) : m[i] = l[h[i]]
  BY <1>2, <1>3
<1>5. \A i, j \in 1 .. Len(m) : i < j => h[i] < h[j]
  BY <1>1, <1>2, <1>3
<1>6. ListSound(m, g)
  <2>1. m \in Seq(Timers) /\ h \in [1 .. Len(m) -> 1 .. Len(l)]
    BY <1>2, <1>3
  <2>2. /\ \A i \in 1 .. Len(m) : m[i] = l[h[i]]
        /\ \A i, j \in 1 .. Len(m) : i < j => h[i] < h[j]
    BY <1>4, <1>5
  <2>3. QED
    BY <2>1, <2>2, SublistSound
<1>7. DOMAIN m = 1 .. Len(l) - k
  BY <1>2
<1>8. ASSUME NEW i \in 1 .. Len(l) - k PROVE m[i] \in {l[j] : j \in k + 1 .. Len(l)}
  <2>1. k + i \in k + 1 .. Len(l) /\ m[i] = l[k + i]
    BY <1>1, <1>2
  <2>2. QED
    BY <2>1
<1>9. ASSUME NEW i \in k + 1 .. Len(l) PROVE l[i] \in Linked(m)
  <2>1. i - k \in 1 .. Len(l) - k /\ k + (i - k) = i
    BY <1>1
  <2>2. m[i - k] = l[i]
    BY <2>1, <1>2
  <2>3. QED
    BY <2>1, <2>2, <1>7 DEF Linked
<1>10. Linked(m) \subseteq {l[i] : i \in k + 1 .. Len(l)}
  BY <1>7, <1>8 DEF Linked
<1>11. {l[i] : i \in k + 1 .. Len(l)} \subseteq Linked(m)
  BY <1>9
<1>12. ASSUME NEW i \in k + 1 .. Len(l) PROVE l[i] \in Linked(l) \ {l[j] : j \in 1 .. k}
  <2>1. i \in 1 .. Len(l) /\ \A j \in 1 .. k : j \in 1 .. Len(l) /\ j # i
    BY <1>1
  <2>2. QED
    BY <2>1, <1>1 DEF Linked
<1>13. ASSUME NEW x \in Linked(l), x \notin {l[j] : j \in 1 .. k}
       PROVE  x \in {l[i] : i \in k + 1 .. Len(l)}
  <2>1. PICK i \in 1 .. Len(l) : x = l[i]
    BY <1>1 DEF Linked
  <2>2. i \notin 1 .. k
    BY <1>13, <2>1
  <2>3. i \in k + 1 .. Len(l)
    BY <2>2, <1>1
  <2>4. QED
    BY <2>1, <2>3
<1>14. {l[i] : i \in k + 1 .. Len(l)} = Linked(l) \ {l[i] : i \in 1 .. k}
  BY <1>12, <1>13
<1>15. QED
  BY <1>6, <1>10, <1>11, <1>14 DEF m

--------------------------------------------------------------------------------
(* Steps that move no timer between the lists and set no deadline.         *)

\* timer_register takes a free slot, which is on no list.
LEMMA RegisterInv ==
    ASSUME IInv, NEW kind \in Kinds, NEW ms \in Asked, Register(kind, ms) PROVE IInv'
<1> USE DEF IInv
<1>1. PICK t \in Timers :
         /\ t \notin m_bitmap
         /\ m_bitmap' = m_bitmap \cup {t}
         /\ flag' = [flag EXCEPT ![t] = kind]
         /\ init_tick' = [init_tick EXCEPT ![t] = sv_tick_from_millisecond(ms)]
         /\ timeout_tick' = [timeout_tick EXCEPT ![t] = 0]
  BY DEF Register, sv_timer_init
<1>2. pc = "run" /\ Accepted(ms) /\ UNCHANGED <<s_tick, lists, signal, pc, cur, left>>
  BY DEF Register
<1>3. kind \in SUBSET Flags /\ "ACTIVATED" \notin kind
  BY SvTimerAssumption DEF Flags, run_after, run_every
<1>3a. sv_tick_from_millisecond(ms) \in 0 .. MaxInit
  BY <1>2, AcceptedTicks
<1>4. TypeOK'
  BY <1>1, <1>2, <1>3, <1>3a, SvTimerAssumption DEF TypeOK, TickMod, lists, signal
<1>5. t \notin Armed /\ Armed' = Armed
  BY <1>1, <1>2 DEF LinkedIffActive, Armed, lists, Linked
<1>6. LinkedIffActive'
  <2>1. \A u \in Timers : u # t => flag'[u] = flag[u]
    BY <1>1 DEF TypeOK
  <2>2. flag'[t] = kind
    BY <1>1 DEF TypeOK
  <2>3. \A u \in Linked(m_timer_list) \cup Linked(m_soft_timer_list) : u # t /\ u \in Timers
    <3>1. m_timer_list \in Seq(Timers) /\ m_soft_timer_list \in Seq(Timers)
      BY DEF TypeOK
    <3>2. QED
      BY <1>5, <3>1, LinkedTimers DEF Armed
  <2>4. QED
    BY <1>1, <1>2, <1>3, <1>5, <2>1, <2>2, <2>3 DEF LinkedIffActive, InHand, lists, IsSoft, NoDup, Linked
<1>7. ForegroundSound' /\ Handshake'
  BY <1>2 DEF ForegroundSound, Handshake, signal
<1>8. Timing'
  <2>1. UNCHANGED <<s_tick, m_timer_list, m_soft_timer_list, m_soft_timer_handling, pc, cur, left>>
    BY <1>2 DEF lists, signal
  <2>2. Starting = {} /\ Starting' = {} /\ Pending' = Pending /\ t \notin Pending
    BY <1>2, <1>5 DEF Starting, Pending
  <2>3. \A u \in Pending : timeout_tick'[u] = timeout_tick[u]
    BY <1>1, <2>2 DEF TypeOK
  <2>4. QED
    BY <2>1, <2>2, <2>3 DEF Timing, Punctual, InOrder, Linked
<1>9. QED
  BY <1>4, <1>6, <1>7, <1>8

\* timer_timeout changes a period, which moves no armed timer.
LEMMA SetPeriodInv ==
    ASSUME IInv, NEW t \in Timers, NEW ms \in Asked, SetPeriod(t, ms) PROVE IInv'
<1> USE DEF IInv
<1>1. sv_tick_from_millisecond(ms) \in 0 .. MaxInit
  BY AcceptedTicks DEF SetPeriod
<1>2. TypeOK'
  BY <1>1 DEF SetPeriod, TypeOK, lists, signal
<1>3. LinkedIffActive' /\ ForegroundSound' /\ Handshake' /\ Timing'
  BY DEF SetPeriod, LinkedIffActive, ForegroundSound, Handshake, Timing, lists, signal,
         Punctual, Pending, Starting, Armed, InHand, IsSoft, NoDup, InOrder, Linked
<1>4. QED
  BY <1>2, <1>3

\* sv_timer_stop tests the flag of a timer and remembers it.
LEMMA StopBeginInv == ASSUME IInv, NEW t \in Timers, StopBegin(t) PROVE IInv'
<1> USE DEF IInv
<1>1. TypeOK'
  BY DEF StopBegin, TypeOK, lists, signal, timers, Points
<1>2. LinkedIffActive' /\ ForegroundSound' /\ Handshake' /\ Timing'
  BY DEF StopBegin, LinkedIffActive, ForegroundSound, Handshake, Timing, lists, signal, timers,
         Punctual, Pending, Starting, Armed, InHand, IsSoft, NoDup, InOrder, Linked
<1>3. QED
  BY <1>1, <1>2

\* sv_timer_stop ends by lowering the flags of a timer that is off the list.
LEMMA StopClearInv == ASSUME IInv, StopClear PROVE IInv'
<1> USE DEF IInv
<1>1. TypeOK'
  BY DEF StopClear, TypeOK, lists, signal, Points, Flags
<1>2. LinkedIffActive'
  <2>1. \A u \in Timers : u # cur => flag'[u] = flag[u]
    BY DEF StopClear, TypeOK
  <2>2. flag'[cur] = flag[cur] \ {"ACTIVATED", "TIMEOUT"}
    BY DEF StopClear, TypeOK
  <2>3. \A u \in Timers : IsSoft(u)' <=> IsSoft(u)
    BY <2>1, <2>2 DEF IsSoft
  <2>4. Armed' = Armed /\ Armed \subseteq Timers /\ cur \in Timers /\ cur \in InHand
    BY DEF StopClear, Armed, Linked, lists, TypeOK, InHand
  <2>5. \A u \in Timers : u \in Armed' <=> u \in m_bitmap' /\ "ACTIVATED" \in flag'[u] /\ u \notin InHand'
    BY <2>1, <2>2, <2>4 DEF StopClear, LinkedIffActive, InHand
  <2>6. QED
    BY <2>3, <2>4, <2>5 DEF StopClear, LinkedIffActive, lists, NoDup, Linked, Armed
<1>3. ForegroundSound' /\ Handshake' /\ Timing'
  BY DEF StopClear, ForegroundSound, Handshake, Timing, lists, signal,
         Punctual, Pending, Starting, Armed, InOrder, Linked
<1>4. QED
  BY <1>1, <1>2, <1>3

\* A callback that stops its own timer changes its flags alone.
LEMMA StopOwnInv == ASSUME IInv, StopOwn PROVE IInv'
<1> USE DEF IInv
<1>1. TypeOK'
  BY DEF StopOwn, TypeOK, lists, signal, Points, Flags
<1>2. LinkedIffActive'
  <2>1. \A u \in Timers : u # cur => flag'[u] = flag[u]
    BY DEF StopOwn, TypeOK
  <2>2. flag'[cur] = flag[cur] \ {"ACTIVATED", "TIMEOUT"}
    BY DEF StopOwn, TypeOK
  <2>3. \A u \in Timers : IsSoft(u)' <=> IsSoft(u)
    BY <2>1, <2>2 DEF IsSoft
  <2>4. Armed' = Armed /\ Armed \subseteq Timers /\ cur \in Timers /\ cur \in InHand
    BY DEF StopOwn, Armed, Linked, lists, TypeOK, InHand
  <2>5. \A u \in Timers : u \in Armed' <=> u \in m_bitmap' /\ "ACTIVATED" \in flag'[u] /\ u \notin InHand'
    BY <2>1, <2>2, <2>4 DEF StopOwn, LinkedIffActive, InHand
  <2>6. QED
    BY <2>3, <2>4, <2>5 DEF StopOwn, LinkedIffActive, lists, NoDup, Linked, Armed
<1>3. ForegroundSound' /\ Handshake' /\ Timing'
  BY DEF StopOwn, ForegroundSound, Handshake, Timing, TypeOK, lists, signal,
         Punctual, Pending, Starting, Armed, InOrder, Linked, IsSoft
<1>4. QED
  BY <1>1, <1>2, <1>3

\* timer_unregister gives back the slot of a stopped timer.
LEMMA UnregisterInv == ASSUME IInv, NEW t \in Timers, Unregister(t) PROVE IInv'
<1> USE DEF IInv
<1>1. TypeOK'
  BY DEF Unregister, TypeOK, lists, signal, Points, Flags
<1>2. LinkedIffActive'
  <2>1. \A u \in Timers : u # t => flag'[u] = flag[u]
    BY DEF Unregister, TypeOK
  <2>2. flag'[t] = flag[t] \ {"ACTIVATED"}
    BY DEF Unregister, TypeOK
  <2>3. \A u \in Timers : IsSoft(u)' <=> IsSoft(u)
    BY <2>1, <2>2 DEF IsSoft
  <2>4. Armed' = Armed /\ Armed \subseteq Timers /\ t \notin Armed
    <3>1. m_timer_list \in Seq(Timers) /\ m_soft_timer_list \in Seq(Timers)
      BY DEF TypeOK
    <3>2. Armed \subseteq Timers
      BY <3>1, LinkedTimers DEF Armed
    <3>3. m_timer_list' = m_timer_list /\ m_soft_timer_list' = m_soft_timer_list /\ t \notin Armed
      BY DEF Unregister, lists
    <3>4. QED
      BY <3>2, <3>3 DEF Armed
  <2>5. \A u \in Timers : u \in Armed' <=> u \in m_bitmap' /\ "ACTIVATED" \in flag'[u] /\ u \notin InHand'
    BY <2>1, <2>2, <2>4 DEF Unregister, LinkedIffActive, InHand
  <2>6. QED
    BY <2>3, <2>4, <2>5 DEF Unregister, LinkedIffActive, lists, NoDup, Linked, Armed
<1>3. ForegroundSound' /\ Handshake' /\ Timing'
  BY DEF Unregister, ForegroundSound, Handshake, Timing, lists, signal,
         Punctual, Pending, Starting, Armed, InOrder, Linked
<1>4. QED
  BY <1>1, <1>2, <1>3

\* The poll that finds the timer device readable moves no timer.
LEMMA PollTimerInv == ASSUME IInv, PollTimer PROVE IInv'
BY DEF IInv, PollTimer, TypeOK, Points, LinkedIffActive, ForegroundSound, Handshake, Timing,
       lists, signal, timers, Punctual, Pending, Starting, Armed, InHand, IsSoft, NoDup, InOrder,
       Linked

\* The read of the timer device moves no timer.
LEMMA ReadDeviceInv == ASSUME IInv, ReadDevice PROVE IInv'
BY DEF IInv, ReadDevice, TypeOK, Points, LinkedIffActive, ForegroundSound, Handshake, Timing,
       lists, signal, timers, Punctual, Pending, Starting, Armed, InHand, IsSoft, NoDup, InOrder,
       Linked

\* The end of soft_timer_handle moves no timer.
LEMMA FinishInv == ASSUME IInv, Finish PROVE IInv'
<1> USE DEF IInv
<1>1. TypeOK'
  <2>1. m_soft_timer_handling' \in BOOLEAN
    BY Zenon DEF Finish
  <2>2. QED
    BY <2>1 DEF Finish, TypeOK, lists, timers, Points
<1>2. ForegroundSound' /\ Handshake'
  BY DEF Finish, ForegroundSound, Handshake
<1>3. LinkedIffActive'
  BY DEF Finish, LinkedIffActive, lists, timers, Armed, InHand, IsSoft, NoDup, Linked
<1>4. Timing'
  <2>1. UNCHANGED <<s_tick, m_timer_list, m_soft_timer_list, timeout_tick, left>>
    BY DEF Finish, lists, timers
  <2>2. pc = "finish" /\ Starting = {} /\ Starting' = {} /\ Pending' = Pending
    BY <2>1 DEF Finish, Starting, Pending, Armed, Linked
  <2>3. Punctual'
    BY <2>1, <2>2 DEF Timing, Punctual, Linked
  <2>4. QED
    BY <2>1, <2>2, <2>3 DEF Timing, InOrder
<1>5. QED
  BY <1>1, <1>2, <1>3, <1>4

--------------------------------------------------------------------------------
(* Steps that link or unlink a timer.                                      *)

\* The invariant as these proofs use it.
LEMMA Facts ==
    ASSUME IInv
    PROVE  /\ ListSound(m_timer_list, left) /\ ListSound(m_soft_timer_list, left)
           /\ Linked(m_timer_list) \subseteq Timers /\ Linked(m_soft_timer_list) \subseteq Timers
           /\ Armed \subseteq Timers /\ Starting \subseteq Timers /\ Pending \subseteq Timers
           /\ \A t \in Linked(m_timer_list) : ~IsSoft(t)
           /\ \A t \in Linked(m_soft_timer_list) : IsSoft(t)
BY DEF IInv, TypeOK, LinkedIffActive, Timing, ListSound, Linked, Armed, Starting, Pending

\* A list is as sound for g as for f if they agree on its timers.
LEMMA Agree ==
    ASSUME NEW l, NEW f, NEW g, ListSound(l, f), \A u \in Linked(l) : g[u] = f[u]
    PROVE  ListSound(l, g)
<1>1. \A i \in DOMAIN l : g[l[i]] = f[l[i]]
  BY DEF Linked
<1>2. QED
  BY <1>1 DEF ListSound, InOrder

\* The period a client asked for, added to the counter, is a deadline.
LEMMA NewDeadline ==
    ASSUME IInv, NEW t \in Timers
    PROVE  /\ TickAdd(s_tick, init_tick[t]) = Wrap(s_tick + init_tick[t])
           /\ TickAdd(s_tick, init_tick[t]) \in 0 .. TickMod - 1
           /\ init_tick[t] \in 0 .. MaxInit
           /\ init_tick[t] \in -MaxLate - 1 .. MaxInit
<1>1. init_tick[t] \in 0 .. MaxInit /\ s_tick \in 0 .. TickMod - 1
  BY DEF IInv, TypeOK
<1>2. /\ init_tick[t] \in Int /\ -Half < init_tick[t] /\ init_tick[t] < Half
      /\ init_tick[t] \in -MaxLate - 1 .. MaxInit
  BY <1>1, SvTimerAssumption
<1>3. QED
  BY <1>1, <1>2, WrapType DEF TickAdd

\* sv_timer_start finds the place that keeps the list in order.
LEMMA PlaceSound ==
    ASSUME NEW n \in 0 .. TickMod - 1, NEW g \in [Timers -> Int], NEW dl, NEW l, NEW t \in Timers,
           ListSound(l, g), t \notin Linked(l),
           \A u \in Linked(l) \cup {t} : dl[u] = Wrap(n + g[u]) /\ g[u] \in -MaxLate - 1 .. MaxInit,
           NEW p, IsPlaceFor(t, dl, l, p)
    PROVE  /\ ListSound(InsertAt(l, p, t), g)
           /\ Linked(InsertAt(l, p, t)) = Linked(l) \cup {t}
<1>1. l \in Seq(Timers) /\ Len(l) \in Nat /\ DOMAIN l = 1 .. Len(l) /\ p \in 1 .. Len(l) + 1
  BY DEF ListSound, IsPlaceFor
<1>2. ASSUME NEW q \in 1 .. Len(l)
      PROVE  TickSub(dl[l[q]], dl[t]) < Half <=> g[t] <= g[l[q]]
  <2>1. l[q] \in Linked(l)
    BY <1>1 DEF Linked
  <2>2. QED
    BY <2>1, WrapOrder
<1>3. ASSUME NEW q \in 1 .. p - 1 PROVE g[l[q]] < g[t]
  <2>1. q \in 1 .. Len(l) /\ l[q] \in Timers
    BY <1>1
  <2>2. ~(TickSub(dl[l[q]], dl[t]) < Half)
    BY DEF IsPlaceFor
  <2>3. ~(g[t] <= g[l[q]]) /\ g[t] \in Int /\ g[l[q]] \in Int
    BY <2>1, <2>2, <1>2
  <2>4. QED
    BY <2>3
<1>4. p <= Len(l) => g[t] <= g[l[p]]
  BY <1>1, <1>2 DEF IsPlaceFor
<1>5. QED
  BY <1>1, <1>3, <1>4, InsertSound

\* sv_timer_start computes a deadline for a timer that is on no list.
LEMMA StartBeginInv == ASSUME IInv, NEW t \in Timers, StartBegin(t) PROVE IInv'
<1> USE DEF IInv
<1>1. /\ pc = "run" /\ pc' = "start" /\ cur' = t /\ t \in m_bitmap /\ "ACTIVATED" \notin flag[t]
      /\ UNCHANGED <<s_tick, m_bitmap, flag, init_tick, m_timer_list, m_soft_timer_list,
                     m_soft_timer_handling, s_time>>
  BY DEF StartBegin, lists, signal
<1>2. t \notin Armed
  BY <1>1 DEF LinkedIffActive
<1>3. /\ timeout_tick' = [timeout_tick EXCEPT ![t] = TickAdd(s_tick, init_tick[t])]
      /\ left' = [left EXCEPT ![t] = init_tick[t]]
  BY DEF StartBegin
<1>4. /\ timeout_tick'[t] = Wrap(s_tick + left'[t])
      /\ left'[t] \in 0 .. MaxInit
      /\ \A u \in Armed : timeout_tick'[u] = timeout_tick[u] /\ left'[u] = left[u]
  BY <1>2, <1>3, NewDeadline, Facts DEF TypeOK
<1>5. TypeOK'
  <2>1. timeout_tick' \in [Timers -> 0 .. TickMod - 1]
    BY <1>3, NewDeadline DEF TypeOK
  <2>2. left' \in [Timers -> Int]
    BY <1>3, <1>4 DEF TypeOK
  <2>3. pc' \in Points /\ cur' \in Timers
    BY <1>1 DEF Points
  <2>4. QED
    BY <1>1, <2>1, <2>2, <2>3 DEF TypeOK
<1>6. LinkedIffActive' /\ Armed' = Armed
  BY <1>1 DEF LinkedIffActive, InHand, Armed, IsSoft, NoDup, Linked
<1>7. ForegroundSound' /\ Handshake'
  BY <1>1 DEF ForegroundSound, Handshake
<1>8. Timing'
  <2>1. Starting' = {t} /\ Pending' = Armed \cup {t} /\ Armed \subseteq Pending
    BY <1>1, <1>6 DEF Starting, Pending
  <2>2. ListSound(m_timer_list, left') /\ ListSound(m_soft_timer_list, left')
    BY <1>4, Agree, Facts DEF Armed
  <2>3. left'[t] \in -MaxLate - 1 .. MaxInit /\ left'[t] >= -MaxLate
    BY <1>4, SvTimerAssumption
  <2>4. Punctual'
    BY <1>1, <1>4, <2>1, <2>3 DEF Timing, Punctual, Armed
  <2>5. QED
    BY <1>1, <1>4, <2>1, <2>2, <2>3, <2>4 DEF Timing, ListSound
<1>9. QED
  BY <1>5, <1>6, <1>7, <1>8

\* sv_timer_start links the timer in the place its deadline gives.
LEMMA StartLinkInv == ASSUME IInv, StartLink PROVE IInv'
<1> USE DEF IInv
<1>1. /\ pc = "start" /\ pc' = "run" /\ cur \in Timers
      /\ cur \in m_bitmap /\ "ACTIVATED" \notin flag[cur] /\ cur \notin Armed
      /\ flag' = [flag EXCEPT ![cur] = Started(@)]
      /\ UNCHANGED <<s_tick, m_bitmap, init_tick, timeout_tick, left, m_soft_timer_handling, s_time, cur>>
  BY DEF StartLink, signal, ForegroundSound, LinkedIffActive, TypeOK
<1>2. PICK p : /\ IsPlaceFor(cur, timeout_tick, ListOf(cur), p)
               /\ PutList(cur, InsertAt(ListOf(cur), p, cur))
  BY DEF StartLink
<1>3. /\ ListSound(ListOf(cur), left) /\ cur \notin Linked(ListOf(cur))
      /\ Linked(ListOf(cur)) \cup {cur} \subseteq Pending
      /\ ListOf(cur) = IF IsSoft(cur) THEN m_soft_timer_list ELSE m_timer_list
  BY <1>1, Facts DEF ListOf, Armed, Pending, Starting
<1>4. /\ ListSound(InsertAt(ListOf(cur), p, cur), left)
      /\ Linked(InsertAt(ListOf(cur), p, cur)) = Linked(ListOf(cur)) \cup {cur}
  <2>1. s_tick \in 0 .. TickMod - 1 /\ left \in [Timers -> Int]
    BY DEF TypeOK
  <2>2. \A u \in Linked(ListOf(cur)) \cup {cur} :
           timeout_tick[u] = Wrap(s_tick + left[u]) /\ left[u] \in -MaxLate - 1 .. MaxInit
    BY <1>3 DEF Timing
  <2>3. QED
    BY <2>1, <2>2, <1>1, <1>2, <1>3, PlaceSound
<1>5. /\ ListSound(m_timer_list, left)' /\ ListSound(m_soft_timer_list, left)'
      /\ Linked(m_timer_list)' = IF IsSoft(cur) THEN Linked(m_timer_list)
                                 ELSE Linked(m_timer_list) \cup {cur}
      /\ Linked(m_soft_timer_list)' = IF IsSoft(cur) THEN Linked(m_soft_timer_list) \cup {cur}
                                      ELSE Linked(m_soft_timer_list)
  <2>1. CASE IsSoft(cur)
    <3>1. m_soft_timer_list' = InsertAt(ListOf(cur), p, cur) /\ m_timer_list' = m_timer_list
      BY <2>1, <1>2 DEF PutList
    <3>2. QED
      BY <2>1, <3>1, <1>1, <1>3, <1>4, Facts
  <2>2. CASE ~IsSoft(cur)
    <3>1. m_timer_list' = InsertAt(ListOf(cur), p, cur) /\ m_soft_timer_list' = m_soft_timer_list
      BY <2>2, <1>2 DEF PutList
    <3>2. QED
      BY <2>2, <3>1, <1>1, <1>3, <1>4, Facts
  <2>3. QED
    BY <2>1, <2>2
<1>6. Armed' = Armed \cup {cur}
  BY <1>5 DEF Armed
<1>7. /\ \A u \in Timers : u # cur => flag'[u] = flag[u]
      /\ flag'[cur] = Started(flag[cur]) /\ flag'[cur] \in SUBSET Flags
      /\ \A u \in Timers : IsSoft(u)' <=> IsSoft(u)
  BY <1>1 DEF TypeOK, Started, IsSoft, Flags
<1>8. TypeOK'
  BY <1>1, <1>5, <1>7 DEF TypeOK, Points, ListSound
<1>9. LinkedIffActive'
  <2>1. InHand = {} /\ InHand' = {}
    BY <1>1 DEF InHand
  <2>2. \A u \in Timers : u \in Armed' <=> u \in m_bitmap' /\ "ACTIVATED" \in flag'[u] /\ u \notin InHand'
    BY <1>1, <1>6, <1>7, <2>1 DEF LinkedIffActive, Started
  <2>3. /\ \A u \in Linked(m_timer_list)' : ~IsSoft(u)'
        /\ \A u \in Linked(m_soft_timer_list)' : IsSoft(u)'
    BY <1>1, <1>5, <1>7, Facts
  <2>4. QED
    BY <1>5, <2>2, <2>3 DEF LinkedIffActive, ListSound
<1>10. ForegroundSound' /\ Handshake'
  BY <1>1 DEF ForegroundSound, Handshake
<1>11. Timing'
  <2>1. Starting = {cur} /\ Starting' = {} /\ Pending' = Pending
    BY <1>1, <1>6 DEF Starting, Pending
  <2>2. Punctual'
    BY <1>1, <1>5, <2>1 DEF Timing, Punctual
  <2>3. QED
    BY <1>1, <1>5, <2>1, <2>2 DEF Timing, ListSound
<1>12. QED
  BY <1>8, <1>9, <1>10, <1>11

\* sv_timer_stop unlinks the timer and clears its deadline.
LEMMA StopUnlinkInv == ASSUME IInv, StopUnlink PROVE IInv'
<1> USE DEF IInv
<1>1. /\ pc = "stop" /\ pc' = "unlinked" /\ cur \in Timers
      /\ left' = [left EXCEPT ![cur] = 0]
      /\ timeout_tick' = [timeout_tick EXCEPT ![cur] = 0]
      /\ UNCHANGED <<s_tick, m_bitmap, flag, init_tick, m_soft_timer_handling, s_time, cur>>
  BY DEF StopUnlink, signal, TypeOK
<1>2. /\ ListSound(m_timer_list', left) /\ ListSound(m_soft_timer_list', left)
      /\ Linked(m_timer_list') = Linked(m_timer_list) \ {cur}
      /\ Linked(m_soft_timer_list') = Linked(m_soft_timer_list) \ {cur}
  <2>1. CASE \E p \in DOMAIN ListOf(cur) :
               ListOf(cur)[p] = cur /\ PutList(cur, RemoveAt(ListOf(cur), p))
    <3>1. PICK p \in DOMAIN ListOf(cur) :
                 ListOf(cur)[p] = cur /\ PutList(cur, RemoveAt(ListOf(cur), p))
      BY <2>1
    <3>2. ListSound(ListOf(cur), left) /\ left \in [Timers -> Int]
      BY Facts DEF ListOf, TypeOK
    <3>3. /\ ListSound(RemoveAt(ListOf(cur), p), left)
          /\ Linked(RemoveAt(ListOf(cur), p)) = Linked(ListOf(cur)) \ {cur}
      BY <3>1, <3>2, RemoveSound
    <3>4. CASE IsSoft(cur)
      <4>1. m_soft_timer_list' = RemoveAt(m_soft_timer_list, p) /\ m_timer_list' = m_timer_list
        BY <3>1, <3>4 DEF PutList, ListOf
      <4>2. cur \notin Linked(m_timer_list)
        BY <3>4, Facts
      <4>3. QED
        BY <3>3, <3>4, <4>1, <4>2, Facts DEF ListOf
    <3>5. CASE ~IsSoft(cur)
      <4>1. m_timer_list' = RemoveAt(m_timer_list, p) /\ m_soft_timer_list' = m_soft_timer_list
        BY <3>1, <3>5 DEF PutList, ListOf
      <4>2. cur \notin Linked(m_soft_timer_list)
        BY <3>5, Facts
      <4>3. QED
        BY <3>3, <3>5, <4>1, <4>2, Facts DEF ListOf
    <3>6. QED
      BY <3>4, <3>5
  <2>2. CASE cur \notin Armed /\ UNCHANGED lists
    BY <2>2, Facts DEF lists, Armed
  <2>3. QED
    BY <2>1, <2>2 DEF StopUnlink, Unlink
<1>3. /\ \A u \in Timers : u # cur => left'[u] = left[u] /\ timeout_tick'[u] = timeout_tick[u]
      /\ \A u \in Linked(m_timer_list') \cup Linked(m_soft_timer_list') : u \in Timers /\ u # cur
  BY <1>1, <1>2, Facts DEF TypeOK
<1>4. ListSound(m_timer_list', left') /\ ListSound(m_soft_timer_list', left')
  BY <1>2, <1>3, Agree
<1>5. Armed' = Armed \ {cur}
  BY <1>2 DEF Armed
<1>6. TypeOK'
  <2>1. 0 \in 0 .. TickMod - 1
    BY SvTimerAssumption DEF TickMod
  <2>2. QED
    BY <1>1, <1>4, <2>1 DEF TypeOK, Points, ListSound
<1>7. LinkedIffActive'
  <2>1. InHand = {} /\ InHand' = {cur}
    BY <1>1 DEF InHand
  <2>2. \A u \in Timers : u \in Armed' <=> u \in m_bitmap' /\ "ACTIVATED" \in flag'[u] /\ u \notin InHand'
    BY <1>1, <1>5, <2>1 DEF LinkedIffActive
  <2>3. /\ \A u \in Linked(m_timer_list') : ~IsSoft(u)'
        /\ \A u \in Linked(m_soft_timer_list') : IsSoft(u)'
    BY <1>1, <1>2, Facts DEF IsSoft
  <2>4. QED
    BY <1>4, <2>2, <2>3 DEF LinkedIffActive, ListSound
<1>8. ForegroundSound' /\ Handshake'
  BY <1>1 DEF ForegroundSound, Handshake
<1>9. Timing'
  <2>1. Starting = {} /\ Starting' = {} /\ Pending' = Pending \ {cur}
    BY <1>1, <1>5 DEF Starting, Pending
  <2>2. Punctual'
    BY <1>1, <1>2, <1>3, <2>1 DEF Timing, Punctual
  <2>3. QED
    BY <1>1, <1>3, <1>4, <2>1, <2>2, Facts DEF Timing, ListSound
<1>10. QED
  BY <1>6, <1>7, <1>8, <1>9

\* The UART interrupt arms its timer; l is the hard list without that timer.
LEMMA IsrArmInv ==
    ASSUME IInv, NEW t \in Timers, IsrOwns(t), NEW l, ListSound(l, left),
           Linked(l) = Linked(m_timer_list) \ {t}, IsrArm(t, l)
    PROVE  IInv'
<1> USE DEF IInv
<1> DEFINE deadline == [timeout_tick EXCEPT ![t] = TickAdd(s_tick, init_tick[t])]
<1>1. PICK p : /\ IsPlaceFor(t, deadline, l, p)
               /\ m_timer_list' = InsertAt(l, p, t)
               /\ timeout_tick' = deadline
               /\ left' = [left EXCEPT ![t] = init_tick[t]]
               /\ flag' = [flag EXCEPT ![t] = Started(@)]
               /\ UNCHANGED <<s_tick, m_bitmap, init_tick, m_soft_timer_list, signal, pc, cur>>
  BY DEF IsrArm
<1>2. /\ t \in m_bitmap /\ ~IsSoft(t) /\ t \notin InHand /\ t \notin Starting
      /\ t \notin Linked(m_soft_timer_list)
  BY Facts DEF IsrOwns, InHand, Starting, ForegroundSound
<1>3. /\ \A u \in Timers : u # t => /\ left'[u] = left[u] /\ timeout_tick'[u] = timeout_tick[u]
                                     /\ flag'[u] = flag[u]
      /\ left'[t] = init_tick[t] /\ timeout_tick'[t] = Wrap(s_tick + init_tick[t])
      /\ flag'[t] = Started(flag[t]) /\ flag'[t] \in SUBSET Flags
      /\ \A u \in Timers : IsSoft(u)' <=> IsSoft(u)
      /\ left' \in [Timers -> Int] /\ timeout_tick' \in [Timers -> 0 .. TickMod - 1]
  <2>1. /\ left' \in [Timers -> Int] /\ timeout_tick' \in [Timers -> 0 .. TickMod - 1]
        /\ left'[t] = init_tick[t] /\ timeout_tick'[t] = Wrap(s_tick + init_tick[t])
    BY <1>1, NewDeadline DEF TypeOK
  <2>2. \A u \in Timers : u # t => /\ left'[u] = left[u] /\ timeout_tick'[u] = timeout_tick[u]
                                    /\ flag'[u] = flag[u]
    BY <1>1 DEF TypeOK
  <2>3. flag'[t] = Started(flag[t]) /\ flag'[t] \in SUBSET Flags
    BY <1>1 DEF TypeOK, Started, Flags
  <2>4. \A u \in Timers : IsSoft(u)' <=> IsSoft(u)
    BY <2>2, <2>3 DEF Started, IsSoft
  <2>5. QED
    BY <2>1, <2>2, <2>3, <2>4
<1> HIDE DEF deadline
<1>4. ListSound(l, left') /\ ListSound(m_soft_timer_list, left')
  BY <1>2, <1>3, Agree, Facts
<1>5. \A u \in Linked(l) \cup {t} :
         timeout_tick'[u] = Wrap(s_tick + left'[u]) /\ left'[u] \in -MaxLate - 1 .. MaxInit
  <2>1. ASSUME NEW u \in Linked(l)
        PROVE  timeout_tick'[u] = Wrap(s_tick + left'[u]) /\ left'[u] \in -MaxLate - 1 .. MaxInit
    <3>1. u \in Pending /\ u \in Timers /\ u # t
      BY Facts DEF Pending, Armed
    <3>2. QED
      BY <3>1, <1>3 DEF Timing
  <2>2. QED
    BY <2>1, <1>3, NewDeadline
<1>6. /\ ListSound(m_timer_list', left')
      /\ Linked(m_timer_list') = Linked(m_timer_list) \cup {t}
  <2>1. s_tick \in 0 .. TickMod - 1 /\ t \notin Linked(l)
    BY DEF TypeOK
  <2>2. /\ ListSound(InsertAt(l, p, t), left')
        /\ Linked(InsertAt(l, p, t)) = Linked(l) \cup {t}
    <3>1. IsPlaceFor(t, timeout_tick', l, p)
      BY <1>1
    <3>2. left' \in [Timers -> Int] /\ ListSound(l, left')
      BY <1>3, <1>4
    <3>3. QED
      BY <2>1, <3>1, <3>2, <1>5, PlaceSound
  <2>3. QED
    BY <2>2, <1>1
<1>7. Armed' = Armed \cup {t}
  BY <1>1, <1>6 DEF Armed
<1>8. TypeOK'
  <2>1. flag' \in [Timers -> SUBSET Flags]
    BY <1>1, <1>3 DEF TypeOK
  <2>2. QED
    BY <2>1, <1>1, <1>3, <1>4, <1>6 DEF TypeOK, ListSound, signal
<1>9. LinkedIffActive'
  <2>1. InHand' = InHand
    BY <1>1 DEF InHand
  <2>2. \A u \in Timers : u \in Armed' <=> u \in m_bitmap' /\ "ACTIVATED" \in flag'[u] /\ u \notin InHand'
    BY <1>1, <1>2, <1>3, <1>7, <2>1 DEF LinkedIffActive, Started
  <2>3. /\ \A u \in Linked(m_timer_list') : ~IsSoft(u)'
        /\ \A u \in Linked(m_soft_timer_list') : IsSoft(u)'
    BY <1>1, <1>2, <1>3, <1>6, Facts
  <2>4. QED
    BY <1>1, <1>4, <1>6, <2>2, <2>3 DEF LinkedIffActive, ListSound
<1>10. ForegroundSound'
  <2>1. UNCHANGED <<m_bitmap, pc, cur, s_time>>
    BY <1>1 DEF signal
  <2>2. pc = "start" => flag'[cur] = flag[cur]
    BY <1>2, <1>3 DEF Starting, TypeOK
  <2>3. cur \in Timers
    BY DEF TypeOK
  <2>4. pc = "callback" => flag'[cur] = flag[cur]
    BY <1>2, <1>3, <2>3 DEF InHand
  <2>5. QED
    BY <2>1, <2>2, <2>4 DEF ForegroundSound, IsSoft
<1>11. Handshake'
  BY <1>1 DEF Handshake, signal
<1>12. Timing'
  <2>1. Starting' = Starting /\ Pending' = Pending \cup {t}
    BY <1>1, <1>7 DEF Starting, Pending
  <2>2. \A u \in Pending' : /\ timeout_tick'[u] = Wrap(s_tick' + left'[u])
                             /\ left'[u] \in -MaxLate - 1 .. MaxInit
    BY <1>1, <1>3, <1>5, <2>1, Facts DEF Timing
  <2>3. left'[t] >= -MaxLate
    <3>1. left'[t] \in 0 .. MaxInit
      BY <1>3, NewDeadline
    <3>2. QED
      BY <3>1, SvTimerAssumption
  <2>4. UNCHANGED <<m_soft_timer_handling, pc, m_soft_timer_list>>
    BY <1>1 DEF signal
  <2>5. Punctual'
    BY <1>2, <1>3, <1>6, <2>1, <2>3, <2>4, Facts DEF Timing, Punctual
  <2>6. QED
    BY <1>4, <1>6, <2>2, <2>4, <2>5 DEF Timing, ListSound
<1>13. QED
  BY <1>8, <1>9, <1>10, <1>11, <1>12

\* An interrupt starts a timer of its own on the interrupt list.
LEMMA IsrStartInv == ASSUME IInv, NEW t \in Timers, IsrStart(t) PROVE IInv'
<1>1. IsrOwns(t) /\ IsrArm(t, m_timer_list) /\ t \notin Linked(m_timer_list)
  BY DEF IsrStart, IInv, LinkedIffActive, Armed
<1>2. QED
  BY <1>1, IsrArmInv, Facts

\* An interrupt restarts a timer: off its list, then on it again.
LEMMA IsrRestartInv == ASSUME IInv, NEW t \in Timers, IsrRestart(t) PROVE IInv'
<1>1. PICK p \in DOMAIN m_timer_list :
         m_timer_list[p] = t /\ IsrArm(t, RemoveAt(m_timer_list, p))
  BY DEF IsrRestart
<1>2. left \in [Timers -> Int] /\ IsrOwns(t)
  BY DEF IsrRestart, IInv, TypeOK
<1>3. /\ ListSound(RemoveAt(m_timer_list, p), left)
      /\ Linked(RemoveAt(m_timer_list, p)) = Linked(m_timer_list) \ {t}
  BY <1>1, <1>2, RemoveSound, Facts
<1>4. QED
  BY <1>1, <1>2, <1>3, IsrArmInv

--------------------------------------------------------------------------------
(* SysTick.                                                                *)

\* In a list of which the first timer is not due, none is.
LEMMA HeadFirst ==
    ASSUME NEW n \in 0 .. TickMod - 1, NEW g \in [Timers -> Int], NEW dl, NEW l, ListSound(l, g),
           \A u \in Linked(l) : dl[u] = Wrap(n + g[u]) /\ g[u] \in -MaxLate - 1 .. MaxInit,
           NEW k \in 1 .. Len(l), ~Expired(n, dl[l[k]])
    PROVE  \A i \in k .. Len(l) : g[l[i]] > 0
<1>1. /\ Len(l) \in Nat /\ DOMAIN l = 1 .. Len(l)
      /\ \A i \in 1 .. Len(l) : l[i] \in Timers /\ g[l[i]] \in Int
      /\ \A i, j \in 1 .. Len(l) : i < j => g[l[i]] <= g[l[j]]
  BY ListSoundFacts
<1>2. l[k] \in Linked(l)
  BY <1>1 DEF Linked
<1>3. g[l[k]] > 0
  <2>1. ~(g[l[k]] <= 0) /\ g[l[k]] \in Int
    BY <1>1, <1>2, WrapExpired
  <2>2. QED
    BY <2>1
<1>4. QED
  <2> SUFFICES ASSUME NEW i \in k .. Len(l) PROVE g[l[i]] > 0
    OBVIOUS
  <2>1. i \in 1 .. Len(l) /\ (i = k \/ k < i)
    BY <1>1
  <2>2. CASE i = k
    BY <2>2, <1>3
  <2>3. CASE k < i
    <3>1. g[l[k]] <= g[l[i]] /\ g[l[k]] \in Int /\ g[l[i]] \in Int
      BY <2>1, <2>3, <1>1
    <3>2. QED
      BY <3>1, <1>3
  <2>4. QED
    BY <2>1, <2>2, <2>3

\* One tick nearer, the list is as sound as before.
LEMMA ShiftSound ==
    ASSUME NEW l, NEW f \in [Timers -> Int], NEW g, ListSound(l, f),
           \A u \in Linked(l) : g[u] = f[u] - 1
    PROVE  ListSound(l, g)
<1>1. /\ DOMAIN l = 1 .. Len(l)
      /\ \A i \in 1 .. Len(l) : f[l[i]] \in Int /\ l[i] \in Linked(l)
      /\ \A i, j \in 1 .. Len(l) : i < j => f[l[i]] <= f[l[j]]
  BY ListSoundFacts DEF Linked
<1>2. ASSUME NEW i \in DOMAIN l, NEW j \in DOMAIN l, i < j PROVE g[l[i]] <= g[l[j]]
  <2>1. g[l[i]] = f[l[i]] - 1 /\ g[l[j]] = f[l[j]] - 1
    BY <1>1
  <2>2. f[l[i]] <= f[l[j]] /\ f[l[i]] \in Int /\ f[l[j]] \in Int
    BY <1>1, <1>2
  <2>3. QED
    BY <2>1, <2>2
<1>3. QED
  BY <1>2 DEF ListSound, InOrder

\* What SysTick does, with the timers it fires.
LEMMA SysTickFacts ==
    ASSUME IInv, SysTick
    PROVE  \E fired \in SUBSET Linked(m_timer_list) :
             /\ s_tick' \in 0 .. TickMod - 1
             /\ ListSound(m_timer_list', left') /\ ListSound(m_soft_timer_list', left')
             /\ m_soft_timer_list' = m_soft_timer_list
             /\ Linked(m_timer_list') = Linked(m_timer_list) \ fired
             /\ left' \in [Timers -> Int] /\ timeout_tick' \in [Timers -> 0 .. TickMod - 1]
             /\ flag' = [t \in Timers |-> IF t \in fired THEN TimedOut(flag[t]) ELSE flag[t]]
             /\ \A t \in Timers : t \notin fired => timeout_tick'[t] = timeout_tick[t]
             /\ \A t \in Pending \ fired : /\ timeout_tick'[t] = Wrap(s_tick' + left'[t])
                                            /\ left'[t] = left[t] - 1
                                            /\ left'[t] \in -MaxLate - 1 .. MaxInit
             /\ \A t \in Linked(m_timer_list') : left'[t] > 0
<1> USE DEF IInv
<1>1. PICK k \in 0 .. Len(m_timer_list) :
         /\ DueHead(m_timer_list, s_tick', k)
         /\ LET fired == {m_timer_list[i] : i \in 1 .. k}
                armed == (Armed \ fired) \cup (IF pc = "start" THEN {cur} ELSE {})
            IN  /\ m_timer_list' = SubSeq(m_timer_list, k + 1, Len(m_timer_list))
                /\ flag' = [t \in Timers |-> IF t \in fired THEN TimedOut(flag[t]) ELSE flag[t]]
                /\ left' = [t \in Timers |-> IF t \in armed THEN left[t] - 1
                                             ELSE IF t \in fired THEN 0 ELSE left[t]]
                /\ timeout_tick' = [t \in Timers |-> IF t \in fired THEN 0 ELSE timeout_tick[t]]
  BY DEF SysTick
<1> DEFINE fired == {m_timer_list[i] : i \in 1 .. k}
<1>2. /\ s_tick' = TickAdd(s_tick, 1) /\ Timely
      /\ UNCHANGED <<m_bitmap, init_tick, m_soft_timer_list, pc, cur>>
  BY DEF SysTick
<1>3. /\ ListSound(m_timer_list', left)
      /\ Linked(m_timer_list') = Linked(m_timer_list) \ fired
      /\ Linked(m_timer_list') = {m_timer_list[i] : i \in k + 1 .. Len(m_timer_list)}
  BY <1>1, SuffixSound, Facts DEF TypeOK
<1>4. fired \subseteq Linked(m_timer_list)
  <2>1. DOMAIN m_timer_list = 1 .. Len(m_timer_list) /\ Len(m_timer_list) \in Nat
    BY DEF TypeOK
  <2>2. 1 .. k \subseteq 1 .. Len(m_timer_list)
    BY <2>1
  <2>3. QED
    BY <2>1, <2>2 DEF Linked
<1>5. /\ left' = [t \in Timers |-> IF t \in (Armed \ fired) \cup Starting THEN left[t] - 1
                                   ELSE IF t \in fired THEN 0 ELSE left[t]]
      /\ timeout_tick' = [t \in Timers |-> IF t \in fired THEN 0 ELSE timeout_tick[t]]
      /\ flag' = [t \in Timers |-> IF t \in fired THEN TimedOut(flag[t]) ELSE flag[t]]
  BY <1>1 DEF Starting
<1>6. DueHead(m_timer_list, s_tick', k)
  BY <1>1
<1> HIDE DEF fired
<1>7. /\ \A t \in Linked(m_soft_timer_list) : t \notin fired
      /\ \A t \in Starting : t \notin fired
      /\ Pending \ fired = (Armed \ fired) \cup Starting
  <2>1. \A t \in Linked(m_soft_timer_list) : t \notin fired
    BY <1>4, Facts
  <2>2. \A t \in Starting : t \notin Armed /\ t \notin fired
    BY <1>4 DEF Starting, ForegroundSound, LinkedIffActive, Armed, TypeOK
  <2>3. QED
    BY <2>1, <2>2 DEF Pending
<1>8. ASSUME NEW t \in Pending \ fired
      PROVE  left[t] \in Int /\ left[t] >= -MaxLate /\ left[t] <= MaxInit
  <2>1. t \in Pending /\ left[t] \in -MaxLate - 1 .. MaxInit /\ -MaxLate - 1 \in Int /\ MaxInit \in Int
    BY SvTimerAssumption DEF Timing
  <2>2. left[t] \in Int /\ left[t] <= MaxInit
    BY <2>1
  <2>3. CASE t \in Linked(m_timer_list) \cup Starting
    BY <2>2, <2>3 DEF Timing, Punctual
  <2>4. CASE t \in Linked(m_soft_timer_list)
    <3>1. CASE m_soft_timer_handling
      <4>1. left[t] > -MaxLate
        BY <3>1, <2>4, <1>2 DEF Timely
      <4>2. QED
        BY <4>1, <2>2, SvTimerAssumption
    <3>2. CASE ~m_soft_timer_handling
      BY <3>2, <2>2, <2>4 DEF Timing, Punctual
    <3>3. QED
      BY <3>1, <3>2
  <2>5. QED
    BY <2>1, <2>3, <2>4 DEF Pending, Armed
<1>9. ASSUME NEW t \in Pending \ fired
      PROVE  /\ timeout_tick'[t] = Wrap(s_tick' + left'[t])
             /\ left'[t] = left[t] - 1
             /\ left'[t] \in -MaxLate - 1 .. MaxInit
  <2>1. t \in Timers /\ t \notin fired /\ t \in (Armed \ fired) \cup Starting
    BY <1>7, Facts
  <2>2. left'[t] = left[t] - 1 /\ timeout_tick'[t] = timeout_tick[t]
    BY <2>1, <1>5
  <2>3. timeout_tick[t] = Wrap(s_tick + left[t]) /\ left[t] \in -MaxLate - 1 .. MaxInit
    BY DEF Timing
  <2>4. Wrap(TickAdd(s_tick, 1) + (left[t] - 1)) = Wrap(s_tick + left[t])
    BY <2>3, WrapStep DEF TypeOK
  <2>5. left[t] - 1 \in -MaxLate - 1 .. MaxInit
    BY <1>8, SvTimerAssumption
  <2>6. QED
    BY <2>2, <2>3, <2>4, <2>5, <1>2
<1>10. s_tick' \in 0 .. TickMod - 1
  BY <1>2, SvTimerAssumption DEF TypeOK, TickAdd, Wrap, TickMod
<1>11. left' \in [Timers -> Int] /\ timeout_tick' \in [Timers -> 0 .. TickMod - 1]
  <2>1. 0 \in 0 .. TickMod - 1
    BY SvTimerAssumption DEF TickMod
  <2>2. \A t \in Timers : left[t] \in Int /\ timeout_tick[t] \in 0 .. TickMod - 1
    BY DEF TypeOK
  <2>3. QED
    BY <2>1, <2>2, <1>5
<1>12. ListSound(m_timer_list', left') /\ ListSound(m_soft_timer_list', left')
  <2>1. Linked(m_timer_list') \subseteq Pending \ fired
    BY <1>3 DEF Pending, Armed
  <2>2. Linked(m_soft_timer_list) \subseteq Pending \ fired
    BY <1>7 DEF Pending, Armed
  <2>3. left \in [Timers -> Int]
    BY DEF TypeOK
  <2>4. ListSound(m_timer_list', left')
    BY <2>1, <2>3, <1>3, <1>9, ShiftSound
  <2>5. ListSound(m_soft_timer_list, left')
    BY <2>2, <2>3, <1>9, ShiftSound, Facts
  <2>6. QED
    BY <2>4, <2>5, <1>2
<1>13. \A t \in Linked(m_timer_list') : left'[t] > 0
  <2>1. CASE k = Len(m_timer_list)
    <3>1. k + 1 .. Len(m_timer_list) = {}
      BY <2>1 DEF TypeOK
    <3>2. QED
      BY <3>1, <1>3
  <2>2. CASE k < Len(m_timer_list)
    <3>1. m_timer_list' = SubSeq(m_timer_list, k + 1, Len(m_timer_list))
      BY <1>1
    <3>2. /\ m_timer_list \in Seq(Timers) /\ Len(m_timer_list) \in Nat
          /\ \A i \in k + 1 .. Len(m_timer_list) : m_timer_list[i] \in Timers
      BY DEF TypeOK
    <3>3. /\ m_timer_list' \in Seq(Timers) /\ Len(m_timer_list') \in Nat
          /\ Len(m_timer_list') >= 1
          /\ m_timer_list'[1] = m_timer_list[k + 1]
      <4>1. k + 1 \in Int /\ Len(m_timer_list) \in Int /\ k + 1 <= Len(m_timer_list)
        BY <2>2, <3>2
      <4>2. /\ Len(m_timer_list') = Len(m_timer_list) - (k + 1) + 1
            /\ \A i \in 1 .. Len(m_timer_list) - (k + 1) + 1 :
                  m_timer_list'[i] = m_timer_list[(k + 1) + i - 1]
        BY <3>1, <3>2, <4>1, SubSeqProperties
      <4>3. m_timer_list'[1] = m_timer_list[(k + 1) + 1 - 1] /\ (k + 1) + 1 - 1 = k + 1
        BY <4>1, <4>2, <3>2
      <4>4. m_timer_list' \in Seq(Timers)
        BY <1>3 DEF ListSound
      <4>5. QED
        BY <4>1, <4>2, <4>3, <4>4
    <3>4. ~Expired(s_tick', timeout_tick[m_timer_list[k + 1]])
      BY <2>2, <1>6 DEF DueHead
    <3>5. m_timer_list'[1] \in Linked(m_timer_list')
      BY <3>3 DEF Linked
    <3>6. ~Expired(s_tick', timeout_tick'[m_timer_list'[1]])
      <4>1. m_timer_list'[1] \notin fired /\ m_timer_list'[1] \in Timers
        BY <3>5, <1>3, Facts
      <4>2. QED
        BY <4>1, <3>3, <3>4, <1>5
    <3>7. \A u \in Linked(m_timer_list') :
             timeout_tick'[u] = Wrap(s_tick' + left'[u]) /\ left'[u] \in -MaxLate - 1 .. MaxInit
      BY <1>3, <1>9 DEF Pending, Armed
    <3>8. 1 \in 1 .. Len(m_timer_list')
      BY <3>3
    <3>9. \A i \in 1 .. Len(m_timer_list') : left'[m_timer_list'[i]] > 0
      BY <3>6, <3>7, <3>8, <1>10, <1>11, <1>12, HeadFirst
    <3>10. QED
      BY <3>3, <3>9 DEF Linked
  <2>3. QED
    BY <2>1, <2>2 DEF TypeOK
<1>14. QED
  BY <1>2, <1>3, <1>4, <1>5, <1>9, <1>10, <1>11, <1>12, <1>13

\* The tick serves the interrupt timers that are due and signals the soft ones.
LEMMA SysTickInv == ASSUME IInv, SysTick PROVE IInv'
<1> USE DEF IInv
<1>1. PICK fired \in SUBSET Linked(m_timer_list) :
         /\ s_tick' \in 0 .. TickMod - 1
         /\ ListSound(m_timer_list', left') /\ ListSound(m_soft_timer_list', left')
         /\ m_soft_timer_list' = m_soft_timer_list
         /\ Linked(m_timer_list') = Linked(m_timer_list) \ fired
         /\ left' \in [Timers -> Int] /\ timeout_tick' \in [Timers -> 0 .. TickMod - 1]
         /\ flag' = [t \in Timers |-> IF t \in fired THEN TimedOut(flag[t]) ELSE flag[t]]
         /\ \A t \in Timers : t \notin fired => timeout_tick'[t] = timeout_tick[t]
         /\ \A t \in Pending \ fired : /\ timeout_tick'[t] = Wrap(s_tick' + left'[t])
                                        /\ left'[t] = left[t] - 1
                                        /\ left'[t] \in -MaxLate - 1 .. MaxInit
         /\ \A t \in Linked(m_timer_list') : left'[t] > 0
  BY SysTickFacts
<1>2. UNCHANGED <<m_bitmap, init_tick, pc, cur>> /\ Timely
  BY DEF SysTick
<1>3. /\ \A t \in Linked(m_soft_timer_list) : t \notin fired
      /\ \A t \in Starting : t \notin fired
  <2>1. \A t \in Starting : t \notin Armed
    BY DEF Starting, ForegroundSound, LinkedIffActive, TypeOK
  <2>2. QED
    BY <2>1, Facts DEF Armed
<1>4. /\ Starting' = Starting
      /\ Armed' = Armed \ fired
      /\ Pending' = Pending \ fired
  BY <1>1, <1>2, <1>3 DEF Starting, Armed, Pending
<1>5. /\ \A t \in Timers : t \notin fired => flag'[t] = flag[t]
      /\ \A t \in fired : flag'[t] = TimedOut(flag[t])
      /\ \A t \in Timers : IsSoft(t)' <=> IsSoft(t)
      /\ flag' \in [Timers -> SUBSET Flags]
  <2>1. fired \subseteq Timers
    BY Facts
  <2>2. \A t \in Timers : flag[t] \in SUBSET Flags
    BY DEF TypeOK
  <2>3. \A t \in Timers : TimedOut(flag[t]) \in SUBSET Flags
    BY <2>2 DEF TimedOut, Flags
  <2>4. /\ \A t \in Timers : t \notin fired => flag'[t] = flag[t]
        /\ \A t \in fired : flag'[t] = TimedOut(flag[t])
    BY <1>1, <2>1
  <2>5. \A t \in Timers : IsSoft(t)' <=> IsSoft(t)
    BY <2>4 DEF IsSoft, TimedOut
  <2>6. QED
    BY <1>1, <2>2, <2>3, <2>4, <2>5
\* The signal: raised together, or left alone.
<1>6. \/ /\ ~m_soft_timer_handling /\ SoftDue(s_tick')
         /\ s_time' = s_time + 1 /\ m_soft_timer_handling' = TRUE
      \/ /\ m_soft_timer_handling \/ ~SoftDue(s_tick')
         /\ s_time' = s_time /\ m_soft_timer_handling' = m_soft_timer_handling
  BY DEF SysTick, TellLoop, signal
<1>7. s_time' \in 0 .. 1 /\ m_soft_timer_handling' \in BOOLEAN /\ Handshake' /\ s_time' >= s_time
  <2>1. CASE /\ ~m_soft_timer_handling /\ SoftDue(s_tick')
             /\ s_time' = s_time + 1 /\ m_soft_timer_handling' = TRUE
    <3>1. s_time = 0 /\ s_time' = 1
      BY <2>1 DEF Handshake, TypeOK
    <3>2. Handshake'
      BY <3>1, <2>1 DEF Handshake
    <3>3. m_soft_timer_handling' \in BOOLEAN
      BY <2>1, Zenon
    <3>4. QED
      BY <3>1, <3>2, <3>3
  <2>2. CASE s_time' = s_time /\ m_soft_timer_handling' = m_soft_timer_handling
    BY <2>2, <1>2 DEF Handshake, TypeOK
  <2>3. QED
    BY <2>1, <2>2, <1>6
<1>8. TypeOK'
  BY <1>1, <1>2, <1>5, <1>7 DEF TypeOK, ListSound
<1>9. LinkedIffActive'
  <2>1. InHand' = InHand
    BY <1>2 DEF InHand
  <2>2. \A u \in Timers : u \in Armed' <=> u \in m_bitmap' /\ "ACTIVATED" \in flag'[u] /\ u \notin InHand'
    BY <1>2, <1>4, <1>5, <2>1 DEF LinkedIffActive, TimedOut
  <2>3. /\ \A u \in Linked(m_timer_list') : ~IsSoft(u)'
        /\ \A u \in Linked(m_soft_timer_list') : IsSoft(u)'
    BY <1>1, <1>5, Facts
  <2>4. QED
    BY <1>1, <2>2, <2>3 DEF LinkedIffActive, ListSound
<1>10. ForegroundSound'
  <2>1. pc = "start" => cur \notin fired
    BY <1>3 DEF Starting
  <2>2. pc' = "start" => cur' \in m_bitmap' /\ "ACTIVATED" \notin flag'[cur']
    BY <1>2, <1>5, <2>1 DEF ForegroundSound, TypeOK
  <2>3. pc' = "callback" => cur' \in m_bitmap' /\ IsSoft(cur)' /\ "HANDLING" \in flag'[cur']
    <3>1. pc = "callback" => cur \notin fired
      BY Facts DEF ForegroundSound
    <3>2. QED
      BY <1>2, <1>5, <3>1 DEF ForegroundSound, TypeOK
  <2>4. pc' = "read" => s_time' # 0
    BY <1>2, <1>7 DEF ForegroundSound, TypeOK
  <2>5. QED
    BY <2>2, <2>3, <2>4 DEF ForegroundSound
<1>11. Timing'
  <2>1. \A t \in Pending' : /\ timeout_tick'[t] = Wrap(s_tick' + left'[t])
                             /\ left'[t] \in -MaxLate - 1 .. MaxInit
    BY <1>1, <1>4
  <2>2. ASSUME NEW t \in Linked(m_timer_list') \cup Starting' PROVE left'[t] >= -MaxLate
    <3>1. CASE t \in Linked(m_timer_list')
      <4>1. left'[t] > 0 /\ left'[t] \in Int
        BY <3>1, <1>1, Facts
      <4>2. QED
        BY <4>1, SvTimerAssumption
    <3>2. CASE t \in Starting'
      <4>1. t \in Pending \ fired /\ pc = "start" /\ t = cur /\ t \in Timers
        BY <3>2, <1>2, <1>3, <1>4, Facts DEF Pending, Starting
      <4>2. left'[t] = left[t] - 1 /\ left[t] > -MaxLate /\ left[t] \in Int
        BY <4>1, <1>1, <1>2 DEF Timely, TypeOK
      <4>3. QED
        BY <4>2, SvTimerAssumption
    <3>3. QED
      BY <2>2, <3>1, <3>2
  <2>3. ASSUME ~m_soft_timer_handling' \/ pc' = "finish", NEW t \in Linked(m_soft_timer_list')
        PROVE  left'[t] >= -MaxLate
    <3>1. t \in Pending \ fired /\ t \in Timers
      BY <1>1, <1>3, Facts DEF Pending, Armed
    <3>2. left'[t] = left[t] - 1 /\ left[t] \in Int /\ left'[t] \in Int
      BY <3>1, <1>1 DEF TypeOK
    <3>3. CASE m_soft_timer_handling
      <4>1. left[t] > -MaxLate
        BY <3>3, <1>1, <1>2 DEF Timely
      <4>2. QED
        BY <4>1, <3>2, SvTimerAssumption
    <3>4. CASE ~m_soft_timer_handling
      <4>1. pc # "finish"
        BY <3>4 DEF Handshake
      <4>2. ~SoftDue(s_tick')
        BY <2>3, <3>4, <4>1, <1>2, <1>6
      <4>3. /\ m_soft_timer_list # <<>> /\ m_soft_timer_list \in Seq(Timers)
            /\ 1 \in 1 .. Len(m_soft_timer_list) /\ m_soft_timer_list[1] = Head(m_soft_timer_list)
            /\ m_soft_timer_list[1] \in Linked(m_soft_timer_list)
        <5>1. /\ m_soft_timer_list \in Seq(Timers) /\ Len(m_soft_timer_list) \in Nat
              /\ DOMAIN m_soft_timer_list = 1 .. Len(m_soft_timer_list)
          BY DEF TypeOK
        <5>2. PICK i \in 1 .. Len(m_soft_timer_list) : t = m_soft_timer_list[i]
          BY <5>1, <1>1 DEF Linked
        <5>3. m_soft_timer_list # <<>> /\ 1 \in 1 .. Len(m_soft_timer_list)
          BY <5>1, <5>2
        <5>4. QED
          BY <5>1, <5>3 DEF Linked
      <4>4. ~Expired(s_tick', timeout_tick[m_soft_timer_list[1]])
        BY <4>2, <4>3 DEF SoftDue
      <4>5. timeout_tick[m_soft_timer_list[1]] = timeout_tick'[m_soft_timer_list[1]]
        <5>1. m_soft_timer_list[1] \in Timers /\ m_soft_timer_list[1] \notin fired
          BY <4>3, <1>3, Facts
        <5>2. QED
          BY <5>1, <1>1
      <4>6. \A u \in Linked(m_soft_timer_list) :
               timeout_tick'[u] = Wrap(s_tick' + left'[u]) /\ left'[u] \in -MaxLate - 1 .. MaxInit
        BY <1>1, <1>3 DEF Pending, Armed
      <4>7. \A i \in 1 .. Len(m_soft_timer_list) : left'[m_soft_timer_list[i]] > 0
        BY <4>3, <4>4, <4>5, <4>6, <1>1, HeadFirst
      <4>8. left'[t] > 0
        BY <4>7, <4>3, <1>1 DEF Linked
      <4>9. QED
        BY <4>8, <3>2, SvTimerAssumption
    <3>5. QED
      BY <3>3, <3>4
  <2>4. Punctual'
    BY <2>2, <2>3 DEF Punctual
  <2>5. QED
    BY <1>1, <2>1, <2>4 DEF Timing, ListSound
<1>12. QED
  BY <1>7, <1>8, <1>9, <1>10, <1>11

--------------------------------------------------------------------------------
(* The walk over the soft list.                                            *)

\* The head of a list that is not empty, and what is left without it.
LEMMA TailSound ==
    ASSUME NEW l, NEW g \in [Timers -> Int], ListSound(l, g), l # <<>>
    PROVE  /\ Head(l) \in Linked(l) /\ Head(l) \in Timers /\ Head(l) = l[1] /\ 1 \in 1 .. Len(l)
           /\ ListSound(Tail(l), g)
           /\ Linked(Tail(l)) = Linked(l) \ {Head(l)}
<1>1. l \in Seq(Timers) /\ Len(l) \in Nat /\ DOMAIN l = 1 .. Len(l)
  BY DEF ListSound
<1>2. Len(l) >= 1 /\ 1 \in 1 .. Len(l) /\ Head(l) = l[1]
  BY <1>1
<1>3. Tail(l) = SubSeq(l, 2, Len(l))
  BY <1>1, TailIsSubSeq
<1>4. 1 \in 0 .. Len(l) /\ {l[i] : i \in 1 .. 1} = {l[1]}
  BY <1>1, <1>2
<1>5. /\ ListSound(SubSeq(l, 1 + 1, Len(l)), g)
      /\ Linked(SubSeq(l, 1 + 1, Len(l))) = Linked(l) \ {l[i] : i \in 1 .. 1}
  <2>1. \A k \in 0 .. Len(l) :
          /\ ListSound(SubSeq(l, k + 1, Len(l)), g)
          /\ Linked(SubSeq(l, k + 1, Len(l))) = Linked(l) \ {l[i] : i \in 1 .. k}
    BY SuffixSound
  <2>2. QED
    BY ONLY <1>4, <2>1, Zenon
<1>6. Head(l) \in Linked(l) /\ Head(l) \in Timers
  BY <1>1, <1>2 DEF Linked
<1>7. 1 + 1 = 2 /\ {l[i] : i \in 1 .. 1} = {Head(l)}
  BY <1>2, <1>4
<1>8. QED
  BY <1>2, <1>3, <1>5, <1>6, <1>7

\* Deliver, on a list l, flags f, deadlines dl and history g that fit together.
LEMMA DeliverInv ==
    ASSUME IInv, pc \in {"handler", "callback"},
           NEW g \in [Timers -> Int], NEW f \in [Timers -> SUBSET Flags],
           NEW dl \in [Timers -> 0 .. TickMod - 1], NEW l, ListSound(l, g), m_bitmap' \subseteq Timers,
           UNCHANGED <<s_tick, init_tick, m_timer_list, signal>>,
           \A u \in Linked(l) : /\ "SOFT" \in f[u]
                                /\ dl[u] = Wrap(s_tick + g[u]) /\ g[u] \in -MaxLate - 1 .. MaxInit,
           \A u \in Linked(m_timer_list) :
              "SOFT" \notin f[u] /\ dl[u] = timeout_tick[u] /\ g[u] = left[u],
           \A u \in Timers : u \in Linked(m_timer_list) \cup Linked(l)
                                <=> u \in m_bitmap' /\ "ACTIVATED" \in f[u],
           Deliver(l, f, dl, g)
    PROVE  IInv'
<1> USE DEF IInv
<1>1. /\ m_soft_timer_handling = TRUE /\ UNCHANGED <<s_tick, init_tick, m_timer_list, m_soft_timer_handling, s_time>>
      /\ Starting = {}
  BY DEF Handshake, signal, Starting, TypeOK
<1>2. /\ ListSound(m_timer_list, left) /\ Linked(m_timer_list) \subseteq Timers
      /\ \A u \in Linked(m_timer_list) : /\ timeout_tick[u] = Wrap(s_tick + left[u])
                                         /\ left[u] \in -MaxLate - 1 .. MaxInit
                                         /\ left[u] >= -MaxLate
  BY Facts DEF Timing, Punctual, Pending, Armed
<1>3. ListSound(m_timer_list, g)
  BY <1>2, Agree
<1>4. CASE l # <<>> /\ Expired(s_tick, dl[Head(l)])
  <2> DEFINE h == Head(l)
  <2>1. /\ m_soft_timer_list' = Tail(l)
        /\ flag' = [f EXCEPT ![h] = @ \cup {"HANDLING"}]
        /\ left' = [g EXCEPT ![h] = 0]
        /\ timeout_tick' = [dl EXCEPT ![h] = 0]
        /\ pc' = "callback" /\ cur' = h
    BY <1>4 DEF Deliver
  <2>2. /\ h \in Linked(l) /\ h \in Timers
        /\ ListSound(Tail(l), g) /\ Linked(Tail(l)) = Linked(l) \ {h}
    BY <1>4, TailSound
  <2> HIDE DEF h
  <2>3. /\ \A u \in Timers : u # h => flag'[u] = f[u] /\ left'[u] = g[u] /\ timeout_tick'[u] = dl[u]
        /\ flag'[h] = f[h] \cup {"HANDLING"}
        /\ flag' \in [Timers -> SUBSET Flags] /\ left' \in [Timers -> Int]
        /\ timeout_tick' \in [Timers -> 0 .. TickMod - 1]
    <3>1. 0 \in 0 .. TickMod - 1
      BY SvTimerAssumption DEF TickMod
    <3>2. f[h] \cup {"HANDLING"} \in SUBSET Flags
      BY <2>2 DEF Flags
    <3>3. QED
      BY <2>1, <2>2, <3>1, <3>2
  <2>4. h \notin Linked(m_timer_list) /\ "ACTIVATED" \in f[h] /\ "SOFT" \in f[h] /\ h \in m_bitmap'
    BY <2>2
  <2>5. /\ ListSound(m_timer_list', left') /\ ListSound(m_soft_timer_list', left')
        /\ Linked(m_timer_list') = Linked(m_timer_list)
        /\ Linked(m_soft_timer_list') = Linked(l) \ {h}
    <3>1. \A u \in Linked(m_timer_list) : left'[u] = g[u]
      BY <1>2, <2>3, <2>4
    <3>2. \A u \in Linked(Tail(l)) : left'[u] = g[u]
      <4>1. \A u \in Linked(Tail(l)) : u \in Timers /\ u # h
        <5>1. \A u \in Linked(l) : u \in Timers
          BY DEF ListSound, Linked
        <5>2. QED
          BY <5>1, <2>2
      <4>2. QED
        BY <4>1, <2>3
    <3>3. ListSound(m_timer_list, left') /\ ListSound(Tail(l), left')
      BY <3>1, <3>2, <1>3, <2>2, Agree
    <3>4. m_timer_list' = m_timer_list /\ m_soft_timer_list' = Tail(l)
      BY <1>1, <2>1
    <3>5. QED
      BY <3>3, <3>4, <2>2
  <2>6. /\ Armed' = (Linked(m_timer_list) \cup Linked(l)) \ {h}
        /\ Starting' = {} /\ Pending' = Armed' /\ InHand' = {h}
    BY <2>1, <2>4, <2>5 DEF Armed, Starting, Pending, InHand
  <2>7. TypeOK'
    BY <1>1, <2>1, <2>2, <2>3, <2>5 DEF TypeOK, ListSound, Points
  <2>8. LinkedIffActive'
    <3>1. \A u \in Timers : u \in Armed' <=> u \in m_bitmap' /\ "ACTIVATED" \in flag'[u] /\ u \notin InHand'
      BY <2>3, <2>6
    <3>2. /\ \A u \in Linked(m_timer_list') : ~IsSoft(u)'
          /\ \A u \in Linked(m_soft_timer_list') : IsSoft(u)'
      <4>1. \A u \in Linked(l) : u \in Timers
        BY DEF ListSound, Linked
      <4>2. QED
        BY <4>1, <1>2, <2>3, <2>4, <2>5 DEF IsSoft
    <3>3. QED
      BY <2>5, <3>1, <3>2 DEF LinkedIffActive, ListSound
  <2>9. ForegroundSound' /\ Handshake'
    BY <1>1, <2>1, <2>3, <2>4 DEF ForegroundSound, Handshake, IsSoft
  <2>10. Timing'
    <3>1. ASSUME NEW u \in Pending'
          PROVE  /\ timeout_tick'[u] = Wrap(s_tick' + left'[u])
                 /\ left'[u] \in -MaxLate - 1 .. MaxInit
      <4>1. u # h /\ u \in Timers /\ u \in Linked(m_timer_list) \cup Linked(l)
        BY <1>2, <2>6 DEF ListSound, Linked
      <4>2. QED
        BY <4>1, <1>1, <1>2, <2>3
    <3>2. Punctual'
      <4>1. \A u \in Linked(m_timer_list') : left'[u] >= -MaxLate
        BY <1>2, <2>3, <2>4, <2>5
      <4>2. m_soft_timer_handling' = TRUE /\ pc' # "finish"
        BY <1>1, <2>1
      <4>3. QED
        BY <4>1, <4>2, <2>6 DEF Punctual
    <3>3. QED
      BY <3>1, <3>2, <2>5 DEF Timing, ListSound
  <2>11. QED
    BY <2>7, <2>8, <2>9, <2>10
<1>5. CASE ~(l # <<>> /\ Expired(s_tick, dl[Head(l)]))
  <2>1. /\ m_soft_timer_list' = l /\ flag' = f /\ left' = g /\ timeout_tick' = dl
        /\ pc' = "finish" /\ cur' = cur
    BY <1>5 DEF Deliver
  <2>2. /\ Armed' = Linked(m_timer_list) \cup Linked(l)
        /\ Starting' = {} /\ Pending' = Armed' /\ InHand' = {}
    BY <1>1, <2>1 DEF Armed, Starting, Pending, InHand
  <2>3. TypeOK'
    BY <1>1, <2>1 DEF TypeOK, ListSound, Points
  <2>4. LinkedIffActive'
    BY <1>1, <1>3, <2>1, <2>2 DEF LinkedIffActive, ListSound, IsSoft
  <2>5. ForegroundSound' /\ Handshake'
    BY <1>1, <2>1 DEF ForegroundSound, Handshake
  <2>6. \A u \in Linked(l) : g[u] > 0
    <3>1. CASE l = <<>>
      BY <3>1 DEF Linked
    <3>2. CASE l # <<>>
      <4>1. Head(l) = l[1] /\ 1 \in 1 .. Len(l) /\ DOMAIN l = 1 .. Len(l)
        BY <3>2, TailSound DEF ListSound
      <4>2. ~Expired(s_tick, dl[l[1]]) /\ s_tick \in 0 .. TickMod - 1
        BY <3>2, <4>1, <1>5 DEF TypeOK
      <4>3. \A i \in 1 .. Len(l) : g[l[i]] > 0
        BY <4>1, <4>2, HeadFirst
      <4>4. QED
        BY <4>1, <4>3 DEF Linked
    <3>3. QED
      BY <3>1, <3>2
  <2>7. Timing'
    <3>1. \A u \in Pending' : /\ timeout_tick'[u] = Wrap(s_tick' + left'[u])
                               /\ left'[u] \in -MaxLate - 1 .. MaxInit
      BY <1>1, <1>2, <2>1, <2>2
    <3>2. \A u \in Linked(l) : g[u] >= -MaxLate
      <4>1. \A u \in Linked(l) : g[u] \in Int
        BY DEF ListSound, Linked
      <4>2. QED
        BY <2>6, <4>1, SvTimerAssumption
    <3>3. Punctual'
      BY <1>1, <1>2, <2>1, <2>2, <3>2 DEF Punctual
    <3>4. QED
      BY <1>1, <1>3, <2>1, <3>1, <3>3 DEF Timing, ListSound
  <2>8. QED
    BY <2>3, <2>4, <2>5, <2>7
<1>6. QED
  BY <1>4, <1>5

\* soft_timer_handle takes the due timers off the list up to the next callback.
LEMMA HandleInv == ASSUME IInv, Handle PROVE IInv'
<1> USE DEF IInv
<1>1. /\ pc = "handler" /\ UNCHANGED <<s_tick, m_bitmap, init_tick, m_timer_list, signal>>
      /\ Deliver(m_soft_timer_list, flag, timeout_tick, left)
  BY DEF Handle
<1>2. /\ left \in [Timers -> Int] /\ flag \in [Timers -> SUBSET Flags]
      /\ timeout_tick \in [Timers -> 0 .. TickMod - 1] /\ m_bitmap' \subseteq Timers
  BY <1>1 DEF TypeOK
<1>3. \A u \in Linked(m_soft_timer_list) :
         /\ "SOFT" \in flag[u]
         /\ timeout_tick[u] = Wrap(s_tick + left[u]) /\ left[u] \in -MaxLate - 1 .. MaxInit
  BY Facts DEF Timing, Pending, Armed, IsSoft
<1>4. \A u \in Linked(m_timer_list) : "SOFT" \notin flag[u]
  BY Facts DEF IsSoft
<1>5. \A u \in Timers : u \in Linked(m_timer_list) \cup Linked(m_soft_timer_list)
                           <=> u \in m_bitmap' /\ "ACTIVATED" \in flag[u]
  BY <1>1 DEF LinkedIffActive, Armed, InHand
<1>6. QED
  BY <1>1, <1>2, <1>3, <1>4, <1>5, DeliverInv, Facts

\* A periodic timer is linked again after its callback, and the next one is taken.
LEMMA RearmAndGoOnInv == ASSUME IInv, RearmAndGoOn PROVE IInv'
<1> USE DEF IInv
<1> DEFINE dl == [timeout_tick EXCEPT ![cur] = TickAdd(s_tick, init_tick[cur])]
           f  == [flag EXCEPT ![cur] = Started(@)]
           g  == [left EXCEPT ![cur] = init_tick[cur]]
           S  == m_soft_timer_list
<1>1. /\ pc = "callback" /\ UNCHANGED <<s_tick, m_bitmap, init_tick, m_timer_list, signal>>
      /\ "ACTIVATED" \in flag[cur]
  BY DEF RearmAndGoOn
<1>2. PICK p : IsPlaceFor(cur, dl, S, p) /\ Deliver(InsertAt(S, p, cur), f, dl, g)
  BY DEF RearmAndGoOn
<1>3. /\ cur \in Timers /\ cur \in m_bitmap /\ IsSoft(cur) /\ InHand = {cur}
      /\ cur \notin Linked(S) /\ cur \notin Linked(m_timer_list)
  BY <1>1 DEF ForegroundSound, LinkedIffActive, InHand, Armed, TypeOK
<1>4. /\ g \in [Timers -> Int] /\ dl \in [Timers -> 0 .. TickMod - 1]
      /\ g[cur] = init_tick[cur] /\ dl[cur] = Wrap(s_tick + init_tick[cur])
  BY <1>3, NewDeadline DEF TypeOK
<1>5. f \in [Timers -> SUBSET Flags] /\ "ACTIVATED" \in f[cur] /\ "SOFT" \in f[cur]
  BY <1>3 DEF TypeOK, Started, Flags, IsSoft
<1>6. \A u \in Timers : u # cur => g[u] = left[u] /\ dl[u] = timeout_tick[u] /\ f[u] = flag[u]
  BY DEF TypeOK
<1> HIDE DEF dl, f, g
<1>7. \A u \in Linked(S) \cup {cur} : /\ "SOFT" \in f[u]
                                      /\ dl[u] = Wrap(s_tick + g[u])
                                      /\ g[u] \in -MaxLate - 1 .. MaxInit
  <2>1. ASSUME NEW u \in Linked(S)
        PROVE  /\ "SOFT" \in f[u] /\ dl[u] = Wrap(s_tick + g[u])
               /\ g[u] \in -MaxLate - 1 .. MaxInit
    <3>1. u \in Pending /\ u \in Timers /\ u # cur /\ IsSoft(u)
      BY <1>3, Facts DEF Pending, Armed
    <3>2. QED
      BY <3>1, <1>6 DEF Timing, IsSoft
  <2>2. QED
    BY <2>1, <1>3, <1>4, <1>5, NewDeadline
<1>8. ListSound(S, g)
  <2>1. \A u \in Linked(S) : g[u] = left[u]
    BY <1>3, <1>6, Facts
  <2>2. QED
    BY <2>1, Agree, Facts
<1>9. /\ ListSound(InsertAt(S, p, cur), g)
      /\ Linked(InsertAt(S, p, cur)) = Linked(S) \cup {cur}
  <2>1. s_tick \in 0 .. TickMod - 1
    BY DEF TypeOK
  <2> HIDE DEF S
  <2>2. QED
    BY <2>1, <1>2, <1>3, <1>4, <1>7, <1>8, PlaceSound
<1>10. \A u \in Linked(m_timer_list) : "SOFT" \notin f[u] /\ dl[u] = timeout_tick[u] /\ g[u] = left[u]
  BY <1>3, <1>6, Facts DEF IsSoft
<1>11. \A u \in Timers : u \in Linked(m_timer_list) \cup (Linked(S) \cup {cur})
                            <=> u \in m_bitmap' /\ "ACTIVATED" \in f[u]
  BY <1>1, <1>3, <1>5, <1>6 DEF LinkedIffActive, Armed
<1>12. m_bitmap' \subseteq Timers
  BY <1>1 DEF TypeOK
<1>13. QED
  BY <1>1, <1>2, <1>4, <1>5, <1>7, <1>9, <1>10, <1>11, <1>12, DeliverInv

\* A timer that is done gives its slot back, and the next one is taken.
LEMMA RetireAndGoOnInv == ASSUME IInv, RetireAndGoOn PROVE IInv'
<1> USE DEF IInv
<1> DEFINE f == [flag EXCEPT ![cur] = TimedOut(@)]
<1>1. /\ pc = "callback" /\ UNCHANGED <<s_tick, init_tick, m_timer_list, signal>>
      /\ m_bitmap' = m_bitmap \ {cur}
      /\ Deliver(m_soft_timer_list, f, timeout_tick, left)
  BY DEF RetireAndGoOn
<1>2. /\ cur \in Timers /\ InHand = {cur}
      /\ cur \notin Linked(m_soft_timer_list) /\ cur \notin Linked(m_timer_list)
  BY <1>1 DEF LinkedIffActive, InHand, Armed, TypeOK
<1>3. /\ left \in [Timers -> Int] /\ timeout_tick \in [Timers -> 0 .. TickMod - 1]
      /\ m_bitmap' \subseteq Timers
  BY <1>1 DEF TypeOK
<1>4. /\ f \in [Timers -> SUBSET Flags]
      /\ \A u \in Timers : u # cur => f[u] = flag[u]
  BY <1>2 DEF TypeOK, TimedOut, Flags
<1> HIDE DEF f
<1>5. \A u \in Linked(m_soft_timer_list) :
         /\ "SOFT" \in f[u]
         /\ timeout_tick[u] = Wrap(s_tick + left[u]) /\ left[u] \in -MaxLate - 1 .. MaxInit
  <2>1. ASSUME NEW u \in Linked(m_soft_timer_list)
        PROVE  u \in Pending /\ u \in Timers /\ u # cur /\ IsSoft(u)
    BY <1>2, Facts DEF Pending, Armed
  <2>2. QED
    BY <2>1, <1>4 DEF Timing, IsSoft
<1>6. \A u \in Linked(m_timer_list) : "SOFT" \notin f[u]
  BY <1>2, <1>4, Facts DEF IsSoft
<1>7. \A u \in Timers : u \in Linked(m_timer_list) \cup Linked(m_soft_timer_list)
                           <=> u \in m_bitmap' /\ "ACTIVATED" \in f[u]
  BY <1>1, <1>2, <1>4 DEF LinkedIffActive, Armed
<1>8. QED
  BY <1>1, <1>3, <1>4, <1>5, <1>6, <1>7, DeliverInv, Facts

--------------------------------------------------------------------------------
(* The theorems.                                                           *)

\* Before any timer is registered both lists are empty.
LEMMA InitInv == Init => IInv
<1> SUFFICES ASSUME Init PROVE IInv
  OBVIOUS
<1>1. TypeOK
  <2>1. 0 \in 0 .. TickMod - 1
    BY SvTimerAssumption DEF TickMod
  <2>2. m_soft_timer_handling \in BOOLEAN
    BY Zenon DEF Init
  <2>3. 0 \in 0 .. MaxInit /\ <<>> \in Seq(Timers)
    BY SvTimerAssumption
  <2>4. cur \in Timers
    BY SvTimerAssumption DEF Init, Timers
  <2>5. QED
    BY <2>1, <2>2, <2>3, <2>4 DEF Init, TypeOK, Points
<1>2. LinkedIffActive /\ ForegroundSound /\ Handshake /\ Timing
  BY DEF Init, LinkedIffActive, ForegroundSound, Handshake, Timing, Punctual, Pending, Starting,
         Armed, InHand, Linked, NoDup, InOrder
<1>3. QED
  BY <1>1, <1>2 DEF IInv

\* Every step of the foreground, of the tick and of the interrupts keeps the invariant.
LEMMA StepInv == IInv /\ [Next]_vars => IInv'
<1> SUFFICES ASSUME IInv, [Next]_vars PROVE IInv'
  OBVIOUS
<1>1. ASSUME NEW kind \in Kinds, NEW ms \in Asked, Register(kind, ms) PROVE IInv'
  BY <1>1, RegisterInv
<1>2. ASSUME NEW t \in Timers, NEW ms \in Asked, SetPeriod(t, ms) PROVE IInv'
  BY <1>2, SetPeriodInv
<1>3. ASSUME NEW t \in Timers, StartBegin(t) PROVE IInv'
  BY <1>3, StartBeginInv
<1>4. ASSUME NEW t \in Timers, StopBegin(t) PROVE IInv'
  BY <1>4, StopBeginInv
<1>5. ASSUME NEW t \in Timers, Unregister(t) PROVE IInv'
  BY <1>5, UnregisterInv
<1>6. ASSUME NEW t \in Timers, IsrStart(t) PROVE IInv'
  BY <1>6, IsrStartInv
<1>7. ASSUME NEW t \in Timers, IsrRestart(t) PROVE IInv'
  BY <1>7, IsrRestartInv
<1>8. CASE InCall
  BY <1>8, StartLinkInv, StopUnlinkInv, StopClearInv DEF InCall
<1>9. CASE SysTick
  BY <1>9, SysTickInv
<1>10. CASE Serve
  BY <1>10, PollTimerInv, ReadDeviceInv, HandleInv, RearmAndGoOnInv, RetireAndGoOnInv, FinishInv
     DEF Serve
<1>11. CASE StopOwn
  BY <1>11, StopOwnInv
\* A registration that fails, and a step of another part of the program.
<1>12. CASE UNCHANGED vars
  BY <1>12 DEF vars, timers, lists, signal, IInv, TypeOK, LinkedIffActive, ForegroundSound, Handshake,
     Timing, Punctual, Pending, Starting, Armed, InHand, IsSoft, Linked, NoDup, InOrder
<1>13. QED
  BY <1>1, <1>2, <1>3, <1>4, <1>5, <1>6, <1>7, <1>8, <1>9, <1>10, <1>11, <1>12
     DEF Next, Client, RegisterFails

(* IInv is inductive: it holds in every reachable state.                   *)
THEOREM Invariance == Spec => []IInv
<1>1. Init => IInv
  BY InitInv
<1>2. IInv /\ [Next]_vars => IInv'
  BY StepInv
<1>3. QED
  BY <1>1, <1>2, PTL DEF Spec

(* Ticks, flags, lists and counters stay within their types; s_time never  *)
(* counts beyond 1, so the device is written at most once per service.     *)
THEOREM TypeCorrect == Spec => []TypeOK
<1>1. IInv => TypeOK
  BY DEF IInv
<1>2. QED
  BY <1>1, Invariance, PTL

(* timer_start, timer_stop, timer_restart, timer_handle and timer_check    *)
(* keep the lists duplicate-free and holding exactly the active timers,    *)
(* however SysTick and the UART interrupt cut into them.                   *)
THEOREM ListsHoldTheActive == Spec => []LinkedIffActive
<1>1. IInv => LinkedIffActive
  BY DEF IInv
<1>2. QED
  BY <1>1, Invariance, PTL

(* timer_check's test of m_soft_timer_handling, and the two assignments    *)
(* that lower it, never leave a due soft timer without a readable device.  *)
THEOREM SignalKept == Spec => []Handshake
<1>1. IInv => Handshake
  BY DEF IInv
<1>2. QED
  BY <1>1, Invariance, PTL

(* sv_timer_start's wrapped comparison sorts by true deadline, and the     *)
(* wrapped test for expiry of timer_handle and timer_check is exact, at    *)
(* every value of the tick counter.                                        *)
THEOREM WrapSafe == Spec => []DeadlineOrder
<1>1. IInv => DeadlineOrder
  <2> SUFFICES ASSUME IInv PROVE DeadlineOrder
    OBVIOUS
  <2>1. ASSUME NEW t \in Armed PROVE Expired(s_tick, timeout_tick[t]) <=> left[t] <= 0
    <3>1. /\ timeout_tick[t] = Wrap(s_tick + left[t]) /\ left[t] \in -MaxLate - 1 .. MaxInit
          /\ s_tick \in 0 .. TickMod - 1
      BY DEF IInv, TypeOK, Timing, Pending
    <3>2. QED
      BY <3>1, WrapExpired
  <2>2. QED
    BY <2>1 DEF IInv, Timing, DeadlineOrder
<1>2. QED
  BY <1>1, Invariance, PTL

(* timer_handle, called from SysTick, fires every hard timer that is due:  *)
(* none is left overdue behind it.                                         *)
THEOREM HardTimersOnTime == Spec => HardOnTime
<1>1. IInv /\ [Next]_vars => [SysTick => \A t \in Linked(m_timer_list)' : left'[t] > 0]_vars
  BY SysTickFacts
<1>2. QED
  BY <1>1, Invariance, PTL DEF Spec, HardOnTime

\* Deliver marks only the head of the list it is given, and only if it is due.
LEMMA DeliverMarks ==
    ASSUME NEW f \in [Timers -> SUBSET Flags], NEW l, NEW dl, NEW g,
           NEW t \in Timers, Deliver(l, f, dl, g), "HANDLING" \in flag'[t], "HANDLING" \notin f[t]
    PROVE  l # <<>> /\ t = Head(l) /\ Expired(s_tick, dl[t])
<1>1. CASE l # <<>> /\ Expired(s_tick, dl[Head(l)])
  <2>1. flag' = [f EXCEPT ![Head(l)] = @ \cup {"HANDLING"}]
    BY <1>1 DEF Deliver
  <2>2. t = Head(l)
    BY <2>1
  <2>3. QED
    BY <1>1, <2>2
<1>2. CASE ~(l # <<>> /\ Expired(s_tick, dl[Head(l)]))
  <2>1. flag' = f
    BY <1>2 DEF Deliver
  <2>2. QED
    BY <2>1
<1>3. QED
  BY <1>1, <1>2

\* A deadline that has passed, by the unsigned test, has really passed.
LEMMA DueIsDue ==
    ASSUME IInv, NEW t \in Armed, Expired(s_tick, timeout_tick[t])
    PROVE  left[t] <= 0
<1>1. /\ timeout_tick[t] = Wrap(s_tick + left[t]) /\ left[t] \in -MaxLate - 1 .. MaxInit
      /\ s_tick \in 0 .. TickMod - 1
  BY DEF IInv, TypeOK, Timing, Pending
<1>2. QED
  BY <1>1, WrapExpired

(* soft_timer_handle calls back no timer before its time, and none that    *)
(* was not armed.                                                          *)
THEOREM CallbacksNotEarly == Spec => NeverEarly
<1> DEFINE Early == \A t \in Timers :
                      "HANDLING" \in flag'[t] /\ "HANDLING" \notin flag[t] => left[t] <= 0
<1>1. ASSUME IInv, [Next]_vars PROVE Early \/ UNCHANGED vars
  <2> SUFFICES ASSUME Next, NEW t \in Timers, "HANDLING" \in flag'[t], "HANDLING" \notin flag[t],
                      ~ UNCHANGED vars
               PROVE  left[t] <= 0
    BY <1>1
  <2>1. flag \in [Timers -> SUBSET Flags] /\ cur \in Timers
    BY <1>1 DEF IInv, TypeOK
  <2>2. ~Client
    <3>1. ASSUME NEW kind \in Kinds, NEW ms \in Asked, Register(kind, ms) PROVE FALSE
      <4>1. "HANDLING" \notin kind
        BY SvTimerAssumption DEF run_after, run_every
      <4>2. PICK u \in Timers : flag' = [flag EXCEPT ![u] = kind]
        BY <3>1 DEF Register, sv_timer_init
      <4>3. QED
        BY <4>1, <4>2, <2>1
    <3>2. ASSUME NEW u \in Timers, NEW ms \in Asked, SetPeriod(u, ms) PROVE FALSE
      BY <3>2 DEF SetPeriod
    <3>3. ASSUME NEW u \in Timers, StartBegin(u) \/ StopBegin(u) PROVE FALSE
      BY <3>3 DEF StartBegin, StopBegin, timers
    <3>4. ASSUME NEW u \in Timers, Unregister(u) PROVE FALSE
      BY <3>4, <2>1 DEF Unregister
    <3>5. ASSUME NEW u \in Timers, IsrStart(u) PROVE FALSE
      BY <3>5, <2>1 DEF IsrStart, IsrArm, Started
    <3>6. ASSUME NEW u \in Timers, IsrRestart(u) PROVE FALSE
      <4>1. PICK p \in DOMAIN m_timer_list : IsrArm(u, RemoveAt(m_timer_list, p))
        BY <3>6 DEF IsrRestart
      <4>2. flag' = [flag EXCEPT ![u] = Started(@)]
        BY <4>1 DEF IsrArm
      <4>3. QED
        BY <4>2, <2>1 DEF Started
    <3>7. ~StopOwn
      BY <2>1 DEF StopOwn
    <3>8. QED
      BY <3>1, <3>2, <3>3, <3>4, <3>5, <3>6, <3>7 DEF Client, RegisterFails
  <2>3. ~InCall
    BY <2>1 DEF InCall, StartLink, StopUnlink, StopClear, Started
  <2>4. ~SysTick
    <3>1. ASSUME SysTick PROVE FALSE
      <4>1. PICK fired \in SUBSET Linked(m_timer_list) :
               flag' = [u \in Timers |-> IF u \in fired THEN TimedOut(flag[u]) ELSE flag[u]]
        BY <1>1, <3>1, SysTickFacts
      <4>2. QED
        BY <4>1 DEF TimedOut
    <3>2. QED
      BY <3>1
  <2>5. CASE Handle
    <3>1. m_soft_timer_list # <<>> /\ t = Head(m_soft_timer_list) /\ Expired(s_tick, timeout_tick[t])
      BY <2>1, <2>5, DeliverMarks DEF Handle
    <3>2. t \in Armed
      BY <1>1, <3>1, Facts, TailSound DEF Armed, IInv, TypeOK
    <3>3. QED
      BY <1>1, <3>1, <3>2, DueIsDue
  <2>6. CASE RearmAndGoOn
    <3> DEFINE dl == [timeout_tick EXCEPT ![cur] = TickAdd(s_tick, init_tick[cur])]
               f  == [flag EXCEPT ![cur] = Started(@)]
               g  == [left EXCEPT ![cur] = init_tick[cur]]
    <3>1. PICK p : /\ IsPlaceFor(cur, dl, m_soft_timer_list, p)
                   /\ Deliver(InsertAt(m_soft_timer_list, p, cur), f, dl, g)
      BY <2>6 DEF RearmAndGoOn
    <3>2. f \in [Timers -> SUBSET Flags] /\ "HANDLING" \notin f[t]
      BY <2>1 DEF Started, Flags
    <3> HIDE DEF f, g
    <3>3. /\ InsertAt(m_soft_timer_list, p, cur) # <<>>
          /\ t = Head(InsertAt(m_soft_timer_list, p, cur)) /\ Expired(s_tick, dl[t])
      BY <3>1, <3>2, DeliverMarks
    \* cur itself was marked already; the head of the longer list is an older one
    <3>4. t # cur
      <4>1. ASSUME t = cur PROVE FALSE
        BY <1>1, <4>1, <2>6 DEF RearmAndGoOn, IInv, ForegroundSound
      <4>2. QED
        BY <4>1
    <3>5. t \in Armed
      <4>1. /\ m_soft_timer_list \in Seq(Timers) /\ cur \in Timers
            /\ p \in 1 .. Len(m_soft_timer_list) + 1
        BY <1>1, <3>1 DEF IInv, TypeOK, IsPlaceFor
      <4>2. t \in Linked(m_soft_timer_list)
        BY <4>1, <3>3, <3>4, InsertedHead
      <4>3. QED
        BY <4>2 DEF Armed
    <3>6. QED
      BY <1>1, <2>1, <3>3, <3>4, <3>5, DueIsDue
  <2>7. CASE RetireAndGoOn
    <3> DEFINE f == [flag EXCEPT ![cur] = TimedOut(@)]
    <3>1. Deliver(m_soft_timer_list, f, timeout_tick, left)
      BY <2>7 DEF RetireAndGoOn
    <3>2. f \in [Timers -> SUBSET Flags] /\ "HANDLING" \notin f[t]
      BY <2>1 DEF TimedOut, Flags
    <3> HIDE DEF f
    <3>3. m_soft_timer_list # <<>> /\ t = Head(m_soft_timer_list) /\ Expired(s_tick, timeout_tick[t])
      BY <3>1, <3>2, DeliverMarks
    <3>4. t \in Armed
      BY <1>1, <3>3, Facts, TailSound DEF Armed, IInv, TypeOK
    <3>5. QED
      BY <1>1, <3>3, <3>4, DueIsDue
  <2>8. ~PollTimer /\ ~ReadDevice /\ ~Finish
    BY DEF PollTimer, ReadDevice, Finish, timers
  <2>9. QED
    BY <2>2, <2>3, <2>4, <2>5, <2>6, <2>7, <2>8 DEF Next, Serve
<1>2. IInv /\ [Next]_vars => [Early]_vars
  BY <1>1
<1>3. QED
  BY <1>2, Invariance, PTL DEF Spec, NeverEarly

(* What the periods must keep to for the 32-bit product not to wrap: 2^32  *)
(* are 11.9 hours at 100 ticks per second, the program asks for 8 at most. *)
AskedFits == \A ms \in Asked : TicksPerSecond * ms + 999 < MsWord

\* Rounding up to whole ticks is rounding up.
LEMMA RoundsUp ==
    ASSUME NEW a \in Nat, a + 999 < MsWord
    PROVE  1000 * (((a + 999) % MsWord) \div 1000) >= a
<1>1. (a + 999) % MsWord = a + 999
  BY SvTimerAssumption
<1>2. 1000 * ((a + 999) \div 1000) + ((a + 999) % 1000) = a + 999 /\ (a + 999) % 1000 <= 999
  OBVIOUS
<1>3. QED
  BY <1>1, <1>2

(* service.cpp:583 and :684: timer_timeout never makes a period shorter    *)
(* than the one that was asked for, as long as the product fits its word.  *)
THEOREM PeriodsKept ==
    ASSUME AskedFits
    PROVE  Spec => PeriodHonoured
<1>1. ASSUME TypeOK, NEW t \in Timers, NEW ms \in Asked, SetPeriod(t, ms)
      PROVE  1000 * init_tick'[t] >= TicksPerSecond * ms
  <2>1. init_tick'[t] = sv_tick_from_millisecond(ms)
    BY <1>1 DEF SetPeriod, TypeOK
  <2>2. TicksPerSecond * ms \in Nat
    <3>1. TicksPerSecond \in Nat /\ ms \in Nat
      BY SvTimerAssumption
    <3>2. QED
      BY <3>1
  <2>3. QED
    BY <2>1, <2>2, AskedFits, RoundsUp DEF AskedFits, sv_tick_from_millisecond
<1>2. TypeOK => \A t \in Timers, ms \in Asked :
                  SetPeriod(t, ms) => 1000 * init_tick'[t] >= TicksPerSecond * ms
  BY <1>1
<1>3. QED
  BY <1>2, TypeCorrect, PTL DEF PeriodHonoured
================================================================================
