---------------------------- MODULE ForegroundProofs ---------------------------
(***************************************************************************)
(* Proofs about the foreground's composition.                              *)
(*                                                                         *)
(* EventLoop, for every pool size and every set of requests, and wherever  *)
(* an interrupt may post, also where the walk over the list can go astray: *)
(* types and wake-up hold; the queue and the batch that is being walked    *)
(* stay whole circles until a post is given a slot that is still linked;   *)
(* and until then the loop implements EventQueue.                          *)
(*                                                                         *)
(* Vectors, for every table of drivers, priorities and depth of sections:  *)
(* the theorems of BasisProofs, in the specification that is checked; and  *)
(* those of the structures, for every size.                                *)
(*                                                                         *)
(* MeasureDrive, for every length of a block: the pins, the converter, the *)
(* stages of the measurement, and the three together.                      *)
(*                                                                         *)
(* Device, for every number of requests: what a request, a read and a call *)
(* find on the way from reset to the loop.                                 *)
(*                                                                         *)
(* LineSetup, for every length of a line: what the registers are set to,   *)
(* and that lines leave whole.                                             *)
(***************************************************************************)
EXTENDS MCForeground, FiniteSetTheorems, SequenceTheorems, WellFoundedInduction, TLAPS

\* The two list heads are nodes of their own.
LEMMA HeadsApart ==
    /\ QueueHead \in Nodes /\ BatchHead \in Nodes /\ QueueHead # BatchHead
    /\ QueueHead \notin Slots /\ BatchHead \notin Slots
    /\ Slots \subseteq Nodes
BY EventLoopAssumption DEF QueueHead, BatchHead, Slots, Nodes

\* list_insert_after of a slot makes the queue lead to that slot.
LEMMA InsertLinks ==
    ASSUME TypeOK, NEW i \in Slots, list_insert_after(QueueHead, i)
    PROVE  /\ m_next' \in [Nodes -> Nodes] /\ m_prev' \in [Nodes -> Nodes]
           /\ m_next'[QueueHead] = i
BY HeadsApart DEF TypeOK, list_insert_after

\* list_splice_init leaves the queue empty.
LEMMA SpliceLinks ==
    ASSUME TypeOK, list_splice_init(QueueHead, BatchHead)
    PROVE  /\ m_next' \in [Nodes -> Nodes] /\ m_prev' \in [Nodes -> Nodes]
           /\ m_next'[QueueHead] = QueueHead
<1>1. CASE list_empty(QueueHead)
  BY <1>1, HeadsApart DEF TypeOK, list_splice_init, list_empty
<1>2. CASE ~list_empty(QueueHead)
  BY <1>2, HeadsApart DEF TypeOK, list_splice_init, list_empty
<1>3. QED
  BY <1>1, <1>2

\* Which point it is.
LEMMA VisitGoes ==
    ASSUME NEW n, Visit(n)
    PROVE  pos' = n /\ (n = BatchHead => pc' = "poll") /\ (n \in Slots => pc' = "call")
BY HeadsApart DEF Visit

\* Where list_for_each goes is a node, and the loop is at one of its points there.
LEMMA VisitType ==
    ASSUME NEW n \in Nodes, Visit(n) PROVE pos' \in Nodes /\ pc' \in Points \ {"read", "splice"}
BY DEF Visit, Points, IdlePoints, WalkPoints

--------------------------------------------------------------------------------
(* Type correctness.                                                       *)

\* The list of events starts well typed.
LEMMA TypeInit == Init => TypeOK
BY EventLoopAssumption DEF Init, TypeOK, Slots, Nodes, Points, IdlePoints, BatchHead

\* Every step of the loop and of the interrupts keeps the types.
LEMMA TypeStep == TypeOK /\ [Next]_vars => TypeOK'
<1> SUFFICES ASSUME TypeOK, [Next]_vars PROVE TypeOK'
  OBVIOUS
<1>1. ASSUME NEW req \in Requests, run_inloop(req) PROVE TypeOK'
  <2>1. PICK i \in Slots :
           /\ m_bitmap' = m_bitmap \cup {i}
           /\ m_index' = [m_index EXCEPT ![i] = StackEventIndex]
           /\ m_param' = [m_param EXCEPT ![i] = req]
           /\ list_insert_after(QueueHead, i)
    BY <1>1 DEF run_inloop, LowestFree
  <2>2. StackEventIndex \in Slots
    BY EventLoopAssumption DEF StackEventIndex, Slots
  <2>3. m_next' \in [Nodes -> Nodes] /\ m_prev' \in [Nodes -> Nodes]
    BY <2>1, InsertLinks
  <2>4. QED
    BY <1>1, <2>1, <2>2, <2>3 DEF TypeOK, run_inloop
<1>2. CASE Poll
  BY <1>2 DEF Poll, TypeOK, pool, links, Points, IdlePoints
<1>3. CASE ReadDevice
  BY <1>3 DEF ReadDevice, TypeOK, pool, links, Points, IdlePoints
<1>4. CASE Splice
  <2>1. /\ m_next' \in [Nodes -> Nodes] /\ m_prev' \in [Nodes -> Nodes]
    BY <1>4, SpliceLinks DEF Splice
  <2>2. pos' \in Nodes /\ pc' \in Points
    <3>1. m_next'[BatchHead] \in Nodes /\ Visit(m_next'[BatchHead])
      BY <1>4, <2>1, HeadsApart DEF Splice
    <3>2. QED
      BY <3>1, VisitType
  <2>3. QED
    BY <1>4, <2>1, <2>2 DEF Splice, TypeOK, pool
<1>5. CASE Call
  BY <1>5 DEF Call, TypeOK, pool, links, Points, WalkPoints
<1>6. CASE FreeLoad
  BY <1>6 DEF FreeLoad, TypeOK, pool, links, Points, WalkPoints
<1>7. CASE FreeStore
  BY <1>7 DEF FreeStore, TypeOK, links, Points, WalkPoints
<1>8. CASE Advance
  <2>1. pos' \in Nodes /\ pc' \in Points
    <3>1. m_next[pos] \in Nodes /\ Visit(m_next[pos])
      BY <1>8 DEF Advance, TypeOK
    <3>2. QED
      BY <3>1, VisitType
  <2>2. QED
    BY <1>8, <2>1 DEF Advance, TypeOK, pool, links
<1>9. CASE UNCHANGED vars
  BY <1>9 DEF vars, TypeOK
<1>10. QED
  BY <1>1, <1>2, <1>3, <1>4, <1>5, <1>6, <1>7, <1>8, <1>9
     DEF Next, Foreground, run_inloop_fails

(* Slots, indices, links and program points stay within their types; the   *)
(* links in particular never leave the pool and the two heads.             *)
THEOREM TypeCorrect == Spec => []TypeOK
<1>1. Init => TypeOK
  BY TypeInit
<1>2. TypeOK /\ [Next]_vars => TypeOK'
  BY TypeStep
<1>3. QED
  BY <1>1, <1>2, PTL DEF Spec

--------------------------------------------------------------------------------
(* No lost wake-up.                                                        *)

\* Every step keeps a queued event within the sight of the loop.
LEMMA WakeupStep == TypeOK /\ NoLostWakeup /\ [Next]_vars => NoLostWakeup'
<1> SUFFICES ASSUME TypeOK, NoLostWakeup, [Next]_vars PROVE NoLostWakeup'
  OBVIOUS
\* The interrupt: the event is linked and the device counts it.
<1>1. ASSUME NEW req \in Requests, run_inloop(req) PROVE NoLostWakeup'
  <2>1. s_event' = s_event + 1 /\ s_event \in Nat
    BY <1>1 DEF run_inloop, TypeOK
  <2>2. s_event' # 0
    BY <2>1
  <2>3. QED
    BY <2>2 DEF NoLostWakeup
\* The two steps that clear the device are on the way to the splice, or are it.
<1>2. CASE Poll
  BY <1>2 DEF Poll, NoLostWakeup
<1>3. CASE ReadDevice
  BY <1>3 DEF ReadDevice, NoLostWakeup
<1>4. CASE Splice
  <2>1. m_next'[QueueHead] = QueueHead
    BY <1>4, SpliceLinks DEF Splice
  <2>2. QED
    BY <2>1 DEF NoLostWakeup, list_empty
\* The walk leaves both the queue and the device alone.
<1>5. CASE Call
  BY <1>5 DEF Call, NoLostWakeup, list_empty, links
<1>6. CASE FreeLoad
  BY <1>6 DEF FreeLoad, NoLostWakeup, list_empty, links
<1>7. CASE FreeStore
  BY <1>7 DEF FreeStore, NoLostWakeup, list_empty, links
<1>8. CASE Advance
  BY <1>8 DEF Advance, NoLostWakeup, list_empty, links
<1>9. CASE UNCHANGED vars
  BY <1>9 DEF vars, NoLostWakeup, list_empty
<1>10. QED
  BY <1>1, <1>2, <1>3, <1>4, <1>5, <1>6, <1>7, <1>8, <1>9
     DEF Next, Foreground, run_inloop_fails

(* Whatever the interrupt posts, and wherever it cuts into the loop, an    *)
(* event on m_list_event is announced: poller::poll will see the device,   *)
(* or event_handle is about to splice the list.                            *)
THEOREM NoEventForgotten == Spec => []NoLostWakeup
<1>1. Init => NoLostWakeup
  BY HeadsApart DEF Init, NoLostWakeup, list_empty
<1>2. QED
  BY <1>1, WakeupStep, TypeCorrect, PTL DEF Spec

--------------------------------------------------------------------------------
(* Induction, over sets of numbers.                                        *)

\* A set of naturals has a least one.
LEMMA Least ==
    ASSUME NEW S, S \subseteq Nat, S # {}
    PROVE  \E m \in S : \A k \in S : m <= k
<1>1. \E m \in S : \A k \in S : ~ (<<k, m>> \in OpToRel(<, Nat))
  BY NatLessThanWellFounded, WFMin
<1>2. PICK m \in S : \A k \in S : ~ (<<k, m>> \in OpToRel(<, Nat))
  BY <1>1
<1>3. \A k \in S : ~ (k < m)
  BY <1>2 DEF OpToRel
<1>4. \A k \in S : m <= k
  BY <1>3
<1>5. QED
  BY <1>4

\* A set that has 0 and the successor of each of its numbers has them all.
LEMMA SetInduction ==
    ASSUME NEW S, 0 \in S, \A n \in Nat : n \in S => n + 1 \in S
    PROVE  Nat \subseteq S
<1> DEFINE Bad == Nat \ S
<1>1. SUFFICES ASSUME Bad # {} PROVE FALSE
  OBVIOUS
<1>2. PICK m \in Bad : \A k \in Bad : m <= k
  <2> HIDE DEF Bad
  <2> QED BY <1>1, Least, Bad \subseteq Nat DEF Bad
<1>3. m # 0 /\ m \in Nat
  OBVIOUS
<1>4. m - 1 \in Nat /\ m - 1 \notin Bad
  BY <1>2, <1>3
<1>5. QED
  BY <1>4, <1>2, <1>3

--------------------------------------------------------------------------------
(* Chains: what Steps and Chain return for a list that is one.             *)

\* w follows f from n for N steps.
WalkUpTo(f, n, w, N) == w = [k \in 0 .. N |-> IF k = 0 THEN n ELSE f[w[k - 1]]]

\* There is such a walk, whatever f is.
LEMMA WalkExists ==
    ASSUME NEW f, NEW n, NEW N \in Nat PROVE \E w : WalkUpTo(f, n, w, N)
<1> DEFINE Good == {M \in Nat : \E w : WalkUpTo(f, n, w, M)}
<1>1. 0 \in Good
  <2> DEFINE one == [k \in 0 .. 0 |-> n]
  <2>1. WalkUpTo(f, n, one, 0)
    BY DEF WalkUpTo
  <2>2. QED BY <2>1
<1>2. ASSUME NEW M \in Nat, M \in Good PROVE M + 1 \in Good
  <2>1. PICK w : WalkUpTo(f, n, w, M)
    BY <1>2
  <2> DEFINE v == [k \in 0 .. M + 1 |-> IF k = 0 THEN n ELSE f[w[k - 1]]]
  <2>2. \A k \in 0 .. M : v[k] = w[k]
    BY <2>1 DEF WalkUpTo
  <2>3. \A k \in 0 .. M + 1 : v[k] = IF k = 0 THEN n ELSE f[v[k - 1]]
    <3>1. TAKE k \in 0 .. M + 1
    <3>2. CASE k = 0 BY <3>2
    <3>3. CASE k # 0
      <4>1. k - 1 \in 0 .. M
        BY <3>3
      <4>2. QED BY <4>1, <3>3, <2>2
    <3>4. QED BY <3>2, <3>3
  <2>4. WalkUpTo(f, n, v, M + 1)
    <3> HIDE DEF v
    <3>1. v = [k \in 0 .. M + 1 |-> v[k]]
      BY DEF v
    <3> QED BY <2>3, <3>1 DEF WalkUpTo
  <2>5. QED BY <2>4
<1>3. N \in Good
  <2> HIDE DEF Good
  <2> QED BY <1>1, <1>2, SetInduction
<1>4. QED BY <1>3

\* So the recursive function of Steps is one.
LEMMA StepsWalk ==
    ASSUME NEW f, NEW n PROVE WalkUpTo(f, n, Steps(f, n), NSlots)
<1>1. NSlots \in Nat
  BY EventLoopAssumption
<1>2. \E w : WalkUpTo(f, n, w, NSlots)
  BY <1>1, WalkExists
<1>3. QED
  BY <1>2 DEF WalkUpTo, Steps

\* q is what f links from start up to stop.
Path(f, start, q, stop) ==
    /\ start = IF Len(q) = 0 THEN stop ELSE q[1]
    /\ \A k \in 1 .. Len(q) : f[q[k]] = IF k = Len(q) THEN stop ELSE q[k + 1]

\* No node twice.
Distinct(q) == \A j, k \in 1 .. Len(q) : j # k => q[j] # q[k]

\* The links of a path, by node.
LEMMA PathLinks ==
    ASSUME NEW f, NEW start, NEW q \in Seq(Slots), NEW stop, Path(f, start, q, stop), Len(q) # 0
    PROVE  /\ start = q[1] /\ f[q[Len(q)]] = stop
           /\ \A k \in 1 .. Len(q) : k # Len(q) => f[q[k]] = q[k + 1]
           /\ Len(q) # 1 => f[q[1]] = q[2]
<1>1. Len(q) \in Nat \ {0} /\ 1 \in 1 .. Len(q) /\ Len(q) \in 1 .. Len(q)
  OBVIOUS
<1>2. start = q[1] /\ \A k \in 1 .. Len(q) : f[q[k]] = IF k = Len(q) THEN stop ELSE q[k + 1]
  BY DEF Path
<1>3. \A k \in 1 .. Len(q) : k # Len(q) => f[q[k]] = q[k + 1]
  BY <1>2
<1>4. f[q[Len(q)]] = stop
  BY <1>1, <1>2
<1>5. Len(q) # 1 => f[q[1]] = q[1 + 1]
  BY <1>1, <1>3
<1>6. 1 + 1 = 2
  OBVIOUS
<1>7. QED
  BY <1>2, <1>3, <1>4, <1>5, <1>6

\* No list of distinct slots is longer than the pool.
LEMMA DistinctBound == ASSUME NEW q \in Seq(Slots), Distinct(q) PROVE Len(q) <= NSlots
<1>1. Slots = 0 .. NSlots - 1 /\ NSlots \in Nat \ {0} /\ 0 \in Int /\ NSlots - 1 \in Int
  BY EventLoopAssumption DEF Slots
<1>2. IsFiniteSet(Slots) /\ Cardinality(Slots) = NSlots
  <2>1. IsFiniteSet(0 .. NSlots - 1) /\ Cardinality(0 .. NSlots - 1) = IF 0 > NSlots - 1 THEN 0 ELSE NSlots - 1 - 0 + 1
    BY <1>1, FS_Interval
  <2>2. QED BY <2>1, <1>1
<1>3. Len(q) \in Nat /\ q \in [1 .. Len(q) -> Slots]
  OBVIOUS
<1>4. IsFiniteSet(1 .. Len(q)) /\ Cardinality(1 .. Len(q)) = Len(q)
  BY <1>3, FS_Interval
<1>5. SUFFICES ASSUME NSlots < Len(q) PROVE FALSE
  BY <1>1, <1>3
<1>6. \E x, y \in 1 .. Len(q) : x # y /\ q[x] = q[y]
  BY <1>2, <1>3, <1>4, <1>5, FS_PigeonHole
<1>7. QED BY <1>6 DEF Distinct

\* What a path runs through is the chain that the properties speak of.
LEMMA PathIsChain ==
    ASSUME NEW f, NEW start, NEW q \in Seq(Slots), NEW stop, stop \notin Slots, Distinct(q),
           Path(f, start, q, stop)
    PROVE  Reaches(f, start, stop) /\ Chain(f, start, stop) = q
<1> DEFINE w == Steps(f, start)
           n == Len(q)
           Same == {k \in Nat : k <= n => w[k] = IF k = n THEN stop ELSE q[k + 1]}
<1>1. NSlots \in Nat /\ n \in Nat /\ n <= NSlots
  BY DistinctBound, EventLoopAssumption
<1>2. \A k \in 0 .. NSlots : w[k] = IF k = 0 THEN start ELSE f[w[k - 1]]
  <2> HIDE DEF w
  <2>1. WalkUpTo(f, start, w, NSlots)
    BY StepsWalk DEF w
  <2>2. QED BY <2>1 DEF WalkUpTo
<1> HIDE DEF w
<1>3. 0 \in Same
  BY <1>1, <1>2 DEF Path
<1>4. ASSUME NEW k \in Nat, k \in Same PROVE k + 1 \in Same
  <2>1. SUFFICES ASSUME k + 1 <= n PROVE w[k + 1] = IF k + 1 = n THEN stop ELSE q[k + 2]
    BY <1>1
  <2>2. w[k + 1] = f[w[k]]
    BY <1>1, <1>2, <2>1
  <2>3. w[k] = q[k + 1] /\ k + 1 \in 1 .. n
    BY <1>1, <1>4, <2>1
  <2>4. QED BY <2>2, <2>3, <1>1 DEF Path
<1>5. \A k \in 0 .. n : w[k] = IF k = n THEN stop ELSE q[k + 1]
  <2>1. Nat \subseteq Same
    <3> HIDE DEF Same
    <3> QED BY <1>3, <1>4, SetInduction
  <2>2. QED BY <2>1, <1>1
<1>6. w[n] = stop /\ \A k \in 0 .. n - 1 : w[k] = q[k + 1] /\ w[k] # stop
  BY <1>5, <1>1
<1>7. Reaches(f, start, stop)
  BY <1>6, <1>1 DEF Reaches, w
<1> DEFINE len == CHOOSE k \in 0 .. NSlots : w[k] = stop /\ \A j \in 0 .. k - 1 : w[j] # stop
<1>8. len = n
  <2>1. n \in 0 .. NSlots /\ w[n] = stop /\ \A j \in 0 .. n - 1 : w[j] # stop
    BY <1>6, <1>1
  <2>2. len \in 0 .. NSlots /\ w[len] = stop /\ \A j \in 0 .. len - 1 : w[j] # stop
    BY <2>1
  <2> HIDE DEF len
  <2>3. ~ (len < n) /\ ~ (n < len)
    BY <2>1, <2>2, <1>1
  <2>4. QED BY <2>2, <2>3, <1>1
<1>9. Chain(f, start, stop) = [k \in 1 .. len |-> w[k - 1]]
  BY DEF Chain, w
<1>10. \A k \in 1 .. n : w[k - 1] = q[k]
  BY <1>6, <1>1
<1>11. q = [k \in 1 .. n |-> q[k]]
  OBVIOUS
<1> HIDE DEF len, n
<1>12. QED BY <1>7, <1>8, <1>9, <1>10, <1>11

--------------------------------------------------------------------------------
(* The two lists, wherever interrupts may post: each is a circle of slots  *)
(* that are distinct and not on the other.                                 *)

\* The queue: from its head along m_next through its slots and back, and
\* m_prev of the head is the last of them.
QueueIs(p) ==
    /\ Distinct(p) /\ Path(m_next, m_next[QueueHead], p, QueueHead)
    /\ m_prev[QueueHead] = IF Len(p) = 0 THEN QueueHead ELSE p[Len(p)]

\* What the walk has before it: from pos on to the head it took the queue to.
BatchIs(q) ==
    /\ Len(q) # 0 /\ pos = q[1]
    /\ Distinct(q) /\ Path(m_next, pos, q, BatchHead)

\* No slot is on both.
Apart(p, q) == \A j \in 1 .. Len(p), k \in 1 .. Len(q) : p[j] # q[k]

Circles(p, q) ==
    /\ QueueIs(p) /\ Apart(p, q)
    /\ \/ pc \in IdlePoints /\ q = <<>>
       \/ pc \in WalkPoints /\ BatchIs(q)

ListsWhole == \E p, q \in Seq(Slots) : Circles(p, q)

\* Slot i is queued, or the walk is at it or has it before it.
Walked == Chain(m_next, pos, BatchHead)
Linked(i) == \/ \E k \in DOMAIN Queued : Queued[k] = i
             \/ pc \in WalkPoints /\ \E k \in DOMAIN Walked : Walked[k] = i

\* A write is given a slot that is still linked: one freed before the walk
\* has read its link, or one whose bit event_free has stored away.
Reuse == /\ \E req \in Requests : run_inloop(req)
         /\ \E i \in Slots : LowestFree(i) /\ Linked(i)

\* A point is idle or of the walk.
LEMMA PointsApart == IdlePoints \cap WalkPoints = {} /\ "wild" \notin IdlePoints \cup WalkPoints
BY DEF IdlePoints, WalkPoints

\* An element in front of a sequence.
LEMMA Consed ==
    ASSUME NEW p \in Seq(Slots), NEW i \in Slots
    PROVE  /\ <<i>> \o p \in Seq(Slots)
           /\ Len(<<i>> \o p) = Len(p) + 1 /\ Len(p) \in Nat /\ (<<i>> \o p)[1] = i
           /\ \A k \in 1 .. Len(p) : (<<i>> \o p)[k + 1] = p[k] /\ p[k] \in Slots
           /\ \A k \in 2 .. Len(<<i>> \o p) : k - 1 \in 1 .. Len(p) /\ (<<i>> \o p)[k] = p[k - 1]
<1>1. Len(<<i>> \o p) = Len(p) + 1 /\ Len(p) \in Nat /\ (<<i>> \o p)[1] = i
  OBVIOUS
<1>2. \A k \in 1 .. Len(p) : (<<i>> \o p)[k + 1] = p[k] /\ p[k] \in Slots
  OBVIOUS
<1>3. ASSUME NEW k \in 2 .. Len(p) + 1 PROVE k - 1 \in 1 .. Len(p) /\ (<<i>> \o p)[k] = p[k - 1]
  <2>1. k - 1 \in 1 .. Len(p) /\ (k - 1) + 1 = k
    BY <1>1
  <2>2. QED
    BY <1>2, <2>1
<1>4. QED
  BY <1>1, <1>2, <1>3

\* run_inloop puts a slot that is not queued at the head of the queue.
LEMMA PostQueues ==
    ASSUME TypeOK, NEW q \in Seq(Slots), QueueIs(q), NEW i \in Slots,
           \A k \in 1 .. Len(q) : q[k] # i, list_insert_after(QueueHead, i)
    PROVE  QueueIs(<<i>> \o q)' /\ \A n \in Slots \ {i} : m_next'[n] = m_next[n]
<1> DEFINE p == <<i>> \o q
<1>1. /\ Len(p) = Len(q) + 1 /\ Len(q) \in Nat /\ p[1] = i
      /\ \A k \in 1 .. Len(q) : p[k + 1] = q[k] /\ q[k] \in Slots /\ q[k] # i
      /\ \A k \in 2 .. Len(p) : k - 1 \in 1 .. Len(q) /\ p[k] = q[k - 1]
  BY Consed
<1>2. i # QueueHead /\ i \in Nodes /\ QueueHead \in Nodes /\ QueueHead \notin Slots
  BY HeadsApart
<1>3. /\ m_next'[QueueHead] = i
      /\ m_next'[i] = m_next[QueueHead]
      /\ \A n \in Slots \ {i} : m_next'[n] = m_next[n]
  BY <1>2, HeadsApart DEF TypeOK, list_insert_after
<1>4. m_prev'[QueueHead] = IF m_next[QueueHead] = QueueHead THEN i ELSE m_prev[QueueHead]
  BY <1>2, HeadsApart DEF TypeOK, list_insert_after
<1>5. m_next[QueueHead] = IF Len(q) = 0 THEN QueueHead ELSE q[1]
  <2>1. Path(m_next, m_next[QueueHead], q, QueueHead)
    BY DEF QueueIs
  <2>2. QED
    BY <2>1 DEF Path
<1> HIDE DEF p
<1>6. Distinct(p)
  <2>1. \A j, k \in 1 .. Len(q) : j # k => q[j] # q[k]
    BY DEF Distinct, QueueIs
  <2>2. QED
    BY <1>1, <2>1 DEF Distinct
<1>7. Path(m_next', m_next'[QueueHead], p, QueueHead)
  <2>1. m_next'[QueueHead] = IF Len(p) = 0 THEN QueueHead ELSE p[1]
    BY <1>1, <1>3
  <2>2. ASSUME NEW k \in 1 .. Len(p) PROVE m_next'[p[k]] = IF k = Len(p) THEN QueueHead ELSE p[k + 1]
    <3>1. CASE k = 1
      BY <3>1, <1>1, <1>3, <1>5
    <3>2. CASE k # 1
      <4>1. k - 1 \in 1 .. Len(q) /\ p[k] = q[k - 1] /\ p[k] \in Slots \ {i}
        BY <3>2, <1>1
      <4>2. m_next[q[k - 1]] = IF k - 1 = Len(q) THEN QueueHead ELSE q[k]
        <5>1. \A j \in 1 .. Len(q) : m_next[q[j]] = IF j = Len(q) THEN QueueHead ELSE q[j + 1]
          BY DEF QueueIs, Path
        <5>2. (k - 1) + 1 = k
          BY <4>1
        <5>3. QED
          BY <4>1, <5>1, <5>2
      <4>3. k # Len(p) => k \in 1 .. Len(q) /\ p[k + 1] = q[k]
        BY <3>2, <1>1
      <4>5. m_next'[p[k]] = m_next[q[k - 1]] /\ (k - 1 = Len(q) <=> k = Len(p))
        BY <4>1, <1>1, <1>3
      <4>4. QED
        BY <4>2, <4>3, <4>5
    <3>3. QED
      BY <3>1, <3>2
  <2>3. QED
    BY <2>1, <2>2 DEF Path
<1>8. m_prev'[QueueHead] = IF Len(p) = 0 THEN QueueHead ELSE p[Len(p)]
  <2>1. CASE Len(q) = 0
    BY <2>1, <1>1, <1>4, <1>5
  <2>2. CASE Len(q) # 0
    <3>1. q[1] \in Slots /\ m_next[QueueHead] # QueueHead
      BY <2>2, <1>1, <1>2, <1>5
    <3>2. m_prev[QueueHead] = q[Len(q)] /\ p[Len(p)] = q[Len(q)]
      BY <2>2, <1>1 DEF QueueIs
    <3>3. QED
      BY <3>1, <3>2, <1>1, <1>4
  <2>3. QED
    BY <2>1, <2>2
<1>10. QueueIs(p)'
  BY <1>6, <1>7, <1>8 DEF QueueIs
<1>11. QED
  BY <1>3, <1>10 DEF p

\* The walk does not see it, if the slot is none of the walk's.
LEMMA PostSpares ==
    ASSUME NEW q \in Seq(Slots), BatchIs(q), NEW i, \A k \in 1 .. Len(q) : q[k] # i, pos' = pos,
           \A n \in Slots \ {i} : m_next'[n] = m_next[n]
    PROVE  BatchIs(q)'
<1>1. \A k \in 1 .. Len(q) : m_next'[q[k]] = m_next[q[k]]
  OBVIOUS
<1>2. QED
  BY <1>1 DEF BatchIs, Path

\* With nothing queued the splice changes neither list.
LEMMA SpliceNothing ==
    ASSUME TypeOK, NEW q \in Seq(Slots), QueueIs(q), Len(q) = 0,
           list_splice_init(QueueHead, BatchHead)
    PROVE  QueueIs(q)' /\ m_next'[BatchHead] = BatchHead
<1>1. list_empty(QueueHead)
  BY DEF QueueIs, Path, list_empty
<1>2. /\ m_next'[QueueHead] = QueueHead /\ m_prev'[QueueHead] = m_prev[QueueHead]
      /\ m_next'[BatchHead] = BatchHead
  BY <1>1, HeadsApart DEF TypeOK, list_splice_init, list_empty
<1>3. QED
  BY <1>2 DEF QueueIs, Path

\* The node the splice puts behind the other head is the first of the queue.
LEMMA SpliceFirst ==
    ASSUME TypeOK, m_next[QueueHead] \in Slots, m_prev[QueueHead] \in Slots,
           list_splice_init(QueueHead, BatchHead)
    PROVE  m_next'[BatchHead] = m_next[QueueHead]
<1>1. ~list_empty(QueueHead)
  BY HeadsApart DEF list_empty
<1>2. m_next' = [m_next EXCEPT ![BatchHead] = m_next[QueueHead], ![m_prev[QueueHead]] = BatchHead,
                               ![QueueHead] = QueueHead]
  BY <1>1 DEF list_splice_init
<1>3. QED
  BY <1>2, HeadsApart DEF TypeOK

\* Otherwise it moves the queue, all of it and in its order, to the walk.
LEMMA SpliceMoves ==
    ASSUME TypeOK, NEW q \in Seq(Slots), QueueIs(q), Len(q) # 0,
           list_splice_init(QueueHead, BatchHead), pos' = q[1]
    PROVE  BatchIs(q)' /\ QueueIs(<<>>)'
<1>1. Len(q) \in Nat \ {0} /\ \A k \in 1 .. Len(q) : q[k] \in Slots
  OBVIOUS
<1>2. m_next[QueueHead] = q[1] /\ m_prev[QueueHead] = q[Len(q)] /\ q[1] \in Slots /\ q[Len(q)] \in Slots
  BY <1>1 DEF QueueIs, Path
<1>3. ~list_empty(QueueHead)
  BY <1>2, HeadsApart DEF list_empty
<1>4. /\ m_next' = [m_next EXCEPT ![BatchHead] = q[1], ![q[Len(q)]] = BatchHead, ![QueueHead] = QueueHead]
      /\ m_prev'[QueueHead] = QueueHead
  BY <1>2, <1>3, HeadsApart DEF TypeOK, list_splice_init
<1>5. /\ m_next'[QueueHead] = QueueHead /\ m_next'[BatchHead] = q[1]
      /\ m_next'[q[Len(q)]] = BatchHead
      /\ \A n \in Slots \ {q[Len(q)]} : m_next'[n] = m_next[n]
  BY <1>2, <1>4, HeadsApart DEF TypeOK
<1>6. Distinct(q)
  BY DEF QueueIs
<1>7. ASSUME NEW k \in 1 .. Len(q) PROVE m_next'[q[k]] = IF k = Len(q) THEN BatchHead ELSE q[k + 1]
  <2>1. CASE k = Len(q)
    BY <2>1, <1>5
  <2>2. CASE k # Len(q)
    <3>1. q[k] \in Slots /\ q[k] # q[Len(q)]
      BY <2>2, <1>1, <1>6 DEF Distinct
    <3>2. m_next[q[k]] = q[k + 1]
      BY <2>2 DEF QueueIs, Path
    <3>3. QED
      BY <2>2, <3>1, <3>2, <1>5
  <2>3. QED
    BY <2>1, <2>2
<1>8. Path(m_next', q[1], q, BatchHead)
  BY <1>1, <1>7 DEF Path
<1>9. BatchIs(q)'
  BY <1>1, <1>6, <1>8 DEF BatchIs
<1>10. QueueIs(<<>>)'
  BY <1>4, <1>5 DEF QueueIs, Path, Distinct
<1>11. QED
  BY <1>9, <1>10

\* list_for_each goes on with the rest of its list.
LEMMA WalkOn ==
    ASSUME TypeOK, NEW q \in Seq(Slots), BatchIs(q), pos' = m_next[pos], UNCHANGED links
    PROVE  /\ Len(q) = 1 => pos' = BatchHead
           /\ Len(q) # 1 => /\ pos' \in Slots /\ BatchIs(Tail(q))' /\ Tail(q) \in Seq(Slots)
                            /\ \A k \in 1 .. Len(Tail(q)) : Tail(q)[k] = q[k + 1] /\ k + 1 \in 1 .. Len(q)
<1> DEFINE p == Tail(q)
<1>1. /\ Len(q) \in Nat \ {0} /\ pos = q[1]
      /\ m_next[q[1]] = IF Len(q) = 1 THEN BatchHead ELSE q[2]
  <2>1. Len(q) \in Nat \ {0} /\ Len(q) # 0 /\ pos = q[1] /\ Path(m_next, pos, q, BatchHead)
    BY DEF BatchIs
  <2> HIDE DEF p
  <2>2. m_next[q[Len(q)]] = BatchHead
    BY <2>1, PathLinks
  <2>3. Len(q) # 1 => m_next[q[1]] = q[2]
    BY <2>1, PathLinks
  <2>4. QED
    BY <2>1, <2>2, <2>3
<1>2. m_next' = m_next
  BY DEF links
<1>3. CASE Len(q) = 1
  BY <1>1, <1>3
<1>4. CASE Len(q) # 1
  <2>1. /\ p \in Seq(Slots) /\ Len(p) = Len(q) - 1 /\ Len(p) \in Nat \ {0}
        /\ \A k \in 1 .. Len(p) : p[k] = q[k + 1] /\ k + 1 \in 1 .. Len(q)
    BY <1>1, <1>4
  <2>2. pos' = p[1] /\ pos' \in Slots
    BY <1>1, <1>4, <2>1
  <2> HIDE DEF p
  <2>3. Distinct(p)
    <3>1. \A j, k \in 1 .. Len(q) : j # k => q[j] # q[k]
      BY DEF Distinct, BatchIs
    <3>2. QED
      BY <2>1, <3>1 DEF Distinct
  <2>4. ASSUME NEW k \in 1 .. Len(p) PROVE m_next'[p[k]] = IF k = Len(p) THEN BatchHead ELSE p[k + 1]
    <3>0. \A j \in 1 .. Len(q) : m_next[q[j]] = IF j = Len(q) THEN BatchHead ELSE q[j + 1]
      BY DEF BatchIs, Path
    <3>1. k + 1 \in 1 .. Len(q) /\ m_next[q[k + 1]] = IF k + 1 = Len(q) THEN BatchHead ELSE q[(k + 1) + 1]
      BY <3>0, <2>1
    <3>2. k # Len(p) => k + 1 \in 1 .. Len(p) /\ p[k + 1] = q[(k + 1) + 1]
      BY <2>1
    <3>4. p[k] = q[k + 1] /\ (k = Len(p) <=> k + 1 = Len(q))
      BY <1>1, <2>1
    <3>3. QED
      BY <3>1, <3>2, <3>4, <1>2
  <2>5. Path(m_next', pos', p, BatchHead)
    BY <2>1, <2>2, <2>4 DEF Path
  <2>6. BatchIs(p)'
    BY <2>1, <2>2, <2>3, <2>5 DEF BatchIs
  <2>7. QED
    BY <2>1, <2>2, <2>6, <1>4 DEF p
<1>5. QED
  BY <1>3, <1>4

\* What Queued, ToCall and Linked see of the lists.
ListsAre(p, q) ==
    /\ Queued = p
    /\ ToCall = IF pc \in {"free", "clear", "next"} THEN Tail(q) ELSE q
    /\ \A k \in 1 .. Len(p) : Linked(p[k])
    /\ \A k \in 1 .. Len(q) : Linked(q[k])

\* They see those that are there.
LEMMA ListsSeen == \A p, q \in Seq(Slots) : Circles(p, q) => ListsAre(p, q)
<1> SUFFICES ASSUME NEW p \in Seq(Slots), NEW q \in Seq(Slots), Circles(p, q) PROVE ListsAre(p, q)
  OBVIOUS
<1>1. QueueHead \notin Slots /\ BatchHead \notin Slots
  BY HeadsApart
<1>2. Queued = p
  <2>1. Distinct(p) /\ Path(m_next, m_next[QueueHead], p, QueueHead)
    BY DEF Circles, QueueIs
  <2>2. QED
    BY <2>1, <1>1, PathIsChain DEF Queued
<1>3. \A k \in 1 .. Len(p) : Linked(p[k])
  BY <1>2 DEF Linked
<1>4. CASE pc \in IdlePoints
  <2>1. q = <<>>
    BY <1>4, PointsApart DEF Circles
  <2>2. ToCall = <<>> /\ pc \notin {"free", "clear", "next"}
    BY <1>4 DEF ToCall, IdlePoints
  <2>3. QED
    BY <2>1, <2>2, <1>2, <1>3 DEF ListsAre
<1>5. CASE pc \in WalkPoints
  <2>1. BatchIs(q)
    BY <1>5, PointsApart DEF Circles
  <2>2. Walked = q
    <3>1. Distinct(q) /\ Path(m_next, pos, q, BatchHead)
      BY <2>1 DEF BatchIs
    <3>2. QED
      BY <3>1, <1>1, PathIsChain DEF Walked
  <2>3. \A k \in 1 .. Len(q) : Linked(q[k])
    BY <2>2, <1>5 DEF Linked
  <2>4. Chain(m_next, m_next[pos], BatchHead) = Tail(q)
    <3> DEFINE rest == Tail(q)
    <3>0. /\ Len(q) \in Nat \ {0} /\ pos = q[1] /\ Distinct(q)
          /\ \A j \in 1 .. Len(q) : m_next[q[j]] = IF j = Len(q) THEN BatchHead ELSE q[j + 1]
      BY <2>1 DEF BatchIs, Path
    <3>1. /\ rest \in Seq(Slots) /\ Len(rest) = Len(q) - 1
          /\ \A k \in 1 .. Len(rest) : rest[k] = q[k + 1] /\ k + 1 \in 1 .. Len(q)
      BY <3>0
    <3> HIDE DEF rest
    <3>2. Distinct(rest)
      BY <3>0, <3>1 DEF Distinct
    <3>3. m_next[pos] = IF Len(rest) = 0 THEN BatchHead ELSE rest[1]
      <4>0. 1 \in 1 .. Len(q)
        BY <3>0
      <4>1. m_next[q[1]] = IF 1 = Len(q) THEN BatchHead ELSE q[1 + 1]
        BY <4>0, <3>0
      <4>2. QED
        BY <4>1, <3>0, <3>1
    <3>4. ASSUME NEW k \in 1 .. Len(rest)
          PROVE  m_next[rest[k]] = IF k = Len(rest) THEN BatchHead ELSE rest[k + 1]
      <4>1. rest[k] = q[k + 1] /\ k + 1 \in 1 .. Len(q)
        BY <3>1
      <4>2. k # Len(rest) => k + 1 \in 1 .. Len(rest) /\ k + 1 # Len(q)
        BY <3>0, <3>1
      <4>3. k # Len(rest) => rest[k + 1] = q[(k + 1) + 1]
        BY <4>2, <3>1
      <4>4. k = Len(rest) => k + 1 = Len(q)
        BY <3>0, <3>1
      <4>5. k # Len(rest) => m_next[q[k + 1]] = q[(k + 1) + 1]
        BY <4>1, <4>2, <3>0
      <4>6. k = Len(rest) => m_next[q[k + 1]] = BatchHead
        BY <4>1, <4>4, <3>0
      <4>7. QED
        BY <4>1, <4>3, <4>5, <4>6
    <3>5. Path(m_next, m_next[pos], rest, BatchHead)
      BY <3>3, <3>4 DEF Path
    <3>6. QED
      BY <3>1, <3>2, <3>5, <1>1, PathIsChain DEF rest
  <2>5. ToCall = IF pc \in {"free", "clear", "next"} THEN Tail(q) ELSE q
    BY <1>5, <2>2, <2>4 DEF ToCall, Walked, WalkPoints
  <2>6. QED
    BY <2>3, <2>5, <1>2, <1>3 DEF ListsAre
<1>6. QED
  BY <1>4, <1>5 DEF Circles

\* The loop starts with both lists empty.
LEMMA LoopInit == Init => <<>> \in Seq(Slots) /\ Circles(<<>>, <<>>)
BY HeadsApart DEF Init, Circles, QueueIs, Apart, Distinct, Path, IdlePoints

\* What a step makes of the lists p and q.
Posted(p, q) ==
    /\ pc' = pc
    /\ \E req \in Requests, i \in Slots :
         /\ \A k \in 1 .. Len(p) : p[k] # i
         /\ \A k \in 1 .. Len(q) : q[k] # i
         /\ m_param' = [m_param EXCEPT ![i] = req] /\ Circles(<<i>> \o p, q)'
Kept(p, q) ==
    /\ Circles(p, q)' /\ UNCHANGED m_param
    /\ pc \in {"free", "clear", "next"} <=> pc' \in {"free", "clear", "next"}
Taken(p, q) ==
    /\ Len(p) # 0 /\ q = <<>> /\ pc = "splice" /\ pc' = "call"
    /\ Circles(<<>>, p)' /\ UNCHANGED m_param
Called(p, q) == Len(q) # 0 /\ pc = "call" /\ pc' = "free" /\ Circles(p, q)' /\ UNCHANGED m_param
WalkedOn(p, q) ==
    /\ Len(q) # 0 /\ pc = "next" /\ UNCHANGED m_param
    /\ \/ Len(q) = 1 /\ pc' = "poll" /\ Circles(p, <<>>)'
       \/ Len(q) # 1 /\ pc' = "call" /\ Circles(p, Tail(q))'

\* A write that is given a slot of its own.
LEMMA PostOnLists ==
    ASSUME TypeOK, NEW p \in Seq(Slots), NEW q \in Seq(Slots), Circles(p, q),
           NEW req \in Requests, run_inloop(req), ~Reuse
    PROVE  Posted(p, q)
<1>1. PICK i \in Slots : /\ LowestFree(i) /\ m_param' = [m_param EXCEPT ![i] = req]
                         /\ list_insert_after(QueueHead, i)
  BY DEF run_inloop
<1>2. pc' = pc /\ pos' = pos
  BY DEF run_inloop
<1>3. ~Linked(i)
  BY <1>1 DEF Reuse
<1>4. (\A k \in 1 .. Len(p) : p[k] # i) /\ (\A k \in 1 .. Len(q) : q[k] # i)
  BY <1>3, ListsSeen DEF ListsAre
<1>5. QueueIs(<<i>> \o p)' /\ \A n \in Slots \ {i} : m_next'[n] = m_next[n]
  BY <1>1, <1>4, PostQueues DEF Circles
<1>6. Apart(<<i>> \o p, q)
  <2> DEFINE rest == <<i>> \o p
  <2>1. rest[1] = i /\ \A k \in 2 .. Len(rest) : k - 1 \in 1 .. Len(p) /\ rest[k] = p[k - 1]
    BY Consed
  <2>2. Len(rest) \in Nat
    BY Consed
  <2> HIDE DEF rest
  <2>3. ASSUME NEW j \in 1 .. Len(rest), NEW k \in 1 .. Len(q) PROVE rest[j] # q[k]
    <3>1. CASE j = 1
      BY <3>1, <2>1, <1>4
    <3>2. CASE j # 1
      <4>1. j - 1 \in 1 .. Len(p) /\ rest[j] = p[j - 1]
        BY <3>2, <2>1, <2>2
      <4>2. QED
        BY <4>1 DEF Circles, Apart
    <3>3. QED
      BY <3>1, <3>2
  <2>4. QED
    BY <2>3 DEF Apart, rest
<1>7. Circles(<<i>> \o p, q)'
  <2>1. CASE pc \in IdlePoints /\ q = <<>>
    BY <2>1, <1>2, <1>5, <1>6 DEF Circles, Apart
  <2>2. CASE pc \in WalkPoints /\ BatchIs(q)
    <3>1. BatchIs(q)'
      BY <2>2, <1>2, <1>4, <1>5, PostSpares
    <3>2. QED
      BY <2>2, <3>1, <1>2, <1>5, <1>6 DEF Circles, Apart
  <2>3. QED
    BY <2>1, <2>2 DEF Circles
<1>8. QED
  BY <1>1, <1>2, <1>4, <1>7 DEF Posted

\* The splice.
LEMMA SpliceOnLists ==
    ASSUME TypeOK, NEW p \in Seq(Slots), NEW q \in Seq(Slots), Circles(p, q), Splice
    PROVE  Kept(p, q) \/ Taken(p, q)
<1>1. /\ pc = "splice" /\ pc \in IdlePoints /\ list_splice_init(QueueHead, BatchHead)
      /\ Visit(m_next'[BatchHead]) /\ m_param' = m_param
  BY DEF Splice, pool, IdlePoints
<1>2. QueueIs(p) /\ q = <<>> /\ Len(p) \in Nat /\ \A k \in 1 .. Len(p) : p[k] \in Slots
  BY <1>1, PointsApart DEF Circles
<1>3. CASE Len(p) = 0
  <2>1. QueueIs(p)' /\ m_next'[BatchHead] = BatchHead
    BY <1>1, <1>2, <1>3, SpliceNothing
  <2>2. pc' = "poll" /\ pc' \in IdlePoints
    BY <1>1, <2>1, VisitGoes DEF IdlePoints
  <2>3. QED
    BY <1>1, <1>2, <2>1, <2>2 DEF Kept, Circles, Apart
<1>4. CASE Len(p) # 0
  <2>1. m_next[QueueHead] = p[1] /\ p[1] \in Slots
    BY <1>2, <1>4 DEF QueueIs, Path
  <2>2. m_prev[QueueHead] \in Slots
    BY <1>2, <1>4 DEF QueueIs
  <2>3. m_next'[BatchHead] = p[1]
    BY <1>1, <2>1, <2>2, SpliceFirst
  <2>4. pos' = p[1] /\ pc' = "call" /\ pc' \in WalkPoints
    BY <1>1, <2>1, <2>3, VisitGoes DEF WalkPoints
  <2>5. BatchIs(p)' /\ QueueIs(<<>>)'
    BY <1>1, <1>2, <1>4, <2>4, SpliceMoves
  <2>6. QED
    BY <1>1, <1>2, <1>4, <2>4, <2>5 DEF Taken, Circles, Apart
<1>5. QED
  BY <1>3, <1>4

\* The step from one event to the next.
LEMMA AdvanceOnLists ==
    ASSUME TypeOK, NEW p \in Seq(Slots), NEW q \in Seq(Slots), Circles(p, q), Advance
    PROVE  WalkedOn(p, q)
<1>1. pc = "next" /\ pc \in WalkPoints /\ Visit(m_next[pos]) /\ UNCHANGED links /\ m_param' = m_param
  BY DEF Advance, pool, WalkPoints
<1>2. BatchIs(q) /\ QueueIs(p)
  BY <1>1, PointsApart DEF Circles
<1>3. pos' = m_next[pos] /\ Len(q) # 0
  BY <1>1, <1>2 DEF Visit, BatchIs
<1>4. QueueIs(p)'
  BY <1>1, <1>2 DEF QueueIs, Path, links
<1>5. CASE Len(q) = 1
  <2>1. pos' = BatchHead
    BY <1>1, <1>2, <1>3, <1>5, WalkOn
  <2>2. pc' = "poll" /\ pc' \in IdlePoints
    BY <1>1, <1>3, <2>1, VisitGoes DEF IdlePoints
  <2>3. Circles(p, <<>>)'
    BY <1>4, <2>2 DEF Circles, Apart
  <2>4. QED
    BY <1>1, <1>3, <1>5, <2>2, <2>3 DEF WalkedOn
<1>6. CASE Len(q) # 1
  <2> DEFINE rest == Tail(q)
  <2>1. /\ pos' \in Slots /\ BatchIs(rest)' /\ rest \in Seq(Slots)
        /\ \A k \in 1 .. Len(rest) : rest[k] = q[k + 1] /\ k + 1 \in 1 .. Len(q)
    BY <1>1, <1>2, <1>3, <1>6, WalkOn
  <2> HIDE DEF rest
  <2>2. pc' = "call" /\ pc' \in WalkPoints
    BY <1>1, <1>3, <2>1, VisitGoes DEF WalkPoints
  <2>3. Apart(p, rest)
    BY <2>1 DEF Apart, Circles
  <2>4. Circles(p, rest)'
    BY <1>4, <2>1, <2>2, <2>3 DEF Circles, Apart
  <2>5. QED
    BY <1>1, <1>3, <1>6, <2>2, <2>4 DEF WalkedOn, rest
<1>7. QED
  BY <1>5, <1>6

\* Every step that reuses no linked slot does one of these.
LEMMA StepOnLists ==
    ASSUME TypeOK, NEW p \in Seq(Slots), NEW q \in Seq(Slots), Circles(p, q), [Next]_vars, ~Reuse
    PROVE  Posted(p, q) \/ Kept(p, q) \/ Taken(p, q) \/ Called(p, q) \/ WalkedOn(p, q)
<1>1. ASSUME UNCHANGED <<links, pos>>,
             \/ pc \in IdlePoints /\ pc' \in IdlePoints
             \/ pc \in WalkPoints /\ pc' \in WalkPoints
      PROVE  Circles(p, q)'
  <2>1. QueueIs(p)' /\ (BatchIs(q) => BatchIs(q)')
    BY <1>1 DEF Circles, QueueIs, BatchIs, Path, links
  <2>2. QED
    BY <1>1, <2>1, PointsApart DEF Circles, Apart
<1>2. CASE Poll \/ ReadDevice
  <2>1. /\ UNCHANGED <<m_param, links, pos>> /\ pc \in IdlePoints /\ pc' \in IdlePoints
        /\ pc \notin {"free", "clear", "next"} /\ pc' \notin {"free", "clear", "next"}
    BY <1>2 DEF Poll, ReadDevice, pool, IdlePoints
  <2>2. QED
    BY <2>1, <1>1 DEF Kept
<1>3. CASE Call
  <2>1. /\ UNCHANGED <<m_param, links, pos>> /\ pc \in WalkPoints /\ pc' \in WalkPoints
        /\ pc = "call" /\ pc' = "free"
    BY <1>3 DEF Call, pool, WalkPoints
  <2>2. Len(q) # 0
    BY <2>1, PointsApart DEF Circles, BatchIs
  <2>3. QED
    BY <2>1, <2>2, <1>1 DEF Called
<1>4. CASE FreeLoad \/ FreeStore
  <2>1. /\ UNCHANGED <<m_param, links, pos>> /\ pc \in WalkPoints /\ pc' \in WalkPoints
        /\ pc \in {"free", "clear", "next"} /\ pc' \in {"free", "clear", "next"}
    BY <1>4 DEF FreeLoad, FreeStore, pool, WalkPoints
  <2>2. QED
    BY <2>1, <1>1 DEF Kept
<1>5. CASE UNCHANGED vars
  <2>1. UNCHANGED <<m_param, links, pos, pc>>
    BY <1>5 DEF vars, links
  <2>2. QED
    BY <2>1, <1>1 DEF Kept, Circles
<1>6. QED
  BY <1>2, <1>3, <1>4, <1>5, PostOnLists, SpliceOnLists, AdvanceOnLists
     DEF Next, Foreground, run_inloop_fails

\* So the lists stay whole.
LEMMA WholeStep == TypeOK /\ [Next]_vars => (ListsWhole => ListsWhole' \/ Reuse)
<1> SUFFICES ASSUME TypeOK, [Next]_vars, ListsWhole, ~Reuse PROVE ListsWhole'
  OBVIOUS
<1>1. PICK p \in Seq(Slots), q \in Seq(Slots) : Circles(p, q)
  BY DEF ListsWhole
<1>2. <<>> \in Seq(Slots)
  OBVIOUS
<1>3. CASE Posted(p, q)
  <2>1. PICK i \in Slots : Circles(<<i>> \o p, q)'
    BY <1>3 DEF Posted
  <2>2. <<i>> \o p \in Seq(Slots)
    OBVIOUS
  <2>3. QED
    BY <2>1, <2>2 DEF ListsWhole
<1>4. CASE Kept(p, q) \/ Taken(p, q) \/ Called(p, q)
  BY <1>4, <1>2 DEF Kept, Taken, Called, ListsWhole
<1>5. CASE WalkedOn(p, q)
  <2>1. Len(q) # 0 /\ (Circles(p, <<>>)' \/ Circles(p, Tail(q))')
    BY <1>5 DEF WalkedOn
  <2>2. Tail(q) \in Seq(Slots)
    BY <2>1
  <2>3. QED
    BY <2>1, <2>2, <1>2 DEF ListsWhole
<1>6. QED
  BY <1>1, <1>3, <1>4, <1>5, StepOnLists

(* Wherever writes come in, in the middle of the walk and of event_free    *)
(* too: both lists start as closed circles of distinct slots with none on  *)
(* both, and the only step that ever breaks them is a write that is given  *)
(* a slot which is still linked.  No splice, no walk and no write with a   *)
(* slot of its own does, and none lets the walk leave its list.            *)
THEOREM OnlyReuseBreaks == Spec => ListsWhole /\ [][ListsWhole => ListsWhole' \/ Reuse]_vars
<1>1. Init => ListsWhole
  BY LoopInit DEF ListsWhole
<1>2. TypeOK /\ [Next]_vars => [ListsWhole => ListsWhole' \/ Reuse]_vars
  BY WholeStep
<1>3. QED
  BY <1>1, <1>2, TypeCorrect, PTL DEF Spec

--------------------------------------------------------------------------------
(* The refinement of EventQueue.                                           *)

\* One element in front of a sequence that is written as a function.
LEMMA ConsContents ==
    ASSUME NEW n \in Nat, NEW f, NEW g, NEW req, g[1] = req, \A k \in 1 .. n : g[k + 1] = f[k]
    PROVE  [k \in 1 .. n + 1 |-> g[k]] = <<req>> \o [k \in 1 .. n |-> f[k]]
<1> DEFINE a == [k \in 1 .. n + 1 |-> g[k]]
           b == [k \in 1 .. n |-> f[k]]
           c == <<req>> \o b
<1>1. b \in Seq({f[k] : k \in 1 .. n}) /\ Len(b) = n
  OBVIOUS
<1>2. <<req>> \in Seq({req} \cup {f[k] : k \in 1 .. n}) /\ b \in Seq({req} \cup {f[k] : k \in 1 .. n})
  BY <1>1
<1>3. Len(c) = n + 1 /\ DOMAIN c = 1 .. n + 1 /\ c = [k \in 1 .. n + 1 |-> c[k]]
  BY <1>1, <1>2
<1>4. \A k \in 1 .. n + 1 : c[k] = g[k]
  OBVIOUS
<1> HIDE DEF c
<1>5. QED
  BY <1>3, <1>4 DEF c

\* The same for every pair of lists, as a state predicate: so it holds in the
\* next state too.
AllSeen == \A p, q \in Seq(Slots) : Circles(p, q) => ListsAre(p, q)

\* It holds in every state.
LEMMA AlwaysSeen == AllSeen
BY ListsSeen DEF AllSeen

\* The two lists as EventQueue sees them.
asked == [k \in DOMAIN Queued |-> m_param[Queued[k]]]
taken == [k \in DOMAIN ToCall |-> m_param[ToCall[k]]]

\* A write is accepted.
LEMMA PostedAccepts ==
    ASSUME TypeOK, NEW p \in Seq(Slots), NEW q \in Seq(Slots), Circles(p, q), Posted(p, q)
    PROVE  Promise!EQNext
<1>1. PICK req \in Requests, i \in Slots :
         /\ \A k \in 1 .. Len(p) : p[k] # i
         /\ \A k \in 1 .. Len(q) : q[k] # i
         /\ m_param' = [m_param EXCEPT ![i] = req] /\ Circles(<<i>> \o p, q)'
  BY DEF Posted
<1>2. pc' = pc
  BY DEF Posted
<1> DEFINE rest == <<i>> \o p
<1>3. /\ rest \in Seq(Slots) /\ Len(rest) = Len(p) + 1 /\ Len(p) \in Nat /\ rest[1] = i
      /\ \A k \in 1 .. Len(p) : rest[k + 1] = p[k] /\ p[k] \in Slots
  BY Consed
<1> HIDE DEF rest
<1>4. Queued = p /\ ToCall = IF pc \in {"free", "clear", "next"} THEN Tail(q) ELSE q
  BY ListsSeen DEF ListsAre
<1>5. Queued' = rest /\ ToCall' = ToCall
  <2>1. AllSeen'
    BY AlwaysSeen, PTL
  <2>2. ListsAre(rest, q)'
    BY <2>1, <1>1, <1>3 DEF AllSeen, rest
  <2>3. QED
    BY <2>2, <1>2, <1>4 DEF ListsAre
<1>6. asked' = <<req>> \o asked
  <2> DEFINE f == [k \in 1 .. Len(p) |-> m_param[p[k]]]
             g == [k \in 1 .. Len(p) + 1 |-> m_param'[rest[k]]]
  <2>1. asked = f /\ asked' = g
    BY <1>3, <1>4, <1>5 DEF asked
  <2>2. \A k \in 1 .. Len(p) : m_param'[rest[k + 1]] = m_param[p[k]]
    BY <1>1, <1>3 DEF TypeOK
  <2>3. m_param'[rest[1]] = req
    BY <1>1, <1>3 DEF TypeOK
  <2>4. g[1] = req /\ \A k \in 1 .. Len(p) : g[k + 1] = f[k]
    BY <1>3, <2>2, <2>3
  <2>7. /\ f = [k \in 1 .. Len(p) |-> f[k]]
        /\ g = [k \in 1 .. Len(p) + 1 |-> g[k]]
    OBVIOUS
  <2> HIDE DEF f, g
  <2>5. [k \in 1 .. Len(p) + 1 |-> g[k]] = <<req>> \o [k \in 1 .. Len(p) |-> f[k]]
    BY <2>4, <1>3, ConsContents
  <2>6. QED
    BY <2>1, <2>5, <2>7
<1>7. taken' = taken
  <2>1. \A k \in DOMAIN ToCall : m_param'[ToCall[k]] = m_param[ToCall[k]]
    <3>1. \A k \in 1 .. Len(q) : m_param'[q[k]] = m_param[q[k]]
      BY <1>1 DEF TypeOK
    <3>2. CASE pc \in {"free", "clear", "next"}
      <4>1. Len(q) # 0
        BY <3>2 DEF Circles, BatchIs, IdlePoints
      <4>2. \A k \in DOMAIN Tail(q) : k + 1 \in 1 .. Len(q) /\ Tail(q)[k] = q[k + 1]
        BY <4>1
      <4>3. QED
        BY <3>1, <3>2, <4>2, <1>4
    <3>3. CASE pc \notin {"free", "clear", "next"}
      BY <3>1, <3>3, <1>4
    <3>4. QED
      BY <3>2, <3>3
  <2>2. QED
    BY <2>1, <1>5 DEF taken
<1>8. QED
  BY <1>6, <1>7 DEF Promise!EQNext, Promise!Accept, asked, taken

\* Every step that reuses no linked slot is one of the abstract queue's, or
\* none of its concern.
LEMMA PromiseStep ==
    TypeOK /\ [Next]_vars => (ListsWhole => Reuse \/ Promise!EQNext \/ UNCHANGED Promise!eqvars)
<1> SUFFICES ASSUME TypeOK, [Next]_vars, ListsWhole, ~Reuse
             PROVE  Promise!EQNext \/ UNCHANGED Promise!eqvars
  OBVIOUS
<1>1. PICK p \in Seq(Slots), q \in Seq(Slots) : Circles(p, q)
  BY DEF ListsWhole
<1>2. Queued = p /\ ToCall = IF pc \in {"free", "clear", "next"} THEN Tail(q) ELSE q
  BY <1>1, ListsSeen DEF ListsAre
<1>3. ASSUME NEW a \in Seq(Slots), NEW b \in Seq(Slots), Circles(a, b)'
      PROVE  Queued' = a /\ ToCall' = IF pc' \in {"free", "clear", "next"} THEN Tail(b) ELSE b
  <2>1. AllSeen'
    BY AlwaysSeen, PTL
  <2>2. QED
    BY <1>3, <2>1 DEF AllSeen, ListsAre
<1>4. <<>> \in Seq(Slots)
  OBVIOUS
<1>5. CASE Kept(p, q)
  <2>1. UNCHANGED <<Queued, ToCall, m_param>>
    BY <1>1, <1>2, <1>3, <1>5 DEF Kept
  <2>2. QED
    BY <2>1 DEF Promise!eqvars
<1>6. CASE Taken(p, q)
  <2>1. Queued = p /\ ToCall = <<>> /\ Queued' = <<>> /\ ToCall' = p /\ m_param' = m_param
    BY <1>2, <1>3, <1>4, <1>6 DEF Taken
  <2>2. Len(p) \in Nat /\ Len(p) # 0
    BY <1>6 DEF Taken
  <2>3. asked # <<>> /\ taken = <<>> /\ asked' = <<>> /\ taken' = asked
    <3>1. asked = [k \in 1 .. Len(p) |-> m_param[p[k]]]
      BY <2>1 DEF asked
    <3>2. asked # <<>>
      BY <3>1, <2>2
    <3>3. QED
      BY <2>1, <3>2 DEF asked, taken
  <2>4. QED
    BY <2>3 DEF Promise!EQNext, Promise!Take, asked, taken
<1>7. CASE Called(p, q)
  <2>1. Queued' = Queued /\ ToCall = q /\ ToCall' = Tail(q) /\ Len(q) # 0 /\ m_param' = m_param
    BY <1>1, <1>2, <1>3, <1>7 DEF Called
  <2>2. taken # <<>> /\ taken' = Tail(taken)
    <3>1. taken = [k \in 1 .. Len(q) |-> m_param[q[k]]] /\ Len(q) \in Nat \ {0}
      BY <2>1 DEF taken
    <3>2. taken # <<>> /\ Tail(taken) = [k \in 1 .. Len(q) - 1 |-> m_param[q[k + 1]]]
      BY <3>1
    <3>3. taken' = [k \in 1 .. Len(q) - 1 |-> m_param[q[k + 1]]]
      BY <2>1, <3>1 DEF taken
    <3>4. QED
      BY <3>2, <3>3
  <2>3. asked' = asked
    BY <2>1 DEF asked
  <2>4. QED
    BY <2>2, <2>3 DEF Promise!EQNext, Promise!Serve, asked, taken
<1>8. CASE WalkedOn(p, q)
  <2>1. Len(q) \in Nat \ {0} /\ q # <<>> /\ Tail(q) \in Seq(Slots) /\ Len(Tail(q)) = Len(q) - 1
    BY <1>8 DEF WalkedOn
  <2>2. Queued = p /\ ToCall = Tail(q) /\ m_param' = m_param
    BY <1>2, <1>8 DEF WalkedOn
  <2> DEFINE rest == Tail(q)
  <2> HIDE DEF rest
  <2>3. Queued' = p /\ ToCall' = rest
    <3>1. CASE Len(q) = 1
      <4>1. Queued' = p /\ ToCall' = <<>>
        BY <3>1, <1>3, <1>4, <1>8 DEF WalkedOn
      <4>2. rest \in Seq(Slots) /\ Len(rest) = 0
        BY <3>1, <2>1 DEF rest
      <4>3. QED
        BY <4>1, <4>2
    <3>2. CASE Len(q) # 1
      <4>1. Circles(p, rest)' /\ pc' = "call" /\ rest \in Seq(Slots)
        BY <3>2, <1>8, <2>1 DEF WalkedOn, rest
      <4>2. QED
        BY <4>1, <1>3
    <3>3. QED
      BY <3>1, <3>2
  <2>4. QED
    BY <2>2, <2>3 DEF Promise!eqvars, rest
<1>9. QED
  BY <1>1, <1>5, <1>6, <1>7, <1>8, StepOnLists, PostedAccepts

(* And what run_inloop accepted is executed once, newest first, batch by   *)
(* batch: as long as the lists are whole, every step but such a write is   *)
(* a step of EventQueue or none of its concern, posts between two steps of *)
(* the walk included.  That the queue goes on is TLC's part.               *)
THEOREM ServedUnlessReused ==
    Spec => /\ Promise!EQInit
            /\ [][ListsWhole => Reuse \/ Promise!EQNext \/ UNCHANGED Promise!eqvars]_vars
<1>1. Init => Promise!EQInit
  <2> SUFFICES ASSUME Init PROVE Promise!EQInit
    OBVIOUS
  <2>1. Queued = <<>> /\ ToCall = <<>>
    BY LoopInit, ListsSeen DEF ListsAre, Init
  <2>2. QED
    BY <2>1 DEF Promise!EQInit
<1>2. TypeOK /\ [Next]_vars => [ListsWhole => Reuse \/ Promise!EQNext \/ UNCHANGED Promise!eqvars]_vars
  BY PromiseStep
<1>3. QED
  BY <1>1, <1>2, TypeCorrect, PTL DEF Spec

--------------------------------------------------------------------------------
(* The interrupts, in the composition.  Their registers are as after reset *)
(* in the other parts, so the invariant needs no condition.                *)

\* The other parts leave the registers of the core alone.
LEMMA CoreStep == ASSUME [MCNext]_mcvars PROVE [BA!VectorsNext]_BA!vectorvars
<1>1. UNCHANGED corevars => UNCHANGED BA!vectorvars
  BY DEF corevars, BA!vectorvars, BA!vars, BA!nvic, BA!registers
<1>2. CASE MCNext
  BY <1>1, <1>2 DEF MCNext
<1>3. CASE UNCHANGED mcvars
  BY <1>1, <1>3 DEF mcvars
<1>4. QED
  BY <1>2, <1>3

(* The contexts are what the atomic steps of the other modules take them   *)
(* to be - PendSV and SysTick do not nest, a critical section is left to   *)
(* its context, nothing runs before it is let - and each interrupt that is *)
(* enabled in the NVIC has its own priority and handler, for any number of *)
(* priority bits, any priorities, any nesting and any tick.                *)
THEOREM PreemptionHolds ==
    ASSUME BA!VectorsAssumption
    PROVE  MCSpec => []PreemptionSound
<1>1. MCInit => BA!VectorsInv
  BY BA!VectorsInitInv DEF MCInit
<1>2. BA!VectorsInv /\ [MCNext]_mcvars => BA!VectorsInv'
  BY CoreStep, BA!VectorsNextInv
<1>3. BA!VectorsInv => PreemptionSound
  BY BA!VectorsSound DEF PreemptionSound
<1>4. QED
  BY <1>1, <1>2, <1>3, PTL DEF MCSpec

--------------------------------------------------------------------------------
(* The structures, in the composition.  A step is one of a structure or    *)
(* leaves it alone.                                                        *)

\* The bytes of an event, ...
LEMMA BufferSteps == ASSUME [MCNext]_mcvars PROVE [BA!EB!Next]_BA!EB!vars
<1>1. UNCHANGED datavars => UNCHANGED BA!EB!vars
  BY DEF datavars, BA!EB!vars
<1>2. CASE MCNext
  BY <1>1, <1>2 DEF MCNext
<1>3. CASE UNCHANGED mcvars
  BY <1>1, <1>3 DEF mcvars
<1>4. QED
  BY <1>2, <1>3

\* ... the lists, ...
LEMMA ListSteps == ASSUME [MCNext]_mcvars PROVE [BA!LL!Next]_BA!LL!vars
<1>1. UNCHANGED listvars => UNCHANGED BA!LL!vars
  BY DEF listvars, BA!LL!vars
<1>2. CASE MCNext
  BY <1>1, <1>2 DEF MCNext
<1>3. CASE UNCHANGED mcvars
  BY <1>1, <1>3 DEF mcvars
<1>4. QED
  BY <1>2, <1>3

\* ... the ring ...
LEMMA RingSteps == ASSUME [MCNext]_mcvars PROVE [BA!RB!Next]_BA!RB!vars
<1>1. UNCHANGED ringvars => UNCHANGED BA!RB!vars
  BY DEF ringvars, BA!RB!vars
<1>2. CASE MCNext
  BY <1>1, <1>2 DEF MCNext
<1>3. CASE UNCHANGED mcvars
  BY <1>1, <1>3 DEF mcvars
<1>4. QED
  BY <1>2, <1>3

\* ... and the message queue.
LEMMA MailSteps == ASSUME [MCNext]_mcvars PROVE [BA!MQ!Next]_BA!MQ!vars
<1>1. UNCHANGED mailvars => UNCHANGED BA!MQ!vars
  BY DEF mailvars, BA!MQ!vars, BA!MQ!lists
<1>2. CASE MCNext
  BY <1>1, <1>2 DEF MCNext
<1>3. CASE UNCHANGED mcvars
  BY <1>1, <1>3 DEF mcvars
<1>4. QED
  BY <1>2, <1>3

\* What holds of each of them, in every state of the composition.
Structures == BA!BufferInv /\ BA!ListInv /\ BA!RingInv /\ BA!MailInv

(* An event keeps the bytes it was given, the lists hold what was put into *)
(* them, the ring hands on its bytes in order, and the queue each message  *)
(* once and unchanged, whatever it is that a sender is preempted by: for   *)
(* any size of an event and of the room in front, any heads and items, any *)
(* capacity, any number of senders and any pool (buffer, list_insert_* and *)
(* the like, circular_buffer, sv_eq_send and sv_eq_recv).                  *)
THEOREM StructuresHold ==
    ASSUME BA!EB!EventBufferAssumption, BA!LL!LinkedListAssumption,
           BA!RB!RingBufferAssumption, BA!MQ!MessageQueueAssumption
    PROVE  MCSpec => []PoolSound
<1>1. ASSUME MCInit PROVE Structures
  <2>1. BA!EB!Init /\ BA!LL!Init /\ BA!RB!Init /\ BA!MQ!Init
    BY <1>1 DEF MCInit
  <2>2. QED
    BY <2>1, BA!BufferInit, BA!ListInit, BA!RingInit, BA!MailInit DEF Structures
<1>2. ASSUME Structures, [MCNext]_mcvars PROVE Structures'
  <2>1. BA!BufferInv'
    BY <1>2, BufferSteps, BA!BufferStep DEF Structures
  <2>2. BA!ListInv'
    BY <1>2, ListSteps, BA!ListStep DEF Structures
  <2>3. BA!RingInv'
    BY <1>2, RingSteps, BA!RingStep DEF Structures
  <2>4. BA!MailInv'
    BY <1>2, MailSteps, BA!MailStep DEF Structures
  <2>5. QED
    BY <2>1, <2>2, <2>3, <2>4 DEF Structures
<1>3. ASSUME Structures PROVE PoolSound
  <2>1. BA!EB!TypeOK /\ BA!EB!DataKept
    BY <1>3, BA!BufferSound DEF Structures
  <2>2. BA!LL!TypeOK /\ BA!LL!ListsHold
    BY <1>3, BA!ListSound DEF Structures
  <2>3. BA!RB!TypeOK /\ BA!RB!InOrder
    BY <1>3, BA!RingSound DEF Structures
  <2>4. BA!MQ!TypeOK /\ BA!MQ!QueueKeeps
    BY <1>3, BA!MailSound DEF Structures
  <2>5. QED
    BY <2>1, <2>2, <2>3, <2>4 DEF PoolSound
<1>4. QED
  BY <1>1, <1>2, <1>3, PTL DEF MCSpec

--------------------------------------------------------------------------------
(* The measurement, for every length of a block.  First the pins.          *)

\* FORCE_H takes the heater from the PWM and sets it.
LEMMA HeatForced ==
  ASSUME NEW q \in ME!P!Registers, "HEAT" \in q.GPOEN, NEW u, u = ME!P!Heat(q, "FORCE_H", 0)
  PROVE  /\ u \in ME!P!Registers /\ "HEAT" \in u.GPOEN /\ "HEAT" \in u.GPOUT /\ "HEAT" \notin u.GPCON
         /\ u.GP0 = q.GP0
  BY DEF ME!P!Registers, ME!P!Heat, ME!P!ioctl, ME!P!pins_disable, ME!P!Channels

\* MEASURE_ON and MEASURE_OFF set GP0 and nothing else.
LEMMA DriveSwitched ==
  ASSUME NEW q \in ME!P!Registers, NEW on \in BOOLEAN, NEW u,
         u = ME!P!Heat(q, IF on THEN "MEASURE_ON" ELSE "MEASURE_OFF", 0)
  PROVE  /\ u \in ME!P!Registers /\ u.GPOEN = q.GPOEN /\ u.GPOUT = q.GPOUT /\ u.GPCON = q.GPCON
         /\ u.GP0 = on
<1>1. CASE on = TRUE
  BY <1>1 DEF ME!P!Registers, ME!P!Heat, ME!P!ioctl
<1>2. CASE on = FALSE
  BY <1>2 DEF ME!P!Registers, ME!P!Heat, ME!P!ioctl
<1>3. QED
  BY <1>1, <1>2

\* Times of the PWM change the heater's times only ...
LEMMA TimesSet ==
  ASSUME NEW q, q \in ME!P!Registers, NEW f, f \in Nat, NEW h, h \in Nat
  PROVE  /\ ME!P!PwmTime(q, "HEAT", f, h, 1) \in ME!P!Registers
         /\ ME!P!PwmTime(q, "HEAT", f, h, 1).GPOEN = q.GPOEN
         /\ ME!P!PwmTime(q, "HEAT", f, h, 1).GPCON = q.GPCON
         /\ ME!P!PwmTime(q, "HEAT", f, h, 1).GP0 = q.GP0
  BY DEF ME!P!Registers, ME!P!PwmTime, ME!P!Channels

\* ... and enabling its pins hands the heater to it.
LEMMA PinsEnabled ==
  ASSUME NEW q \in ME!P!Registers, NEW e, e = ME!P!pins_enable(q, "HEAT")
  PROVE  e \in ME!P!Registers /\ e.GPOEN = q.GPOEN /\ "HEAT" \in e.GPCON /\ e.GP0 = q.GP0
  BY DEF ME!P!Registers, ME!P!pins_enable, ME!P!Channels

\* A duty cycle that is cut off is one still.
LEMMA ClampedNat ==
  ASSUME NEW a \in Nat, NEW b \in Nat
  PROVE  ME!P!Clamped(a, b) \in Nat
  BY DEF ME!P!Clamped

\* The times that are set are natural numbers.
LEMMA TimesOf ==
  ASSUME NEW q \in ME!P!Registers
  PROVE  q.LEN["HEAT"] \in Nat /\ q.COM1["HEAT"] \in Nat
  BY DEF ME!P!Registers, ME!P!Channels

\* With its times set or not, what was enabled stays the PWM's.
LEMMA TimesTaken ==
  ASSUME NEW e, e \in ME!P!Registers, NEW f, f \in Nat, NEW h, h \in Nat,
         NEW z, z = e \/ z = ME!P!PwmTime(e, "HEAT", f, h, 1)
  PROVE  z \in ME!P!Registers /\ z.GPOEN = e.GPOEN /\ z.GPCON = e.GPCON /\ z.GP0 = e.GP0
<1>1. CASE z = e
  BY <1>1
<1>2. CASE z = ME!P!PwmTime(e, "HEAT", f, h, 1)
  <2>1. z \in ME!P!Registers
    BY <1>2, TimesSet
  <2>2. z.GPOEN = e.GPOEN
    BY <1>2, TimesSet
  <2>3. z.GPCON = e.GPCON
    BY <1>2, TimesSet
  <2>4. z.GP0 = e.GP0
    BY <1>2, TimesSet
  <2>5. QED
    BY <2>1, <2>2, <2>3, <2>4
<1>3. QED
  BY <1>1, <1>2

\* FREQ hands the heater to the PWM and leaves the drive ...
LEMMA FreqSet ==
  ASSUME NEW e, e \in ME!P!Registers, NEW v, v \in Nat, NEW z, z = ME!P!PWM_Freq(e, "HEAT", v)
  PROVE  z \in ME!P!Registers /\ z.GPOEN = e.GPOEN /\ z.GPCON = e.GPCON /\ z.GP0 = e.GP0
<1>1. PICK h \in Nat : h = ME!P!Clamped(e.COM1["HEAT"], v)
  BY TimesOf, ClampedNat
<1>2. z = e \/ z = ME!P!PwmTime(e, "HEAT", v, h, 1)
  BY <1>1 DEF ME!P!PWM_Freq
<1>3. QED
  BY <1>1, <1>2, TimesTaken

\* ... and so does DUTY_CYCLE, ...
LEMMA DutySet ==
  ASSUME NEW e, e \in ME!P!Registers, NEW v, v \in Nat, NEW z, z = ME!P!PWM_DutyCycle(e, "HEAT", v)
  PROVE  z \in ME!P!Registers /\ z.GPOEN = e.GPOEN /\ z.GPCON = e.GPCON /\ z.GP0 = e.GP0
<1>1. PICK f \in Nat, h \in Nat : f = e.LEN["HEAT"] /\ h = ME!P!Clamped(v, f)
  BY TimesOf, ClampedNat
<1>2. z = e \/ z = ME!P!PwmTime(e, "HEAT", f, h, 1)
  BY <1>1 DEF ME!P!PWM_DutyCycle
<1>3. QED
  BY <1>1, <1>2, TimesTaken

\* ... one after the other, as for the wash.
LEMMA HeatPulsed ==
  ASSUME NEW q \in ME!P!Registers, NEW v \in Nat, NEW name \in {"FREQ", "DUTY_CYCLE"}, NEW u,
         u = ME!P!Heat(q, name, v)
  PROVE  u \in ME!P!Registers /\ u.GPOEN = q.GPOEN /\ "HEAT" \in u.GPCON /\ u.GP0 = q.GP0
<1>1. PICK e : e = ME!P!pins_enable(q, "HEAT")
  OBVIOUS
<1>2. e \in ME!P!Registers /\ e.GPOEN = q.GPOEN /\ "HEAT" \in e.GPCON /\ e.GP0 = q.GP0
  BY <1>1, PinsEnabled
<1>3. name = "FREQ" => u = ME!P!PWM_Freq(e, "HEAT", v)
  BY <1>1 DEF ME!P!Heat, ME!P!ioctl
<1>4. name = "DUTY_CYCLE" => u = ME!P!PWM_DutyCycle(e, "HEAT", v)
  BY <1>1 DEF ME!P!Heat, ME!P!ioctl
<1>5. CASE name = "FREQ"
  BY <1>2, <1>3, <1>5, FreqSet
<1>6. CASE name = "DUTY_CYCLE"
  BY <1>2, <1>4, <1>6, DutySet
<1>7. QED
  BY <1>5, <1>6

\* The heater's output is enabled, and the pins are as they are taken to be.
Follows(q, on, high) ==
    /\ q \in ME!P!Registers /\ "HEAT" \in q.GPOEN
    /\ q.GP0 = on /\ (high <=> "HEAT" \notin q.GPCON /\ "HEAT" \in q.GPOUT)

\* open leaves the drive and the heater on.
LEMMA FollowsOpened == Follows(ME!P!Opened, TRUE, TRUE)
<1> DEFINE z == [ME!P!Reset EXCEPT !.GPOEN = ME!P!Channels]
           f == ME!P!ioctl(z, [cmd |-> "FORCE_H", ch |-> "RHREF", arg |-> 0])
           h == ME!P!Heat(f, "FORCE_H", 0)
<1>1. z \in ME!P!Registers /\ "HEAT" \in z.GPOEN
  BY DEF ME!P!Registers, ME!P!Reset, ME!P!Zero, ME!P!Channels
<1>2. f \in ME!P!Registers /\ "HEAT" \in f.GPOEN
  BY <1>1 DEF ME!P!Registers, ME!P!ioctl, ME!P!pins_disable, ME!P!Channels
<1>3. ME!P!Opened = ME!P!Heat(h, IF TRUE THEN "MEASURE_ON" ELSE "MEASURE_OFF", 0)
  BY DEF ME!P!Opened
<1> HIDE DEF f
<1>4. h \in ME!P!Registers /\ "HEAT" \in h.GPOEN /\ "HEAT" \in h.GPOUT /\ "HEAT" \notin h.GPCON
  BY <1>2, HeatForced
<1> HIDE DEF h
<1>5. QED
  BY <1>3, <1>4, DriveSwitched DEF Follows

\* What the handlers make of the pins, whatever was done to them before.
LEMMA FollowsHandlers ==
  ASSUME NEW q \in ME!P!Registers, "HEAT" \in q.GPOEN
  PROVE  /\ Follows(ME!Begin(q), TRUE, TRUE)
         /\ Follows(ME!Washed(q), TRUE, TRUE)
         /\ Follows(ME!Wash(q), FALSE, FALSE)
<1>1. Follows(ME!Begin(q), TRUE, TRUE)
  <2> DEFINE a == ME!P!Heat(q, "MEASURE_ON", 0)
  <2>1. a = ME!P!Heat(q, IF TRUE THEN "MEASURE_ON" ELSE "MEASURE_OFF", 0)
    OBVIOUS
  <2>2. ME!Begin(q) = ME!P!Heat(a, "FORCE_H", 0)
    BY DEF ME!Begin
  <2> HIDE DEF a
  <2>3. a \in ME!P!Registers /\ "HEAT" \in a.GPOEN /\ a.GP0 = TRUE
    BY <2>1, DriveSwitched
  <2>4. QED
    BY <2>2, <2>3, HeatForced DEF Follows
<1>2. Follows(ME!Washed(q), TRUE, TRUE)
  <2> DEFINE a == ME!P!Heat(q, "FORCE_H", 0)
  <2>1. ME!Washed(q) = ME!P!Heat(a, IF TRUE THEN "MEASURE_ON" ELSE "MEASURE_OFF", 0)
    BY DEF ME!Washed
  <2>2. a \in ME!P!Registers /\ "HEAT" \in a.GPOEN /\ "HEAT" \in a.GPOUT /\ "HEAT" \notin a.GPCON
    BY HeatForced
  <2> HIDE DEF a
  <2>3. PICK u : u = ME!P!Heat(a, IF TRUE THEN "MEASURE_ON" ELSE "MEASURE_OFF", 0)
    OBVIOUS
  <2>4. /\ u \in ME!P!Registers /\ u.GPOEN = a.GPOEN /\ u.GPOUT = a.GPOUT /\ u.GPCON = a.GPCON
        /\ u.GP0 = TRUE
    BY <2>2, <2>3, DriveSwitched
  <2>5. Follows(u, TRUE, TRUE)
    BY <2>2, <2>4 DEF Follows
  <2>6. QED
    BY <2>1, <2>3, <2>5
<1>3. Follows(ME!Wash(q), FALSE, FALSE)
  <2> DEFINE a == ME!P!Heat(q, "MEASURE_OFF", 0)
             b == ME!P!Heat(a, "FREQ", ME!HeatFreq)
  <2>1. ME!HeatFreq \in Nat /\ ME!HeatDuty \in Nat
    BY DEF ME!HeatFreq, ME!HeatDuty
  <2>2. a = ME!P!Heat(q, IF FALSE THEN "MEASURE_ON" ELSE "MEASURE_OFF", 0)
    OBVIOUS
  <2>3. ME!Wash(q) = ME!P!Heat(b, "DUTY_CYCLE", ME!HeatDuty)
    BY DEF ME!Wash
  <2> HIDE DEF a
  <2>4. a \in ME!P!Registers /\ "HEAT" \in a.GPOEN /\ a.GP0 = FALSE
    BY <2>2, DriveSwitched
  <2>5. b \in ME!P!Registers /\ "HEAT" \in b.GPOEN /\ b.GP0 = FALSE
    BY <2>1, <2>4, HeatPulsed
  <2> HIDE DEF b
  <2>6. QED
    BY <2>1, <2>3, <2>5, HeatPulsed DEF Follows
<1>4. QED
  BY <1>1, <1>2, <1>3

--------------------------------------------------------------------------------
(* The converter.                                                          *)

\* The registers, the block as a function.
Converters ==
    [set : ME!A!Setting, uint : BOOLEAN, mode : {"IDLE", "CONT", "SINGLE"}, rdy : BOOLEAN,
     masked : BOOLEAN, enabled : BOOLEAN, left : 0 .. SampleLen,
     data : [1 .. SampleLen -> ME!A!Setting]]

\* A block of channel c is under way, is complete, or nothing is.
Filling(a, c) ==
    /\ a.mode = "CONT" /\ ~a.masked /\ a.enabled /\ a.left \in 1 .. SampleLen
    /\ a.set = ME!Proper[c]
    /\ \A i \in 1 .. SampleLen - a.left : a.data[i] = ME!Proper[c]
Block(a, c) == \A i \in 1 .. SampleLen : a.data[i] = ME!Proper[c]
Filled(a, c) == a.mode = "CONT" /\ ~a.enabled /\ a.left = 0 /\ Block(a, c)
Resting(a)   == a.mode # "CONT" /\ a.enabled

\* The two differ in the setting only.
Same(a, b) ==
    /\ b.mode = a.mode /\ b.masked = a.masked /\ b.enabled = a.enabled
    /\ b.left = a.left /\ b.data = a.data

\* With its setting changed to s, and with a flag that this has reset.
SetTo(a, b, s)  == b \in Converters /\ Same(a, b) /\ b.set = s
Chosen(a, b, s) == SetTo(a, b, s) /\ ~b.rdy

\* What the functions of the libraries make of a setting.
Driven(s, i, p) == [s EXCEPT !.idat = i, !.iexc = p]
Buffered(s, f)  == [s EXCEPT !.extbuf = f]
Between(s, n)   == [s EXCEPT !.pins = n]
Ranged(s, x, g) == [s EXCEPT !.ref = x, !.gain = g]

Made(n, x, g, f, i, p) ==
    [pins |-> n, ref |-> x, gain |-> g, extbuf |-> f, idat |-> i, iexc |-> p]

\* A setting is made of its fields, ...
LEMMA MadeIsSetting ==
  ASSUME NEW n \in {"none", "AIN6-AIN7", "AIN2-AGND", "AIN0-AIN1"},
         NEW x \in {"INTREF", "EXTREF2"}, NEW g \in {1, 8, 16}, NEW f \in BOOLEAN,
         NEW i \in {0, 50, 400}, NEW p \in {"off", "AIN5", "AIN4"}
  PROVE  Made(n, x, g, f, i, p) \in ME!A!Setting
  BY DEF ME!A!Setting, Made

\* ... each of its own range, ...
LEMMA SettingIsMade ==
  ASSUME NEW s, s \in ME!A!Setting
  PROVE  /\ s = Made(s.pins, s.ref, s.gain, s.extbuf, s.idat, s.iexc)
         /\ s.pins \in {"none", "AIN6-AIN7", "AIN2-AGND", "AIN0-AIN1"}
         /\ s.ref \in {"INTREF", "EXTREF2"} /\ s.gain \in {1, 8, 16} /\ s.extbuf \in BOOLEAN
         /\ s.idat \in {0, 50, 400} /\ s.iexc \in {"off", "AIN5", "AIN4"}
  BY DEF ME!A!Setting, Made

\* ... that of a channel as well.
LEMMA ProperIsMade ==
  /\ ME!Proper["RTD"] = Made("AIN6-AIN7", "EXTREF2", 16, TRUE, 50, "AIN5")
  /\ ME!Proper["RHS"] = Made("AIN2-AGND", "INTREF", 1, FALSE, 0, "off")
  /\ ME!Proper["PRS"] = Made("AIN0-AIN1", "INTREF", 8, FALSE, 400, "AIN4")
  BY DEF ME!Proper, ME!Channels, Made

\* The fields of what was made, ...
LEMMA MadeFields ==
  ASSUME NEW n, NEW x, NEW g, NEW f, NEW i, NEW p, NEW s, s = Made(n, x, g, f, i, p)
  PROVE  /\ s.pins = n /\ s.ref = x /\ s.gain = g
         /\ s.extbuf = f /\ s.idat = i /\ s.iexc = p
  BY DEF Made

\* ... the buffer changed, ...
LEMMA MadeBuffered ==
  ASSUME NEW n, NEW x, NEW g, NEW f, NEW i, NEW p, NEW y
  PROVE  Buffered(Made(n, x, g, f, i, p), y) = Made(n, x, g, y, i, p)
  BY DEF Buffered, Made

\* ... the inputs changed, ...
LEMMA MadeBetween ==
  ASSUME NEW n, NEW x, NEW g, NEW f, NEW i, NEW p, NEW y
  PROVE  Between(Made(n, x, g, f, i, p), y) = Made(y, x, g, f, i, p)
  BY DEF Between, Made

\* ... reference and gain changed, ...
LEMMA MadeRanged ==
  ASSUME NEW n, NEW x, NEW g, NEW f, NEW i, NEW p, NEW y, NEW z
  PROVE  Ranged(Made(n, x, g, f, i, p), y, z) = Made(n, y, z, f, i, p)
<1>1. [Made(n, x, g, f, i, p) EXCEPT !.ref = y] = Made(n, y, g, f, i, p)
  BY DEF Made
<1>2. [Made(n, y, g, f, i, p) EXCEPT !.gain = z] = Made(n, y, z, f, i, p)
  BY DEF Made
<1>3. Ranged(Made(n, x, g, f, i, p), y, z)
        = [[Made(n, x, g, f, i, p) EXCEPT !.ref = y] EXCEPT !.gain = z]
  BY DEF Ranged, Made
<1>4. QED
  BY <1>1, <1>2, <1>3

\* ... and the excitation changed.
LEMMA MadeDriven ==
  ASSUME NEW n, NEW x, NEW g, NEW f, NEW i, NEW p, NEW y, NEW z
  PROVE  Driven(Made(n, x, g, f, i, p), y, z) = Made(n, x, g, f, y, z)
<1>1. [Made(n, x, g, f, i, p) EXCEPT !.idat = y] = Made(n, x, g, f, y, p)
  BY DEF Made
<1>2. [Made(n, x, g, f, y, p) EXCEPT !.iexc = z] = Made(n, x, g, f, y, z)
  BY DEF Made
<1>3. Driven(Made(n, x, g, f, i, p), y, z)
        = [[Made(n, x, g, f, i, p) EXCEPT !.idat = y] EXCEPT !.iexc = z]
  BY DEF Driven, Made
<1>4. QED
  BY <1>1, <1>2, <1>3

\* The functions of the libraries set what they are for: the current, ...
LEMMA IexcSets ==
  ASSUME NEW a, a \in Converters, NEW i, NEW p, NEW s, s \in ME!A!Setting, s = Driven(a.set, i, p)
  PROVE  SetTo(a, ME!A!Iexc(a, i, p), s)
  BY DEF Driven, Converters, Same, SetTo, ME!A!Iexc

\* ... the range, which resets the flag, ...
LEMMA RngSets ==
  ASSUME NEW a, a \in Converters, NEW x, NEW g, NEW o,
         NEW s, s \in ME!A!Setting, s = Ranged(a.set, x, g)
  PROVE  Chosen(a, ME!A!AdcRng(a, x, g, o), s)
  BY DEF Ranged, Converters, Same, SetTo, Chosen, ME!A!AdcRng

\* ... the buffer ...
LEMMA BufSets ==
  ASSUME NEW a, a \in Converters, NEW x, NEW s, s \in ME!A!Setting, s = Buffered(a.set, x)
  PROVE  SetTo(a, ME!A!AdcBuf(a, x), s)
  BY DEF Buffered, Converters, Same, SetTo, ME!A!AdcBuf

\* ... and the inputs.
LEMMA PinSets ==
  ASSUME NEW a, a \in Converters, NEW x, NEW s, s \in ME!A!Setting, s = Between(a.set, x)
  PROVE  SetTo(a, ME!A!AdcPin(a, x), s)
  BY DEF Between, Converters, Same, SetTo, ME!A!AdcPin

\* A channel's inputs and range are chosen; its excitation is another matter.
LEMMA InputsSet ==
  ASSUME NEW a, a \in Converters, NEW f \in BOOLEAN,
         NEW n \in {"none", "AIN6-AIN7", "AIN2-AGND", "AIN0-AIN1"},
         NEW x \in {"INTREF", "EXTREF2"}, NEW g \in {1, 8, 16}, NEW o
  PROVE  Chosen(a, ME!A!AdcRng(ME!A!AdcPin(ME!A!AdcBuf(a, f), n), x, g, o),
                Made(n, x, g, f, a.set.idat, a.set.iexc))
<1>1. PICK s, t, u : /\ s = Made(a.set.pins, a.set.ref, a.set.gain, f, a.set.idat, a.set.iexc)
                     /\ t = Made(n, a.set.ref, a.set.gain, f, a.set.idat, a.set.iexc)
                     /\ u = Made(n, x, g, f, a.set.idat, a.set.iexc)
  OBVIOUS
<1>2. a.set \in ME!A!Setting
  BY DEF Converters
<1>3. s \in ME!A!Setting /\ t \in ME!A!Setting /\ u \in ME!A!Setting
  <2>1. s \in ME!A!Setting
    BY <1>1, <1>2 DEF ME!A!Setting, Made
  <2>2. t \in ME!A!Setting
    BY <1>1, <1>2 DEF ME!A!Setting, Made
  <2>3. u \in ME!A!Setting
    BY <1>1, <1>2 DEF ME!A!Setting, Made
  <2>4. QED
    BY <2>1, <2>2, <2>3
<1>4. s = Buffered(a.set, f)
  BY <1>1, <1>2, SettingIsMade, MadeBuffered
<1>5. t = Between(s, n)
  BY <1>1, MadeBetween
<1>6. u = Ranged(t, x, g)
  BY <1>1, MadeRanged
<1>7. PICK c : c = ME!A!AdcBuf(a, f)
  OBVIOUS
<1>8. PICK d : d = ME!A!AdcPin(c, n)
  OBVIOUS
<1>9. SetTo(a, c, s)
  BY <1>3, <1>4, <1>7, BufSets
<1>10. SetTo(c, d, t)
  <2>1. c \in Converters /\ c.set = s
    BY <1>9 DEF SetTo
  <2>2. t = Between(c.set, n)
    BY <1>5, <2>1
  <2>3. QED
    BY <1>3, <1>8, <2>1, <2>2, PinSets
<1>11. Chosen(d, ME!A!AdcRng(d, x, g, o), u)
  <2>1. d \in Converters /\ d.set = t
    BY <1>10 DEF SetTo
  <2>2. u = Ranged(d.set, x, g)
    BY <1>6, <2>1
  <2>3. QED
    BY <1>3, <2>1, <2>2, RngSets
<1>12. Chosen(a, ME!A!AdcRng(d, x, g, o), u)
  BY <1>9, <1>10, <1>11 DEF Chosen, SetTo, Same
<1>13. QED
  BY <1>1, <1>7, <1>8, <1>12

\* A current of the sources, to a pin, is what Iexc drives.
LEMMA CurrentSet ==
  ASSUME NEW a, a \in Converters, NEW i \in {0, 50, 400}, NEW p \in {"off", "AIN5", "AIN4"},
         NEW b, b = ME!A!Iexc(a, i, p)
  PROVE  b \in Converters /\ Same(a, b) /\ b.set.idat = i /\ b.set.iexc = p
<1>1. PICK s : s = Made(a.set.pins, a.set.ref, a.set.gain, a.set.extbuf, i, p)
  OBVIOUS
<1>2. a.set \in ME!A!Setting
  BY DEF Converters
<1>3. s \in ME!A!Setting
  BY <1>1, <1>2 DEF ME!A!Setting, Made
<1>4. s = Driven(a.set, i, p)
  BY <1>1, <1>2, SettingIsMade, MadeDriven
<1>5. SetTo(a, ME!A!Iexc(a, i, p), s)
  BY <1>3, <1>4, IexcSets
<1>6. SetTo(a, b, s)
  BY <1>5
<1>7. s.idat = i /\ s.iexc = p
  BY <1>1, MadeFields
<1>8. QED
  BY <1>6, <1>7 DEF SetTo

\* What is wired and driven for a channel is proper.
LEMMA SwitchSets ==
  ASSUME NEW a, a \in Converters, NEW c \in ME!Channels, NEW b, b = ME!A!Switch(a, c)
  PROVE  Chosen(a, b, ME!Proper[c])
<1>1. CASE c = "RTD"
  <2>1. PICK e : e = ME!A!Iexc(a, 50, "AIN5")
    OBVIOUS
  <2>2. e \in Converters /\ Same(a, e) /\ e.set.idat = 50 /\ e.set.iexc = "AIN5"
    BY <2>1, CurrentSet
  <2>3. b = ME!A!AdcRng(ME!A!AdcPin(ME!A!AdcBuf(e, TRUE), "AIN6-AIN7"), "EXTREF2", 16, "UINT")
    BY <1>1, <2>1 DEF ME!A!Switch
  <2>4. Chosen(e, ME!A!AdcRng(ME!A!AdcPin(ME!A!AdcBuf(e, TRUE), "AIN6-AIN7"), "EXTREF2", 16, "UINT"),
               Made("AIN6-AIN7", "EXTREF2", 16, TRUE, e.set.idat, e.set.iexc))
    BY <2>2, InputsSet
  <2>5. Chosen(e, b, ME!Proper[c])
    BY <1>1, <2>2, <2>3, <2>4, ProperIsMade
  <2>6. QED
    BY <2>2, <2>5 DEF Chosen, SetTo, Same
<1>2. CASE c = "RHS"
  <2>1. PICK e : e = ME!A!Iexc(a, 0, "off")
    OBVIOUS
  <2>2. e \in Converters /\ Same(a, e) /\ e.set.idat = 0 /\ e.set.iexc = "off"
    BY <2>1, CurrentSet
  <2>3. b = ME!A!AdcRng(ME!A!AdcPin(ME!A!AdcBuf(e, FALSE), "AIN2-AGND"), "INTREF", 1, "UINT")
    BY <1>2, <2>1 DEF ME!A!Switch
  <2>4. Chosen(e, ME!A!AdcRng(ME!A!AdcPin(ME!A!AdcBuf(e, FALSE), "AIN2-AGND"), "INTREF", 1, "UINT"),
               Made("AIN2-AGND", "INTREF", 1, FALSE, e.set.idat, e.set.iexc))
    BY <2>2, InputsSet
  <2>5. Chosen(e, b, ME!Proper[c])
    BY <1>2, <2>2, <2>3, <2>4, ProperIsMade
  <2>6. QED
    BY <2>2, <2>5 DEF Chosen, SetTo, Same
<1>3. CASE c = "PRS"
  <2>1. PICK e : e = ME!A!Iexc(a, 400, "AIN4")
    OBVIOUS
  <2>2. e \in Converters /\ Same(a, e) /\ e.set.idat = 400 /\ e.set.iexc = "AIN4"
    BY <2>1, CurrentSet
  <2>3. b = ME!A!AdcRng(ME!A!AdcPin(ME!A!AdcBuf(e, FALSE), "AIN0-AIN1"), "INTREF", 8, "INT")
    BY <1>3, <2>1 DEF ME!A!Switch
  <2>4. Chosen(e, ME!A!AdcRng(ME!A!AdcPin(ME!A!AdcBuf(e, FALSE), "AIN0-AIN1"), "INTREF", 8, "INT"),
               Made("AIN0-AIN1", "INTREF", 8, FALSE, e.set.idat, e.set.iexc))
    BY <2>2, InputsSet
  <2>5. Chosen(e, b, ME!Proper[c])
    BY <1>3, <2>2, <2>3, <2>4, ProperIsMade
  <2>6. QED
    BY <2>2, <2>5 DEF Chosen, SetTo, Same
<1>4. QED
  BY <1>1, <1>2, <1>3 DEF ME!Channels

\* A conversion that is started on a converter at rest fills a block.
LEMMA StartFills ==
  ASSUME ME!MeasureDriveAssumption, NEW a, a \in Converters, Resting(a), NEW c \in ME!Channels,
         NEW b, b = ME!A!StartAdc(a, c)
  PROVE  b \in Converters /\ Filling(b, c)
<1>1. PICK s : s = ME!A!Switch(a, c)
  OBVIOUS
<1>2. s \in Converters /\ s.set = ME!Proper[c] /\ ~s.rdy /\ s.enabled
  BY <1>1, SwitchSets DEF Chosen, SetTo, Same, Resting
<1>3. PICK d : d = ME!A!DmaClr(s)
  OBVIOUS
<1>4. d \in Converters /\ d.set = ME!Proper[c] /\ ~d.masked /\ d.enabled
  BY <1>2, <1>3 DEF Converters, ME!A!DmaClr
<1>5. PICK e : e = ME!A!DmaCycleCntCtrl(d)
  OBVIOUS
<1>6. e \in Converters /\ e.set = ME!Proper[c] /\ ~e.masked /\ e.enabled /\ e.left = SampleLen
  BY <1>4, <1>5 DEF Converters, ME!A!DmaCycleCntCtrl, ME!MeasureDriveAssumption
<1>7. b = ME!A!AdcGo(e, "CONT")
  BY <1>1, <1>3, <1>5 DEF ME!A!StartAdc
<1>8. /\ b \in Converters /\ b.mode = "CONT" /\ b.set = ME!Proper[c] /\ ~b.masked /\ b.enabled
      /\ b.left = SampleLen
  BY <1>6, <1>7 DEF Converters, ME!A!AdcGo
<1>9. QED
  BY <1>8 DEF Filling, ME!MeasureDriveAssumption

\* A value comes while a block is being filled ...
LEMMA FillingGoes ==
  ASSUME ME!MeasureDriveAssumption, NEW a, a \in Converters, NEW c, c \in ME!Channels, Filling(a, c),
         NEW b, b = ME!A!Converted(a)
  PROVE  /\ b \in Converters
         /\ ME!A!Last(a) => Filled(b, c)
         /\ ~ME!A!Last(a) => Filling(b, c)
<1>1. PICK k, d, l, m : /\ k = SampleLen + 1 - a.left /\ d = [a.data EXCEPT ![k] = a.set]
                        /\ l = a.left - 1 /\ m = ~ME!A!Last(a)
  OBVIOUS
<1>2. /\ a.left \in 1 .. SampleLen /\ a.data \in [1 .. SampleLen -> ME!A!Setting]
      /\ a.set \in ME!A!Setting /\ a.set = ME!Proper[c] /\ SampleLen \in Nat
  BY DEF Converters, Filling, ME!MeasureDriveAssumption
<1>3. k \in 1 .. SampleLen /\ l \in 0 .. SampleLen /\ m \in BOOLEAN
      /\ d \in [1 .. SampleLen -> ME!A!Setting]
  <2>1. k \in 1 .. SampleLen /\ l \in 0 .. SampleLen
    BY <1>1, <1>2
  <2>2. m \in BOOLEAN
    BY <1>1 DEF ME!A!Last
  <2>3. d \in [1 .. SampleLen -> ME!A!Setting]
    BY <1>1, <1>2, <2>1
  <2>4. QED
    BY <2>1, <2>2, <2>3
<1>4. b = [a EXCEPT !.mode = "CONT", !.data = d, !.left = l, !.enabled = m, !.rdy = FALSE]
  <2>1. ME!A!Transfers(a) /\ a.mode = "CONT"
    BY <1>2 DEF Filling, ME!A!Transfers
  <2>2. QED
    BY <1>1, <2>1 DEF Converters, ME!A!Converted
<1>5. /\ b \in Converters /\ b.data = d /\ b.left = l /\ b.enabled = m /\ b.mode = "CONT"
      /\ b.masked = a.masked /\ b.set = a.set
  BY <1>3, <1>4 DEF Converters
<1>6. ME!A!Last(a) <=> a.left = 1
  BY <1>2 DEF Filling, ME!A!Last, ME!A!Transfers
<1>7. \A i \in 1 .. SampleLen - l : d[i] = ME!Proper[c]
  <2>1. \A i \in 1 .. SampleLen - a.left : a.data[i] = ME!Proper[c]
    BY DEF Filling
  <2>2. SUFFICES ASSUME NEW i \in 1 .. SampleLen - l PROVE d[i] = ME!Proper[c]
    OBVIOUS
  <2>3. i \in 1 .. SampleLen /\ (i = k \/ i \in 1 .. SampleLen - a.left)
    BY <1>1, <1>2
  <2>4. QED
    BY <1>1, <1>2, <1>3, <2>1, <2>3
<1>8. CASE ME!A!Last(a)
  <2>1. l = 0 /\ SampleLen - l = SampleLen
    BY <1>1, <1>2, <1>6, <1>8
  <2>2. QED
    BY <1>1, <1>5, <1>7, <1>8, <2>1 DEF Filled, Block
<1>9. CASE ~ME!A!Last(a)
  <2>1. l \in 1 .. SampleLen
    BY <1>1, <1>2, <1>6, <1>9
  <2>2. ~b.masked /\ b.enabled
    BY <1>1, <1>5, <1>9 DEF Filling
  <2>3. QED
    BY <1>2, <1>5, <1>7, <2>1, <2>2, <1>9 DEF Filling
<1>10. QED
  BY <1>5, <1>8, <1>9

\* ... after the last, and of a single conversion, for which requests are masked.
LEMMA FilledStays ==
  ASSUME NEW a, a \in Converters, NEW c, Filled(a, c), NEW b, b = ME!A!Converted(a)
  PROVE  b \in Converters /\ Filled(b, c) /\ ~ME!A!Last(a)
  BY DEF Converters, Filled, Block, ME!A!Converted, ME!A!Transfers, ME!A!Last

\* At rest a value goes nowhere.
LEMMA RestingStays ==
  ASSUME NEW a, a \in Converters, Resting(a), a.masked, NEW b, b = ME!A!Converted(a)
  PROVE  b \in Converters /\ Resting(b) /\ b.masked /\ b.data = a.data /\ ~ME!A!Last(a)
  BY DEF Converters, Resting, ME!A!Converted, ME!A!Transfers, ME!A!Last

\* The interrupt of the DMA channel puts the converter to rest.
LEMMA HandledRests ==
  ASSUME NEW a, a \in Converters, NEW b, b = ME!A!Handled(a)
  PROVE  b \in Converters /\ Resting(b) /\ b.mode = "IDLE" /\ b.masked = TRUE /\ b.data = a.data
  BY DEF Converters, Resting, ME!A!Handled, ME!A!DmaSet, ME!A!AdcGo

\* AdcGo changes the mode only.
LEMMA GoSets ==
  ASSUME NEW a, a \in Converters, NEW m \in {"IDLE", "CONT", "SINGLE"}, NEW b, b = ME!A!AdcGo(a, m)
  PROVE  /\ b \in Converters /\ b.mode = m /\ b.set = a.set /\ b.masked = a.masked
         /\ b.enabled = a.enabled /\ b.data = a.data
  BY DEF ME!A!AdcGo, Converters

\* As it is opened the converter is at rest.
LEMMA OpenedRests ==
  ASSUME ME!MeasureDriveAssumption
  PROVE  ME!A!Opened \in Converters /\ Resting(ME!A!Opened) /\ ME!A!Opened.mode = "IDLE"
<1>1. PICK a : a = [set |-> ME!A!Unset, uint |-> FALSE, mode |-> "IDLE", rdy |-> FALSE,
                    masked |-> FALSE, enabled |-> FALSE, left |-> 0,
                    data |-> [i \in 1 .. SampleLen |-> ME!A!Unset]]
  OBVIOUS
<1>2. ME!A!Unset \in ME!A!Setting
  BY DEF ME!A!Unset, ME!A!Setting
<1>3. a \in Converters
  <2>1. 0 \in 0 .. SampleLen /\ [i \in 1 .. SampleLen |-> ME!A!Unset] \in [1 .. SampleLen -> ME!A!Setting]
    BY <1>2 DEF ME!MeasureDriveAssumption
  <2>2. QED
    BY <1>1, <1>2, <2>1 DEF Converters
<1>4. PICK b : b = ME!A!AD_DMAINIT(a)
  OBVIOUS
<1>5. b \in Converters /\ b.enabled = TRUE
  BY <1>3, <1>4 DEF ME!A!AD_DMAINIT, Converters
<1>6. PICK c : c = ME!A!AdcGo(b, "IDLE")
  OBVIOUS
<1>7. c \in Converters /\ c.enabled = TRUE /\ c.mode = "IDLE"
  BY <1>5, <1>6, GoSets
<1>8. ME!A!Opened = ME!A!AdcDmaReadSetup(c)
  BY <1>1, <1>4, <1>6 DEF ME!A!Opened, ME!A!ADC1_Init
<1>9. PICK d : d = ME!A!AdcDmaReadSetup(c)
  OBVIOUS
<1>10. d \in Converters /\ d.enabled = TRUE /\ d.mode = "IDLE"
  BY <1>7, <1>9 DEF ME!A!AdcDmaReadSetup, Converters, ME!MeasureDriveAssumption
<1>11. QED
  BY <1>8, <1>9, <1>10 DEF Resting

\* A single conversion takes no block ...
LEMMA SingleRests ==
  ASSUME NEW a, a \in Converters, Resting(a), NEW c \in {"RTD", "RHS"},
         NEW b, b = ME!A!Single(a, c)
  PROVE  b \in Converters /\ Resting(b) /\ b.masked = a.masked /\ b.data = a.data
<1>1. PICK i : i = ME!A!AdcGo(a, "IDLE")
  OBVIOUS
<1>2. i \in Converters /\ i.masked = a.masked /\ i.enabled = a.enabled /\ i.data = a.data
  BY <1>1, GoSets
<1>3. PICK s : s = IF c = "RTD" THEN ME!A!Switch(i, "RTD")
                   ELSE ME!A!AdcRng(ME!A!AdcPin(ME!A!AdcBuf(i, FALSE), "AIN2-AGND"), "INTREF",
                   1, "UINT")
  OBVIOUS
<1>4. b = ME!A!AdcGo(s, "SINGLE")
  BY <1>1, <1>3 DEF ME!A!Single, ME!A!Switch
<1>5. s \in Converters /\ Same(i, s)
  <2>1. CASE c = "RTD"
    BY <1>2, <1>3, <2>1, SwitchSets DEF ME!Channels, Chosen, SetTo
  <2>2. CASE c = "RHS"
    <3>1. s = ME!A!AdcRng(ME!A!AdcPin(ME!A!AdcBuf(i, FALSE), "AIN2-AGND"), "INTREF", 1, "UINT")
      BY <1>3, <2>2
    <3>2. Chosen(i, ME!A!AdcRng(ME!A!AdcPin(ME!A!AdcBuf(i, FALSE), "AIN2-AGND"), "INTREF", 1, "UINT"),
                 Made("AIN2-AGND", "INTREF", 1, FALSE, i.set.idat, i.set.iexc))
      BY <1>2, InputsSet
    <3>3. QED
      BY <3>1, <3>2 DEF Chosen, SetTo
  <2>3. QED
    BY <2>1, <2>2
<1>6. b \in Converters /\ b.mode = "SINGLE" /\ b.masked = s.masked /\ b.enabled = s.enabled
      /\ b.data = s.data
  BY <1>4, <1>5, GoSets
<1>7. QED
  BY <1>2, <1>5, <1>6 DEF Resting, Same

\* ... nor does reading its result.
LEMMA ReadRests ==
  ASSUME NEW a, a \in Converters, Resting(a), NEW b, b = ME!A!AdcRd(a)
  PROVE  b \in Converters /\ Resting(b) /\ b.masked = a.masked /\ b.data = a.data
  BY DEF Converters, Resting, ME!A!AdcRd

--------------------------------------------------------------------------------
(* The stages.                                                             *)

\* Where the foreground is, and which stages are over when a sample is in.
InCallback == m_pc \in {"timer", "rtd", "rhs"}
Recording  == m_pc \in {"rtd", "rhs"}
Sampling   == ucADC1RunStus \in {"CALC_T", "CALC_RH", "CALC_P"}

\* The channel that a stage takes its sample from, and the sample.
Asked == IF ucADC1RunStus = "CALC_T" THEN "RTD"
         ELSE IF ucADC1RunStus = "CALC_RH" THEN "RHS" ELSE "PRS"
Wanted == [chan |-> Asked, clean |-> TRUE, round |-> round]

\* Where the calibration is, and what it has done to the analog part.
Course ==
    /\ InCallback => due
    /\ due \/ ucSensorRunMode # "MEASURE" => ucADC1RunStus # "ADC_T"
    /\ Recording => ucSensorRunMode # "MEASURE"
    /\ Recording \/ ucSensorRunMode # "WASH" => meas_on = TRUE /\ heat_high = TRUE
    /\ IF Recording THEN ucSensorRunMode = "WASH" => m_ucCalibRecordTimes <= 8
                    ELSE ucSensorRunMode = "CALIB" => m_ucCalibRecordTimes <= 8
    /\ ucSensorRunMode = "CALIB" => adc_stat = "NONE" /\ (InCallback => "ad" \notin m_active)

\* The channel is served when there is something to read, and once.
Ready ==
    /\ "ad" \in m_active \/ m_pc = "read" => adc_stat # "IN_PROCESSING"
    /\ m_pc = "handle" => adc_stat = "NONE"
    /\ m_pc \in {"poll", "handle"} => "ad" \notin m_active

\* In measure mode a stage that takes a sample gets the one it asked for.
Chained ==
    ucSensorRunMode = "MEASURE" =>
      /\ m_pc = "read" => adc_stat # "NONE"
      /\ m_pc \in {"poll", "timer", "read"} /\ Sampling /\ adc_stat # "NONE" =>
           adc_stat # "READABLE_FAKE" /\ m_ioc = Asked /\ conv = Wanted
      /\ m_pc = "handle" /\ Sampling => got = Wanted

StagesInv == ME!TypeOK /\ Course /\ Ready /\ Chained /\ ME!SamplesSound

\* A step of the stages; the timer does not expire during the first pass.
StageStep == ME!AdcDone \/ (ucADC1RunStus # "ADC_T" /\ ME!Expire) \/ ME!Foreground

\* The invariant of the stages holds when the devices are opened, ...
LEMMA StagesInit == ASSUME ME!Init PROVE StagesInv
<1>1. ME!TypeOK
  <2>1. ME!Garbage \in ME!Samples /\ ME!Empty \in ME!Samples
    BY DEF ME!Samples, ME!Garbage, ME!Empty
  <2>2. m_stuSensorData \in [ME!Channels -> ME!Samples]
    BY <2>1 DEF ME!Init
  <2>3. adc_stat \in {"NONE", "READABLE", "READABLE_FAKE", "IN_PROCESSING"}
        /\ m_ioc \in ME!Channels \cup {"FAKE", "GET_SGL"} /\ conv \in ME!Samples /\ got \in ME!Samples
    BY <2>1 DEF ME!Init
  <2>4. m_ucCalibRecordTimes \in 0 .. 9 /\ round \in 0 .. 2
    BY DEF ME!Init
  <2>5. QED
    BY <2>2, <2>3, <2>4 DEF ME!Init, ME!TypeOK, ME!Stages
<1>2. Course
  BY DEF ME!Init, Course, InCallback, Recording
<1>3. Ready /\ Chained
  BY DEF ME!Init, Ready, Chained, Sampling
<1>4. ME!SamplesSound
  BY DEF ME!Init, ME!SamplesSound, ME!Stages
<1>5. QED
  BY <1>1, <1>2, <1>3, <1>4 DEF StagesInv

\* ... and every step keeps its types, ...
LEMMA TypesKept == ASSUME StagesInv, StageStep PROVE ME!TypeOK'
<1> USE DEF StagesInv, ME!TypeOK, ME!Channels, ME!Samples, ME!Stages
<1>1. CASE ME!AdcDone
  BY <1>1 DEF ME!AdcDone, ME!analog, ME!app
<1>2. CASE ME!Expire
  BY <1>2 DEF ME!Expire, ME!analog, ME!app
<1>3. CASE ME!Poll
  BY <1>3 DEF ME!Poll, ME!analog, ME!app
<1>4. CASE ME!CalibWash
  <2>1. conv' \in ME!Samples
    BY <1>4 DEF ME!CalibWash
  <2>2. due' \in BOOLEAN /\ m_pc' \in {"read", "poll"}
    BY <1>4 DEF ME!CalibWash, ME!LeaveCallback, ME!AfterTimer
  <2>3. meas_on' \in BOOLEAN /\ heat_high' \in BOOLEAN /\ ucSensorRunMode' = "WASH"
    BY <1>4 DEF ME!CalibWash
  <2>4. UNCHANGED <<adc_stat, m_ioc, ucADC1RunStus, m_ucCalibRecordTimes, m_stuSensorData,
                    m_active, got, round>>
    BY <1>4 DEF ME!CalibWash
  <2>5. QED
    BY <2>1, <2>2, <2>3, <2>4
<1>5. CASE ME!CalibFirst
  BY <1>5 DEF ME!CalibFirst, ME!analog, ME!app
<1>6. CASE ME!CalibWait
  <2>1. m_ucCalibRecordTimes' \in 0 .. 9
    BY <1>6 DEF ME!CalibWait
  <2>2. due' \in BOOLEAN /\ m_pc' \in {"read", "poll"}
    BY <1>6 DEF ME!CalibWait, ME!LeaveCallback, ME!AfterTimer
  <2>3. UNCHANGED <<adc_stat, m_ioc, conv, ME!analog, ucSensorRunMode, ucADC1RunStus,
                    m_stuSensorData, m_active, got, round>>
    BY <1>6 DEF ME!CalibWait
  <2>4. QED
    BY <2>1, <2>2, <2>3 DEF ME!analog
<1>7. CASE ME!CalibLast
  BY <1>7 DEF ME!CalibLast, Course, InCallback, Recording, ME!analog, ME!app
<1>8. CASE ME!RecordTemp
  BY <1>8 DEF ME!RecordTemp, ME!GetSgl, ME!analog, ME!app
<1>9. CASE ME!RecordRhs
  <2>1. adc_stat' = "NONE" /\ m_ioc' = "GET_SGL"
    BY <1>9 DEF ME!RecordRhs, ME!GetSgl
  <2>2. due' \in BOOLEAN /\ m_pc' \in {"read", "poll"}
    BY <1>9 DEF ME!RecordRhs, ME!LeaveCallback, ME!AfterTimer
  <2>3. ucSensorRunMode' \in {"MEASURE", "CALIB"}
    BY <1>9 DEF ME!RecordRhs
  <2>4. UNCHANGED <<conv, ME!analog, ucADC1RunStus, m_ucCalibRecordTimes, m_stuSensorData,
                    m_active, got, round>>
    BY <1>9 DEF ME!RecordRhs
  <2>5. QED
    BY <2>1, <2>2, <2>3, <2>4 DEF ME!analog
<1>10. CASE ME!ReadAd
  BY <1>10 DEF ME!ReadAd, ME!Empty, ME!Garbage, ME!analog, ME!app
<1>11. CASE ME!HandleIgnored
  BY <1>11 DEF ME!HandleIgnored, ME!analog, ME!app
<1>12. CASE ME!HandleFirst
  <2>1. meas_on' \in BOOLEAN /\ heat_high' \in BOOLEAN
    BY <1>12 DEF ME!HandleFirst, ME!analog
  <2>2. (round + 1) % 3 \in 0 .. 2
    OBVIOUS
  <2>3. conv' \in ME!Samples
    BY <1>12, <2>1, <2>2 DEF ME!HandleFirst, ME!Start, ME!Clean
  <2>4. QED
    BY <1>12, <2>1, <2>2, <2>3 DEF ME!HandleFirst, ME!Handling, ME!Stage, ME!Start, ME!HandleFrame
<1>13. CASE ME!HandleTemp
  BY <1>13 DEF ME!HandleTemp, ME!Handling, ME!Stage, ME!Store, ME!Start, ME!Clean,
     ME!HandleFrame, ME!analog
<1>14. CASE ME!HandleHumi
  BY <1>14 DEF ME!HandleHumi, ME!Handling, ME!Stage, ME!Store, ME!Start, ME!Clean,
     ME!HandleFrame, ME!analog
<1>15. CASE ME!HandlePres
  BY <1>15 DEF ME!HandlePres, ME!Handling, ME!Stage, ME!Store, ME!FakeReadable, ME!HandleFrame,
     ME!analog
<1>16. CASE ME!HandleCalc
  BY <1>16 DEF ME!HandleCalc, ME!Handling, ME!Stage, ME!FakeReadable, ME!HandleFrame, ME!analog
<1>17. CASE ME!HandleDew
  BY <1>17 DEF ME!HandleDew, ME!Handling, ME!Stage, ME!Start, ME!Clean, ME!HandleFrame, ME!analog
<1>18. QED
  BY <1>1, <1>2, <1>3, <1>4, <1>5, <1>6, <1>7, <1>8, <1>9, <1>10, <1>11, <1>12, <1>13, <1>14,
     <1>15, <1>16, <1>17 DEF StageStep, ME!Foreground, ME!Calibrate, ME!HandleAd

\* ... the course of the calibration, ...
LEMMA CourseKept == ASSUME StagesInv, StageStep PROVE Course'
<1> USE DEF StagesInv, ME!TypeOK, Course, InCallback, Recording, Ready
<1>1. CASE ME!AdcDone
  BY <1>1 DEF ME!AdcDone, ME!analog, ME!app
<1>2. CASE ucADC1RunStus # "ADC_T" /\ ME!Expire
  BY <1>2 DEF ME!Expire, ME!analog, ME!app
<1>3. CASE ME!Poll
  BY <1>3 DEF ME!Poll, ME!analog, ME!app
<1>4. CASE ME!CalibWash
  BY <1>4 DEF ME!CalibWash, ME!LeaveCallback, ME!AfterTimer, ME!analog, ME!app
<1>5. CASE ME!CalibFirst
  BY <1>5 DEF ME!CalibFirst, ME!analog, ME!app
<1>6. CASE ME!CalibWait
  BY <1>6 DEF ME!CalibWait, ME!LeaveCallback, ME!AfterTimer, ME!analog, ME!app
<1>7. CASE ME!CalibLast
  BY <1>7 DEF ME!CalibLast, ME!analog, ME!app
<1>8. CASE ME!RecordTemp
  BY <1>8 DEF ME!RecordTemp, ME!GetSgl, ME!analog, ME!app
<1>9. CASE ME!RecordRhs
  BY <1>9 DEF ME!RecordRhs, ME!GetSgl, ME!LeaveCallback, ME!AfterTimer, ME!analog, ME!app
<1>10. CASE ME!ReadAd
  BY <1>10 DEF ME!ReadAd, ME!analog, ME!app
<1>11. CASE ME!HandleIgnored
  BY <1>11 DEF ME!HandleIgnored, ME!Ignored, ME!analog, ME!app
<1>12. CASE ME!HandleFirst
  BY <1>12 DEF ME!HandleFirst, ME!Handling, ME!Ignored, ME!Stage, ME!Start, ME!Clean,
     ME!HandleFrame, ME!analog, ME!app
<1>13. CASE ME!HandleTemp
  BY <1>13 DEF ME!HandleTemp, ME!Handling, ME!Ignored, ME!Stage, ME!Store, ME!Start, ME!Clean,
     ME!HandleFrame, ME!analog, ME!app
<1>14. CASE ME!HandleHumi
  BY <1>14 DEF ME!HandleHumi, ME!Handling, ME!Ignored, ME!Stage, ME!Store, ME!Start, ME!Clean,
     ME!HandleFrame, ME!analog, ME!app
<1>15. CASE ME!HandlePres
  BY <1>15 DEF ME!HandlePres, ME!Handling, ME!Ignored, ME!Stage, ME!Store, ME!FakeReadable,
     ME!HandleFrame, ME!analog, ME!app
<1>16. CASE ME!HandleCalc
  BY <1>16 DEF ME!HandleCalc, ME!Handling, ME!Ignored, ME!Stage, ME!FakeReadable,
     ME!HandleFrame, ME!analog, ME!app
<1>17. CASE ME!HandleDew
  BY <1>17 DEF ME!HandleDew, ME!Handling, ME!Ignored, ME!Stage, ME!Start, ME!Clean,
     ME!HandleFrame, ME!analog, ME!app
<1>18. QED
  BY <1>1, <1>2, <1>3, <1>4, <1>5, <1>6, <1>7, <1>8, <1>9, <1>10, <1>11, <1>12, <1>13, <1>14,
     <1>15, <1>16, <1>17 DEF StageStep, ME!Foreground, ME!Calibrate, ME!HandleAd

\* ... the channel that is served once, ...
LEMMA ReadyKept == ASSUME StagesInv, StageStep PROVE Ready'
<1> USE DEF StagesInv, ME!TypeOK, Ready
<1>1. CASE ME!AdcDone
  BY <1>1 DEF ME!AdcDone, ME!analog, ME!app
<1>2. CASE ucADC1RunStus # "ADC_T" /\ ME!Expire
  BY <1>2 DEF ME!Expire, ME!analog, ME!app
<1>3. CASE ME!Poll
  BY <1>3 DEF ME!Poll, ME!analog, ME!app
<1>4. CASE ME!CalibWash
  BY <1>4 DEF ME!CalibWash, ME!LeaveCallback, ME!AfterTimer, ME!analog, ME!app
<1>5. CASE ME!CalibFirst
  BY <1>5 DEF ME!CalibFirst, ME!analog, ME!app
<1>6. CASE ME!CalibWait
  BY <1>6 DEF ME!CalibWait, ME!LeaveCallback, ME!AfterTimer, ME!analog, ME!app
<1>7. CASE ME!CalibLast
  BY <1>7 DEF ME!CalibLast, ME!analog, ME!app
<1>8. CASE ME!RecordTemp
  BY <1>8 DEF ME!RecordTemp, ME!GetSgl, ME!analog, ME!app
<1>9. CASE ME!RecordRhs
  BY <1>9 DEF ME!RecordRhs, ME!GetSgl, ME!LeaveCallback, ME!AfterTimer, ME!analog, ME!app
<1>10. CASE ME!ReadAd
  BY <1>10 DEF ME!ReadAd, ME!analog, ME!app
<1>11. CASE ME!HandleIgnored
  BY <1>11 DEF ME!HandleIgnored, ME!Ignored, ME!analog, ME!app
<1>12. CASE ME!HandleFirst
  BY <1>12 DEF ME!HandleFirst, ME!Handling, ME!Ignored, ME!Stage, ME!Start, ME!Clean,
     ME!HandleFrame, ME!analog, ME!app
<1>13. CASE ME!HandleTemp
  BY <1>13 DEF ME!HandleTemp, ME!Handling, ME!Ignored, ME!Stage, ME!Store, ME!Start, ME!Clean,
     ME!HandleFrame, ME!analog, ME!app
<1>14. CASE ME!HandleHumi
  BY <1>14 DEF ME!HandleHumi, ME!Handling, ME!Ignored, ME!Stage, ME!Store, ME!Start, ME!Clean,
     ME!HandleFrame, ME!analog, ME!app
<1>15. CASE ME!HandlePres
  BY <1>15 DEF ME!HandlePres, ME!Handling, ME!Ignored, ME!Stage, ME!Store, ME!FakeReadable,
     ME!HandleFrame, ME!analog, ME!app
<1>16. CASE ME!HandleCalc
  BY <1>16 DEF ME!HandleCalc, ME!Handling, ME!Ignored, ME!Stage, ME!FakeReadable,
     ME!HandleFrame, ME!analog, ME!app
<1>17. CASE ME!HandleDew
  BY <1>17 DEF ME!HandleDew, ME!Handling, ME!Ignored, ME!Stage, ME!Start, ME!Clean,
     ME!HandleFrame, ME!analog, ME!app
<1>18. QED
  BY <1>1, <1>2, <1>3, <1>4, <1>5, <1>6, <1>7, <1>8, <1>9, <1>10, <1>11, <1>12, <1>13, <1>14,
     <1>15, <1>16, <1>17 DEF StageStep, ME!Foreground, ME!Calibrate, ME!HandleAd

\* ... the chain of the stages ...
LEMMA ChainedKept == ASSUME StagesInv, StageStep PROVE Chained'
<1> USE DEF StagesInv, ME!TypeOK, Course, Ready, Chained, InCallback, Recording, Sampling,
        Asked, Wanted
<1>1. CASE ME!AdcDone
  BY <1>1 DEF ME!AdcDone, ME!analog, ME!app
<1>2. CASE ucADC1RunStus # "ADC_T" /\ ME!Expire
  BY <1>2 DEF ME!Expire, ME!analog, ME!app
<1>3. CASE ME!Poll
  BY <1>3 DEF ME!Poll, ME!analog, ME!app
<1>4. CASE ME!CalibWash
  BY <1>4 DEF ME!CalibWash, ME!LeaveCallback, ME!AfterTimer, ME!analog, ME!app
<1>5. CASE ME!CalibFirst
  BY <1>5 DEF ME!CalibFirst, ME!analog, ME!app
<1>6. CASE ME!CalibWait
  BY <1>6 DEF ME!CalibWait, ME!LeaveCallback, ME!AfterTimer, ME!analog, ME!app
<1>7. CASE ME!CalibLast
  BY <1>7 DEF ME!CalibLast, ME!analog, ME!app
<1>8. CASE ME!RecordTemp
  BY <1>8 DEF ME!RecordTemp, ME!GetSgl, ME!analog, ME!app
<1>9. CASE ME!RecordRhs
  BY <1>9 DEF ME!RecordRhs, ME!GetSgl, ME!LeaveCallback, ME!AfterTimer, ME!analog, ME!app
<1>10. CASE ME!ReadAd
  <2>1. ucSensorRunMode' = ucSensorRunMode /\ m_pc' = "handle" /\ UNCHANGED <<ucADC1RunStus, round>>
    BY <1>10 DEF ME!ReadAd, ME!app
  <2>2. SUFFICES ASSUME ucSensorRunMode = "MEASURE", Sampling PROVE got' = Wanted
    BY <2>1
  <2>3. m_pc = "read" /\ adc_stat = "READABLE" /\ m_ioc = Asked /\ conv = Wanted
    BY <1>10, <2>2 DEF ME!ReadAd
  <2>4. conv.chan = m_ioc
    BY <2>3
  <2>5. QED
    BY <1>10, <2>3, <2>4 DEF ME!ReadAd
<1>11. CASE ME!HandleIgnored
  BY <1>11 DEF ME!HandleIgnored, ME!Ignored, ME!analog, ME!app
<1>12. CASE ME!HandleFirst
  BY <1>12 DEF ME!HandleFirst, ME!Handling, ME!Ignored, ME!Stage, ME!Start, ME!Clean,
     ME!HandleFrame, ME!analog, ME!app
<1>13. CASE ME!HandleTemp
  BY <1>13 DEF ME!HandleTemp, ME!Handling, ME!Ignored, ME!Stage, ME!Store, ME!Start, ME!Clean,
     ME!HandleFrame, ME!analog, ME!app
<1>14. CASE ME!HandleHumi
  BY <1>14 DEF ME!HandleHumi, ME!Handling, ME!Ignored, ME!Stage, ME!Store, ME!Start, ME!Clean,
     ME!HandleFrame, ME!analog, ME!app
<1>15. CASE ME!HandlePres
  BY <1>15 DEF ME!HandlePres, ME!Handling, ME!Ignored, ME!Stage, ME!Store, ME!FakeReadable,
     ME!HandleFrame, ME!analog, ME!app
<1>16. CASE ME!HandleCalc
  BY <1>16 DEF ME!HandleCalc, ME!Handling, ME!Ignored, ME!Stage, ME!FakeReadable,
     ME!HandleFrame, ME!analog, ME!app
<1>17. CASE ME!HandleDew
  BY <1>17 DEF ME!HandleDew, ME!Handling, ME!Ignored, ME!Stage, ME!Start, ME!Clean,
     ME!HandleFrame, ME!analog, ME!app
<1>18. QED
  BY <1>1, <1>2, <1>3, <1>4, <1>5, <1>6, <1>7, <1>8, <1>9, <1>10, <1>11, <1>12, <1>13, <1>14,
     <1>15, <1>16, <1>17 DEF StageStep, ME!Foreground, ME!Calibrate, ME!HandleAd

\* ... and the samples that were stored.
LEMMA SamplesKept == ASSUME StagesInv, StageStep PROVE ME!SamplesSound'
<1> USE DEF StagesInv, ME!TypeOK, Course, Chained, Sampling, Asked, Wanted, ME!SamplesSound,
        ME!Fresh, ME!Stages, ME!Channels
<1>1. CASE ME!AdcDone
  BY <1>1 DEF ME!AdcDone, ME!analog, ME!app
<1>2. CASE ucADC1RunStus # "ADC_T" /\ ME!Expire
  BY <1>2 DEF ME!Expire, ME!analog, ME!app
<1>3. CASE ME!Poll
  BY <1>3 DEF ME!Poll, ME!analog, ME!app
<1>4. CASE ME!CalibWash
  BY <1>4 DEF ME!CalibWash, ME!LeaveCallback, ME!AfterTimer, ME!analog, ME!app
<1>5. CASE ME!CalibFirst
  BY <1>5 DEF ME!CalibFirst, ME!analog, ME!app
<1>6. CASE ME!CalibWait
  BY <1>6 DEF ME!CalibWait, ME!LeaveCallback, ME!AfterTimer, ME!analog, ME!app
<1>7. CASE ME!CalibLast
  BY <1>7 DEF ME!CalibLast, ME!analog, ME!app
<1>8. CASE ME!RecordTemp
  BY <1>8 DEF ME!RecordTemp, ME!GetSgl, ME!analog, ME!app
<1>9. CASE ME!RecordRhs
  BY <1>9 DEF ME!RecordRhs, ME!GetSgl, ME!LeaveCallback, ME!AfterTimer, ME!analog, ME!app
<1>10. CASE ME!ReadAd
  BY <1>10 DEF ME!ReadAd, ME!analog, ME!app
<1>11. CASE ME!HandleIgnored
  BY <1>11 DEF ME!HandleIgnored, ME!Ignored, ME!analog, ME!app
<1>12. CASE ME!HandleFirst
  BY <1>12 DEF ME!HandleFirst, ME!Handling, ME!Ignored, ME!Stage, ME!Start, ME!Clean,
     ME!HandleFrame, ME!analog, ME!app
<1>13. CASE ME!HandleTemp
  BY <1>13 DEF ME!HandleTemp, ME!Handling, ME!Ignored, ME!Stage, ME!Store, ME!Start, ME!Clean,
     ME!HandleFrame, ME!analog, ME!app
<1>14. CASE ME!HandleHumi
  BY <1>14 DEF ME!HandleHumi, ME!Handling, ME!Ignored, ME!Stage, ME!Store, ME!Start, ME!Clean,
     ME!HandleFrame, ME!analog, ME!app
<1>15. CASE ME!HandlePres
  BY <1>15 DEF ME!HandlePres, ME!Handling, ME!Ignored, ME!Stage, ME!Store, ME!FakeReadable,
     ME!HandleFrame, ME!analog, ME!app
<1>16. CASE ME!HandleCalc
  BY <1>16 DEF ME!HandleCalc, ME!Handling, ME!Ignored, ME!Stage, ME!FakeReadable,
     ME!HandleFrame, ME!analog, ME!app
<1>17. CASE ME!HandleDew
  BY <1>17 DEF ME!HandleDew, ME!Handling, ME!Ignored, ME!Stage, ME!Start, ME!Clean,
     ME!HandleFrame, ME!analog, ME!app
<1>18. QED
  BY <1>1, <1>2, <1>3, <1>4, <1>5, <1>6, <1>7, <1>8, <1>9, <1>10, <1>11, <1>12, <1>13, <1>14,
     <1>15, <1>16, <1>17 DEF StageStep, ME!Foreground, ME!Calibrate, ME!HandleAd

--------------------------------------------------------------------------------
(* Both together.                                                          *)

(* While a block is under way it fills with values of its channel; else     *)
(* the converter is at rest, and a single conversion runs only then.       *)
ConverterInv ==
    /\ adc \in Converters /\ raised \in BOOLEAN /\ single \in BOOLEAN
    /\ adc_stat = "IN_PROCESSING" =>
         /\ conv.chan \in ME!Channels
         /\ IF raised THEN Filled(adc, conv.chan) ELSE Filling(adc, conv.chan)
    /\ adc_stat # "IN_PROCESSING" =>
         /\ ~raised /\ Resting(adc)
         /\ IF ucADC1RunStus = "ADC_T" THEN adc.mode = "IDLE" ELSE adc.masked = TRUE
    /\ adc_stat = "READABLE" => conv.chan \in ME!Channels /\ Block(adc, conv.chan)
    /\ single => Recording /\ adc_stat # "IN_PROCESSING"

\* The stages, the converter and the pins.
DriveInv == StagesInv /\ ConverterInv /\ Follows(pwm, meas_on, heat_high)

\* All of it holds when the devices are opened.
LEMMA DriveInitInv == ASSUME ME!MeasureDriveAssumption, ME!DriveInit PROVE DriveInv
<1>1. StagesInv
  BY StagesInit DEF ME!DriveInit
<1>2. adc \in Converters /\ Resting(adc) /\ adc.mode = "IDLE"
  BY OpenedRests DEF ME!DriveInit
<1>3. ConverterInv
  BY <1>2 DEF ME!DriveInit, ME!Init, ConverterInv
<1>4. Follows(pwm, meas_on, heat_high)
  BY FollowsOpened DEF ME!DriveInit, ME!Init
<1>5. QED
  BY <1>1, <1>3, <1>4 DEF DriveInv

\* Seen from the stages, a step of the registers is one of theirs or none.
LEMMA DriveStep ==
  ASSUME DriveInv, ME!DriveNext
  PROVE  StageStep \/ UNCHANGED ME!vars
<1>1. CASE ME!DriveForeground
  BY <1>1 DEF ME!DriveForeground, ME!SingleBegin, ME!SingleEnd, StageStep, ME!Foreground,
     ME!Calibrate, ME!HandleAd
<1>2. CASE ME!Convert
  BY <1>2 DEF ME!Convert
<1>3. CASE ME!DmaDone
  BY <1>3 DEF ME!DmaDone, DriveInv, ConverterInv, StageStep, ME!AdcDone
<1>4. CASE ME!DriveExpire
  BY <1>4 DEF ME!DriveExpire, StageStep
<1>5. QED
  BY <1>1, <1>2, <1>3, <1>4 DEF ME!DriveNext

\* What the stages say is about their own variables.
LEMMA StagesStay == ASSUME StagesInv, UNCHANGED ME!vars PROVE StagesInv'
<1>1. /\ adc_stat' = adc_stat /\ m_ioc' = m_ioc /\ conv' = conv
      /\ meas_on' = meas_on /\ heat_high' = heat_high
      /\ ucSensorRunMode' = ucSensorRunMode /\ ucADC1RunStus' = ucADC1RunStus
      /\ m_ucCalibRecordTimes' = m_ucCalibRecordTimes /\ m_stuSensorData' = m_stuSensorData
      /\ due' = due /\ m_active' = m_active /\ m_pc' = m_pc /\ got' = got /\ round' = round
  BY DEF ME!vars, ME!analog, ME!app
<1>2. ME!TypeOK'
  BY <1>1 DEF StagesInv, ME!TypeOK
<1>3. Course'
  BY <1>1 DEF StagesInv, Course, InCallback, Recording
<1>4. Ready'
  BY <1>1 DEF StagesInv, Ready
<1>5. Chained'
  BY <1>1 DEF StagesInv, Chained, Sampling, Asked, Wanted
<1>6. ME!SamplesSound'
  BY <1>1 DEF StagesInv, ME!SamplesSound, ME!Fresh
<1>7. QED
  BY <1>2, <1>3, <1>4, <1>5, <1>6 DEF StagesInv

\* Every step keeps the stages, ...
LEMMA StagesKept ==
  ASSUME DriveInv, ME!DriveNext
  PROVE  StagesInv'
<1>1. CASE StageStep
  BY <1>1, TypesKept, CourseKept, ReadyKept, ChainedKept, SamplesKept DEF DriveInv, StagesInv
<1>2. CASE UNCHANGED ME!vars
  BY <1>2, StagesStay DEF DriveInv
<1>3. QED
  BY <1>1, <1>2, DriveStep

\* ... the pins ...
LEMMA PinsKept ==
  ASSUME DriveInv, ME!DriveNext
  PROVE  Follows(pwm, meas_on, heat_high)'
<1>1. pwm \in ME!P!Registers /\ "HEAT" \in pwm.GPOEN /\ Follows(pwm, meas_on, heat_high)
  BY DEF DriveInv, Follows
<1>2. CASE UNCHANGED <<pwm, meas_on, heat_high>>
  BY <1>1, <1>2 DEF Follows
<1>3. CASE pwm' = ME!Begin(pwm) /\ meas_on' = TRUE /\ heat_high' = TRUE
  BY <1>1, <1>3, FollowsHandlers
<1>4. CASE pwm' = ME!Wash(pwm) /\ meas_on' = FALSE /\ heat_high' = FALSE
  BY <1>1, <1>4, FollowsHandlers
<1>5. CASE pwm' = ME!Washed(pwm) /\ meas_on' = TRUE /\ heat_high' = TRUE
  BY <1>1, <1>5, FollowsHandlers
<1>6. CASE ME!HandleFirst /\ pwm' = IF got = ME!Empty THEN ME!Begin(pwm) ELSE pwm
  BY <1>2, <1>3, <1>6 DEF ME!HandleFirst, ME!analog
<1>7. CASE ME!CalibWash /\ pwm' = ME!Wash(pwm)
  BY <1>4, <1>7 DEF ME!CalibWash
<1>8. CASE ME!CalibFirst /\ pwm' = ME!Washed(pwm)
  BY <1>5, <1>8 DEF ME!CalibFirst
<1>9. CASE UNCHANGED pwm /\ (ME!HandleDew \/ ME!HandleTemp \/ ME!HandleHumi \/ ME!HandlePres \/ ME!HandleCalc)
  BY <1>2, <1>9 DEF ME!HandleDew, ME!HandleTemp, ME!HandleHumi, ME!HandlePres, ME!HandleCalc,
     ME!analog
<1>10. CASE UNCHANGED pwm /\ (ME!Poll \/ ME!CalibWait \/ ME!CalibLast \/ ME!ReadAd \/ ME!HandleIgnored)
  BY <1>2, <1>10 DEF ME!Poll, ME!CalibWait, ME!CalibLast, ME!ReadAd, ME!HandleIgnored, ME!analog
<1>11. CASE ME!SingleBegin \/ ME!SingleEnd
  BY <1>2, <1>11 DEF ME!SingleBegin, ME!SingleEnd, ME!RecordTemp, ME!RecordRhs, ME!vars, ME!analog
<1>12. CASE ME!Convert \/ ME!DmaDone \/ ME!DriveExpire
  BY <1>2, <1>12 DEF ME!Convert, ME!DmaDone, ME!DriveExpire, ME!Expire, ME!vars, ME!analog,
     ME!registers
<1>13. QED
  BY <1>6, <1>7, <1>8, <1>9, <1>10, <1>11, <1>12 DEF ME!DriveNext, ME!DriveForeground

\* A conversion is started when nothing is under way.
LEMMA StartedFills ==
  ASSUME ME!MeasureDriveAssumption, DriveInv, m_pc = "handle", NEW c \in ME!Channels, ME!Start(c), ME!Started(c)
  PROVE  ConverterInv'
<1>1. adc_stat = "NONE" /\ ConverterInv
  BY DEF DriveInv, StagesInv, Ready
<1>2. Resting(adc) /\ adc \in Converters /\ raised = FALSE /\ single = FALSE
  BY <1>1 DEF ConverterInv, Recording
<1>3. adc' \in Converters /\ Filling(adc', c)
  BY <1>2, StartFills DEF ME!Started
<1>4. adc_stat' = "IN_PROCESSING" /\ conv'.chan = c /\ raised' = FALSE /\ single' = FALSE
  BY <1>2 DEF ME!Start, ME!Started
<1>5. QED
  BY <1>3, <1>4 DEF ConverterInv

\* What does not touch the converter, nor what is known of it.
LEMMA ConverterRests ==
  ASSUME DriveInv, ME!Unconverted, conv'.chan = conv.chan, ~Recording,
         \/ adc_stat' = adc_stat
         \/ adc_stat # "IN_PROCESSING" /\ adc_stat' \in {"NONE", "READABLE_FAKE"},
         ucADC1RunStus = "ADC_T" <=> ucADC1RunStus' = "ADC_T"
  PROVE  ConverterInv'
<1>1. adc' = adc /\ raised' = raised /\ single' = FALSE
  BY DEF DriveInv, ConverterInv, ME!Unconverted
<1>2. CASE adc_stat' = adc_stat
  BY <1>1, <1>2 DEF DriveInv, ConverterInv
<1>3. CASE adc_stat # "IN_PROCESSING" /\ adc_stat' \in {"NONE", "READABLE_FAKE"}
  BY <1>1, <1>3 DEF DriveInv, ConverterInv
<1>4. QED
  BY <1>2, <1>3

\* ... and the converter.
LEMMA ConverterKept ==
  ASSUME ME!MeasureDriveAssumption, DriveInv, ME!DriveNext
  PROVE  ConverterInv'
<1> USE DEF ConverterInv
<1>1. ConverterInv /\ StagesInv
  BY DEF DriveInv
<1>2. CASE ME!HandleFirst /\ ME!Started("RTD")
  BY <1>2, StartedFills DEF ME!HandleFirst, ME!Handling, ME!Channels
<1>3. CASE ME!HandleDew /\ ME!Started("RTD")
  BY <1>3, StartedFills DEF ME!HandleDew, ME!Handling, ME!Channels
<1>4. CASE ME!HandleTemp /\ ME!Started("RHS")
  BY <1>4, StartedFills DEF ME!HandleTemp, ME!Handling, ME!Channels
<1>5. CASE ME!HandleHumi /\ ME!Started("PRS")
  BY <1>5, StartedFills DEF ME!HandleHumi, ME!Handling, ME!Channels
<1>6. CASE ME!CalibWash /\ ME!Unconverted
  <2>1. /\ ~Recording /\ conv'.chan = conv.chan
        /\ \/ adc_stat' = adc_stat
           \/ adc_stat # "IN_PROCESSING" /\ adc_stat' \in {"NONE", "READABLE_FAKE"}
        /\ ucADC1RunStus = "ADC_T" <=> ucADC1RunStus' = "ADC_T"
    BY <1>1, <1>6 DEF ME!CalibWash, Recording, StagesInv, ME!TypeOK, ME!Samples
  <2>2. QED
    BY <1>6, <2>1, ConverterRests
<1>7. CASE ME!CalibFirst /\ ME!Unconverted
  <2>1. /\ ~Recording /\ conv'.chan = conv.chan
        /\ \/ adc_stat' = adc_stat
           \/ adc_stat # "IN_PROCESSING" /\ adc_stat' \in {"NONE", "READABLE_FAKE"}
        /\ ucADC1RunStus = "ADC_T" <=> ucADC1RunStus' = "ADC_T"
    BY <1>1, <1>7 DEF ME!CalibFirst, Recording
  <2>2. QED
    BY <1>7, <2>1, ConverterRests
<1>8. CASE ME!SingleBegin
  <2>1. Recording /\ ucADC1RunStus # "ADC_T"
    BY <1>1, <1>8 DEF ME!SingleBegin, Recording, StagesInv, Course, InCallback
  <2>2. Resting(adc) /\ adc.masked = TRUE /\ raised = FALSE
    BY <1>1, <1>8, <2>1 DEF ME!SingleBegin
  <2>3. /\ adc' \in Converters /\ Resting(adc') /\ adc'.masked = TRUE /\ adc'.data = adc.data
    BY <1>1, <1>8, <2>2, SingleRests DEF ME!SingleBegin
  <2>4. /\ adc_stat' = adc_stat /\ conv' = conv /\ m_pc' = m_pc /\ ucADC1RunStus' = ucADC1RunStus
        /\ raised' = FALSE /\ adc_stat # "IN_PROCESSING" /\ single' = TRUE
    BY <1>8, <2>2 DEF ME!SingleBegin, ME!vars, ME!app
  <2>5. QED
    BY <1>1, <2>1, <2>3, <2>4 DEF Recording, Block
<1>9. CASE ME!SingleEnd
  <2>1. Recording /\ ucADC1RunStus # "ADC_T" /\ adc_stat # "IN_PROCESSING"
    BY <1>1, <1>9 DEF ME!SingleEnd, Recording, StagesInv, Course, InCallback
  <2>2. adc' \in Converters /\ Resting(adc') /\ adc'.masked = TRUE
    BY <1>1, <1>9, <2>1, ReadRests DEF ME!SingleEnd
  <2>3. /\ adc_stat' = "NONE" /\ ucADC1RunStus' = ucADC1RunStus
        /\ raised' = raised /\ single' = FALSE
    BY <1>9 DEF ME!SingleEnd, ME!RecordTemp, ME!RecordRhs, ME!GetSgl, ME!app
  <2>4. QED
    BY <1>1, <2>1, <2>2, <2>3
<1>10. CASE (ME!Poll \/ ME!CalibWait \/ ME!CalibLast \/ ME!HandleIgnored) /\ ME!Unconverted
  <2>1. /\ ~Recording /\ conv'.chan = conv.chan
        /\ \/ adc_stat' = adc_stat
           \/ adc_stat # "IN_PROCESSING" /\ adc_stat' \in {"NONE", "READABLE_FAKE"}
        /\ ucADC1RunStus = "ADC_T" <=> ucADC1RunStus' = "ADC_T"
    BY <1>1, <1>10 DEF ME!Poll, ME!CalibWait, ME!CalibLast, ME!HandleIgnored, Recording, ME!app
  <2>2. QED
    BY <1>10, <2>1, ConverterRests
<1>11. CASE ME!ReadAd /\ ME!Unconverted
  <2>1. /\ ~Recording /\ conv'.chan = conv.chan
        /\ \/ adc_stat' = adc_stat
           \/ adc_stat # "IN_PROCESSING" /\ adc_stat' \in {"NONE", "READABLE_FAKE"}
        /\ ucADC1RunStus = "ADC_T" <=> ucADC1RunStus' = "ADC_T"
    BY <1>1, <1>11 DEF ME!ReadAd, Recording, StagesInv, Ready, ME!app
  <2>2. QED
    BY <1>11, <2>1, ConverterRests
<1>12. CASE (ME!HandlePres \/ ME!HandleCalc) /\ ME!Unconverted
  <2>1. /\ ~Recording /\ conv'.chan = conv.chan
        /\ \/ adc_stat' = adc_stat
           \/ adc_stat # "IN_PROCESSING" /\ adc_stat' \in {"NONE", "READABLE_FAKE"}
        /\ ucADC1RunStus = "ADC_T" <=> ucADC1RunStus' = "ADC_T"
    BY <1>1, <1>12 DEF ME!HandlePres, ME!HandleCalc, ME!FakeReadable, ME!Handling, ME!Stage,
       ME!HandleFrame, Recording, StagesInv, Ready
  <2>2. QED
    BY <1>12, <2>1, ConverterRests
<1>13. CASE ME!Convert
  <2>1. /\ adc_stat' = adc_stat /\ conv' = conv /\ m_pc' = m_pc /\ ucADC1RunStus' = ucADC1RunStus
        /\ single' = single
    BY <1>13 DEF ME!Convert, ME!vars, ME!app
  <2>2. CASE adc_stat = "IN_PROCESSING" /\ raised
    <3>1. Filled(adc, conv.chan) /\ conv.chan \in ME!Channels
      BY <1>1, <2>2
    <3>2. adc' \in Converters /\ Filled(adc', conv.chan) /\ raised' = TRUE
      BY <1>1, <1>13, <2>2, <3>1, FilledStays DEF ME!Convert
    <3>3. QED
      BY <1>1, <2>1, <2>2, <3>1, <3>2 DEF Recording
  <2>3. CASE adc_stat = "IN_PROCESSING" /\ ~raised
    <3>1. Filling(adc, conv.chan) /\ conv.chan \in ME!Channels
      BY <1>1, <2>3
    <3>2. /\ adc' \in Converters /\ raised' = ME!A!Last(adc)
          /\ IF ME!A!Last(adc) THEN Filled(adc', conv.chan) ELSE Filling(adc', conv.chan)
      <4>1. adc \in Converters /\ adc' = ME!A!Converted(adc) /\ raised' = (raised \/ ME!A!Last(adc))
        BY <1>1, <1>13 DEF ME!Convert
      <4>2. /\ adc' \in Converters
            /\ ME!A!Last(adc) => Filled(adc', conv.chan)
            /\ ~ME!A!Last(adc) => Filling(adc', conv.chan)
        BY <3>1, <4>1, FillingGoes
      <4>3. raised' = ME!A!Last(adc)
        BY <2>3, <4>1 DEF ME!A!Last
      <4>4. QED
        BY <4>2, <4>3
    <3>3. QED
      BY <1>1, <2>1, <2>3, <3>1, <3>2 DEF Recording, ME!A!Last
  <2>4. CASE adc_stat # "IN_PROCESSING"
    BY <1>1, <1>13, <2>1, <2>4, RestingStays DEF ME!Convert, Recording, Block
  <2>5. QED
    BY <1>1, <2>2, <2>3, <2>4
<1>14. CASE ME!DmaDone
  <2>1. adc_stat = "IN_PROCESSING" /\ conv.chan \in ME!Channels /\ Block(adc, conv.chan)
    BY <1>1, <1>14 DEF ME!DmaDone, Filled
  <2>2. /\ adc' \in Converters /\ Resting(adc') /\ adc'.mode = "IDLE" /\ adc'.masked = TRUE
        /\ adc'.data = adc.data
    BY <1>1, <1>14, HandledRests DEF ME!DmaDone
  <2>3. adc_stat' = "READABLE" /\ conv' = conv /\ raised' = FALSE /\ single' = single
    BY <1>14 DEF ME!DmaDone
  <2>4. QED
    BY <1>1, <2>1, <2>2, <2>3 DEF Block
<1>15. CASE ME!DriveExpire
  <2>1. /\ UNCHANGED <<adc, raised, single>> /\ conv' = conv /\ ~Recording
        /\ adc_stat' = adc_stat /\ ucADC1RunStus' = ucADC1RunStus
    BY <1>15 DEF ME!DriveExpire, ME!Expire, ME!registers, Recording, ME!app
  <2>2. QED
    BY <2>1, ConverterRests DEF ME!Unconverted
<1>16. QED
  BY <1>2, <1>3, <1>4, <1>5, <1>6, <1>7, <1>8, <1>9, <1>10, <1>11, <1>12, <1>13, <1>14, <1>15
     DEF ME!DriveNext, ME!DriveForeground

\* So it is kept, and by steps of other parts too.
LEMMA DriveNextInv ==
  ASSUME ME!MeasureDriveAssumption, DriveInv, [ME!DriveNext]_<<ME!vars, ME!registers>>
  PROVE  DriveInv'
<1>1. CASE ME!DriveNext
  BY <1>1, StagesKept, PinsKept, ConverterKept DEF DriveInv
<1>2. CASE UNCHANGED <<ME!vars, ME!registers>>
  <2>1. /\ UNCHANGED <<adc_stat, m_ioc, conv, meas_on, heat_high, ucSensorRunMode, ucADC1RunStus,
                      m_ucCalibRecordTimes, m_stuSensorData, due, m_active, m_pc, got, round>>
        /\ UNCHANGED <<adc, pwm, raised, single>>
    BY <1>2 DEF ME!vars, ME!analog, ME!app, ME!registers
  <2>2. StagesInv'
    BY <1>2, StagesStay DEF DriveInv, ME!registers
  <2>3. adc' \in Converters /\ raised' \in BOOLEAN /\ single' \in BOOLEAN
    BY <2>1 DEF DriveInv, ConverterInv
  <2>4. ASSUME adc_stat' = "IN_PROCESSING"
        PROVE  /\ conv'.chan \in ME!Channels
               /\ IF raised' THEN Filled(adc', conv'.chan) ELSE Filling(adc', conv'.chan)
    BY <2>1, <2>4 DEF DriveInv, ConverterInv
  <2>5. ASSUME adc_stat' # "IN_PROCESSING"
        PROVE  /\ ~raised' /\ Resting(adc')
               /\ IF ucADC1RunStus' = "ADC_T" THEN adc'.mode = "IDLE" ELSE adc'.masked = TRUE
    BY <2>1, <2>5 DEF DriveInv, ConverterInv
  <2>9. /\ adc_stat' = "READABLE" => conv'.chan \in ME!Channels /\ Block(adc', conv'.chan)
        /\ single' => Recording' /\ adc_stat' # "IN_PROCESSING"
    BY <2>1 DEF DriveInv, ConverterInv, Recording
  <2>6. ConverterInv'
    BY <2>3, <2>4, <2>5, <2>9 DEF ConverterInv
  <2>7. Follows(pwm, meas_on, heat_high)'
    BY <2>1 DEF DriveInv, Follows
  <2>8. QED
    BY <2>2, <2>6, <2>7 DEF DriveInv
<1>3. QED
  BY <1>1, <1>2

\* It has in it what the run checks.
LEMMA DriveSound ==
  ASSUME ME!MeasureDriveAssumption, DriveInv
  PROVE  ME!DriveTypeOK /\ ME!SamplesSound /\ ME!PinsFollow /\ ME!BlockSound
<1>1. ME!DriveTypeOK
  <2>1. adc \in Converters
    BY DEF DriveInv, ConverterInv
  <2>2. adc.data \in Seq(ME!A!Setting) /\ Len(adc.data) = SampleLen
    <3>1. adc.data \in [1 .. SampleLen -> ME!A!Setting] /\ SampleLen \in Nat
      BY <2>1 DEF Converters, ME!MeasureDriveAssumption
    <3>2. QED
      BY <3>1
  <2>3. adc \in ME!A!Registers
    BY <2>1, <2>2 DEF Converters, ME!A!Registers
  <2>4. QED
    BY <2>2, <2>3 DEF DriveInv, StagesInv, ConverterInv, Follows, ME!DriveTypeOK
<1>2. ME!SamplesSound
  BY DEF DriveInv, StagesInv
<1>3. ME!PinsFollow
  <2>1. heat_high \in BOOLEAN /\ "HEAT" \in pwm.GPOEN /\ pwm.GP0 = meas_on
    BY DEF DriveInv, StagesInv, ME!TypeOK, Follows
  <2>2. heat_high <=> "HEAT" \notin pwm.GPCON /\ "HEAT" \in pwm.GPOUT
    BY DEF DriveInv, Follows
  <2>3. heat_high = ME!P!HeatHigh(pwm)
    BY <2>1, <2>2 DEF ME!P!HeatHigh
  <2>4. QED
    BY <2>1, <2>3 DEF ME!PinsFollow, ME!P!Measuring
<1>4. ME!BlockSound
  <2>1. adc_stat = "READABLE" => \A i \in 1 .. SampleLen : adc.data[i] = ME!Proper[conv.chan]
    BY DEF DriveInv, ConverterInv, Block
  <2>2. adc_stat = "IN_PROCESSING" <=> adc.mode = "CONT" \/ raised
    BY DEF DriveInv, ConverterInv, Filled, Filling, Resting
  <2>3. single => adc.masked
    BY DEF DriveInv, ConverterInv, StagesInv, Course, Recording, InCallback
  <2>4. QED
    BY <2>1, <2>2, <2>3 DEF ME!BlockSound
<1>5. QED
  BY <1>1, <1>2, <1>3, <1>4

\* A step of the composition is one of the measurement or leaves it alone.
LEMMA MeasureStep == ASSUME [MCNext]_mcvars PROVE [ME!DriveNext]_<<ME!vars, ME!registers>>
<1>1. UNCHANGED measurevars => UNCHANGED <<ME!vars, ME!registers>>
  BY DEF measurevars, ME!vars, ME!registers, ME!analog, ME!app
<1>2. CASE MCNext
  BY <1>1, <1>2 DEF MCNext
<1>3. CASE UNCHANGED mcvars
  BY <1>1, <1>3 DEF mcvars
<1>4. QED
  BY <1>2, <1>3

(* Samples are clean and of one round, the pins are as the handlers take   *)
(* them to be, and every value of a block was converted as its channel     *)
(* asks, for any length of a block and wherever in the chain of stages the *)
(* self-calibration begins (event_handle_ad and self_calib_handle).        *)
THEOREM MeasurementSound ==
    ASSUME ME!MeasureDriveAssumption
    PROVE  MCSpec => []MeasureSound
<1>1. MCInit => DriveInv
  BY DriveInitInv DEF MCInit
<1>2. DriveInv /\ [MCNext]_mcvars => DriveInv'
  BY MeasureStep, DriveNextInv
<1>3. DriveInv => MeasureSound
  BY DriveSound DEF MeasureSound
<1>4. QED
  BY <1>1, <1>2, <1>3, PTL DEF MCSpec

--------------------------------------------------------------------------------
(* From reset to the loop.                                                 *)

\* What main calls, and for which device.
MainCall ==
    {"hal_init", "irq", "startup", "pendsv", "open", "baud", "config", "enable", "callback",
     "m_peventloop", "run_every", "fake", "loop"} \X
    {"all", "on", "timer", "install", "pin", "pwm", "ad", "storage", "commu", "set", "load",
     "event", "timers", "poll"}
\* p is s, of m calls, followed by t, of n.
Joins(p, s, m, t, n) ==
    /\ p \in Seq(MainCall) /\ Len(p) = m + n
    /\ \A i \in 1 .. m + n : p[i] = IF i <= m THEN s[i] ELSE t[i - m]

\* Joining two sequences of calls.
LEMMA Joined ==
    ASSUME NEW s \in Seq(MainCall), NEW t \in Seq(MainCall)
    PROVE  Joins(s \o t, s, Len(s), t, Len(t))
BY ConcatProperties DEF Joins

\* The calls of main, each at its place.
LEMMA ProgramIs ==
    \A i \in 1 .. 23 :
        DV!Program[i] = IF i <= 3 THEN DV!BringUp[i]
                        ELSE IF i = 4 THEN <<"pendsv", "install">>
                        ELSE IF i <= 9 THEN DV!OpenApp[i - 4]
                        ELSE IF i <= 11 THEN DV!Settings[i - 9]
                        ELSE IF i = 12 THEN <<"open", "event">>
                        ELSE IF i <= 15 THEN DV!new_timerqueue[i - 12]
                        ELSE IF i = 16 THEN <<"callback", "event">>
                        ELSE IF i = 17 THEN <<"enable", "event">>
                        ELSE DV!Run[i - 17]
<1>1. DV!BringUp \in Seq(MainCall) /\ Len(DV!BringUp) = 3
  BY DEF DV!BringUp, DV!hal_init, MainCall
<1>2. /\ DV!Handler \in Seq(MainCall) /\ Len(DV!Handler) = 1
      /\ DV!Handler[1] = <<"pendsv", "install">>
  BY DEF DV!Handler, MainCall
<1>3. DV!OpenApp \in Seq(MainCall) /\ Len(DV!OpenApp) = 5
  BY DEF DV!OpenApp, MainCall
<1>4. DV!Settings \in Seq(MainCall) /\ Len(DV!Settings) = 2
  BY DEF DV!Settings, MainCall
<1>5. DV!new_timerqueue \in Seq(MainCall) /\ Len(DV!new_timerqueue) = 3
  BY DEF DV!new_timerqueue, MainCall
<1>6. DV!Run \in Seq(MainCall) /\ Len(DV!Run) = 6
  BY DEF DV!Run, MainCall
<1> DEFINE Opened  == << <<"open", "event">> >>
           Enabled == << <<"callback", "event">>, <<"enable", "event">> >>
<1>7. Opened \in Seq(MainCall) /\ Len(Opened) = 1 /\ Opened[1] = <<"open", "event">>
  BY DEF MainCall
<1>8. /\ Enabled \in Seq(MainCall) /\ Len(Enabled) = 2
      /\ Enabled[1] = <<"callback", "event">> /\ Enabled[2] = <<"enable", "event">>
  BY DEF MainCall
<1> DEFINE L1 == Opened \o DV!new_timerqueue
           L2 == L1 \o Enabled
           P1 == DV!BringUp \o DV!Handler
           P2 == P1 \o DV!OpenApp
           P3 == P2 \o DV!Settings
           P4 == P3 \o L2
           P5 == P4 \o DV!Run
<1>9. DV!Program = P5
  BY DEF DV!Program, DV!NewLoop
<1> HIDE DEF Opened, Enabled, L1, L2, P1, P2, P3, P4, P5
<1>10. Joins(L1, Opened, 1, DV!new_timerqueue, 3)
  <2>1. Opened \in Seq(MainCall) /\ Len(Opened) = 1 /\ DV!new_timerqueue \in Seq(MainCall) /\ Len(DV!new_timerqueue) = 3
    BY <1>7, <1>5
  <2>2. QED
    BY <2>1, Joined DEF L1
<1>11. Joins(L2, L1, 4, Enabled, 2)
  <2>1. L1 \in Seq(MainCall) /\ Len(L1) = 4 /\ Enabled \in Seq(MainCall) /\ Len(Enabled) = 2
    BY <1>10, <1>8 DEF Joins
  <2>2. QED
    BY <2>1, Joined DEF L2
<1>12. Joins(P1, DV!BringUp, 3, DV!Handler, 1)
  <2>1. DV!BringUp \in Seq(MainCall) /\ Len(DV!BringUp) = 3 /\ DV!Handler \in Seq(MainCall) /\ Len(DV!Handler) = 1
    BY <1>1, <1>2
  <2>2. QED
    BY <2>1, Joined DEF P1
<1>13. Joins(P2, P1, 4, DV!OpenApp, 5)
  <2>1. P1 \in Seq(MainCall) /\ Len(P1) = 4 /\ DV!OpenApp \in Seq(MainCall) /\ Len(DV!OpenApp) = 5
    BY <1>12, <1>3 DEF Joins
  <2>2. QED
    BY <2>1, Joined DEF P2
<1>14. Joins(P3, P2, 9, DV!Settings, 2)
  <2>1. P2 \in Seq(MainCall) /\ Len(P2) = 9 /\ DV!Settings \in Seq(MainCall) /\ Len(DV!Settings) = 2
    BY <1>13, <1>4 DEF Joins
  <2>2. QED
    BY <2>1, Joined DEF P3
<1>15. Joins(P4, P3, 11, L2, 6)
  <2>1. P3 \in Seq(MainCall) /\ Len(P3) = 11 /\ L2 \in Seq(MainCall) /\ Len(L2) = 6
    BY <1>14, <1>11 DEF Joins
  <2>2. QED
    BY <2>1, Joined DEF P4
<1>16. Joins(P5, P4, 17, DV!Run, 6)
  <2>1. P4 \in Seq(MainCall) /\ Len(P4) = 17 /\ DV!Run \in Seq(MainCall) /\ Len(DV!Run) = 6
    BY <1>15, <1>6 DEF Joins
  <2>2. QED
    BY <2>1, Joined DEF P5
<1>17. TAKE i \in 1 .. 23
<1>18. DV!Program[i] = IF i <= 17 THEN P4[i] ELSE DV!Run[i - 17]
  BY <1>9, <1>16 DEF Joins
<1>19. i <= 17 => P4[i] = IF i <= 11 THEN P3[i] ELSE L2[i - 11]
  BY <1>15 DEF Joins
<1>20. i <= 11 => P3[i] = IF i <= 9 THEN P2[i] ELSE DV!Settings[i - 9]
  BY <1>14 DEF Joins
<1>21. i <= 9 => P2[i] = IF i <= 4 THEN P1[i] ELSE DV!OpenApp[i - 4]
  BY <1>13 DEF Joins
<1>22. i <= 4 => P1[i] = IF i <= 3 THEN DV!BringUp[i] ELSE <<"pendsv", "install">>
  BY <1>2, <1>12 DEF Joins
<1>23. i \in 12 .. 17 => L2[i - 11] = IF i <= 15 THEN L1[i - 11] ELSE Enabled[i - 15]
  BY <1>11 DEF Joins
<1>24. i \in 12 .. 15 => L1[i - 11] = IF i = 12 THEN Opened[1] ELSE DV!new_timerqueue[i - 12]
  BY <1>10 DEF Joins
<1>25. CASE i \in 1 .. 11
  BY <1>18, <1>19, <1>20, <1>21, <1>22, <1>25
<1>26. CASE i \in 12 .. 15
  BY <1>7, <1>18, <1>19, <1>23, <1>24, <1>26
<1>27. CASE i \in {16, 17}
  <2>1. /\ i = 16 => Enabled[i - 15] = <<"callback", "event">>
        /\ i = 17 => Enabled[i - 15] = <<"enable", "event">>
    BY <1>8
  <2>2. QED
    BY <2>1, <1>18, <1>19, <1>23, <1>27
<1>28. CASE i \in 18 .. 23
  BY <1>18, <1>28
<1>29. QED
  BY <1>25, <1>26, <1>27, <1>28

\* The drivers, in no order.
LEMMA DriversAre == DV!Drivers = {"event", "timer", "ad", "pin", "commu", "storage", "pwm"}
BY DEF DV!Drivers, DV!Array, DV!ToSet

\* What the order of the calls says: the handler comes before the first open, the loop
\* comes last, and what is enabled and called back is a channel.
LEMMA Calls ==
    ASSUME s_pc \in 1 .. 23
    PROVE  /\ DV!Doing = "loop" <=> s_pc = 23
           /\ DV!Doing = "pendsv" <=> s_pc = 4
           /\ DV!Doing = "open" => s_pc > 4
           /\ DV!Doing = "startup" => DV!Subject = "timer"
           /\ DV!Doing = "open" => DV!Subject \in DV!Drivers
           /\ DV!Doing \in {"enable", "callback"} => DV!Subject \in DV!Channels
BY ProgramIs, DriversAre DEF DV!Doing, DV!Subject, DV!BringUp, DV!hal_init, DV!OpenApp, DV!Settings,
   DV!new_timerqueue, DV!Run, DV!Channels

(* How far main has come, what it has found, and that the interrupt of the *)
(* UART is not let in before there are a handler and a device object.      *)
MainInv ==
    /\ s_pc \in 1 .. 23
    /\ s_pc > 4 => installed
    /\ at # "call" /\ DV!Doing = "open" => DV!Subject \in handle
    /\ irq => DV!Listens

\* PendSV is triggered as long as a request waits, and the flags are flags.
LineInv ==
    /\ frames \in Seq({"read", "write"}) /\ (pending <=> frames # <<>>) /\ (pending => irq)
    /\ openFlag \in [DV!Drivers -> SUBSET DV!OpenFlags]

\* Only channels are polled and called back.
ChannelInv == channels \in Seq(DV!Channels) /\ callbacks \subseteq DV!Channels

\* No read waits, times out or fills more than it was given.
ReadInv ==
    /\ ~waiting /\ m_offline_cnt = [d \in DV!Drivers |-> 0]
    /\ read_.rt \in 0 .. read_.size /\ read_.touched <= read_.size

\* The inductive invariant of the way from reset to the loop.
StartInv == MainInv /\ LineInv /\ ChannelInv /\ ReadInv

\* It holds at reset.
LEMMA StartInit == DV!DeviceInit => StartInv
<1> SUFFICES ASSUME DV!DeviceInit PROVE StartInv
  OBVIOUS
<1>1. MainInv
  BY DEF DV!DeviceInit, DV!Init, MainInv
<1>2. LineInv
  BY DEF DV!DeviceInit, DV!Init, LineInv
<1>3. ChannelInv
  BY DEF DV!DeviceInit, DV!Init, ChannelInv
<1>4. ReadInv
  BY DEF DV!DeviceInit, ReadInv
<1>5. QED
  BY <1>1, <1>2, <1>3, <1>4 DEF StartInv

\* A call that returns leaves main at the next one.
LEMMA Returned ==
    ASSUME MainInv, DV!Return, DV!Doing # "loop", DV!Doing # "pendsv",
           installed' = installed, irq' => DV!Listens'
    PROVE  MainInv'
BY Calls DEF MainInv, DV!Return

\* Every step of the foreground keeps the course: the line is opened after the handler has
\* been installed, and by a device object that keeps what it has found.
LEMMA MainKept == ASSUME MainInv, DV!Foreground PROVE MainInv'
<1>1. CASE DV!Register
  BY <1>1 DEF DV!Register, DV!Does, DV!reactor, DV!serial, MainInv, DV!Listens, DV!Doing
<1>2. CASE \/ DV!InitAll \/ DV!EnableInterrupts \/ DV!Settle \/ DV!Enable
           \/ DV!RegisterCallback \/ DV!SetLoop \/ DV!StartTimers \/ DV!FakeReadable
  <2>1. /\ DV!Return /\ UNCHANGED <<handle, installed, irq>>
        /\ DV!Doing # "loop" /\ DV!Doing # "pendsv"
    BY <1>2 DEF DV!InitAll, DV!EnableInterrupts, DV!Settle, DV!Enable, DV!RegisterCallback,
       DV!SetLoop, DV!StartTimers, DV!FakeReadable, DV!Does, DV!device, DV!serial
  <2>2. irq' => DV!Listens'
    BY <2>1 DEF MainInv, DV!Listens
  <2>3. QED
    BY <2>1, <2>2, Returned
<1>3. CASE DV!OpenFind
  <2>1. /\ UNCHANGED <<s_pc, installed, irq>> /\ handle \subseteq handle'
        /\ DV!Doing = "open" => DV!Subject \in handle'
    BY <1>3 DEF DV!OpenFind, DV!Found, DV!serial
  <2>2. DV!Doing' = DV!Doing /\ DV!Subject' = DV!Subject
    BY <2>1 DEF DV!Doing, DV!Subject
  <2>3. QED
    BY <2>1, <2>2 DEF MainInv, DV!Listens
<1>4. CASE DV!OpenInit
  <2>1. UNCHANGED <<s_pc, handle, installed, irq>> /\ at = "init"
    BY <1>4 DEF DV!OpenInit, DV!Busy, DV!serial
  <2>2. DV!Doing' = DV!Doing /\ DV!Subject' = DV!Subject
    BY <2>1 DEF DV!Doing, DV!Subject
  <2>3. QED
    BY <2>1, <2>2 DEF MainInv, DV!Listens
<1>5. CASE DV!OpenDriver
  <2>1. /\ UNCHANGED <<s_pc, handle, installed>> /\ at = "open"
        /\ irq' = (irq \/ "irq" \in DV!LetsIn[DV!Subject])
        /\ DV!Doing \in {"open", "startup"}
    BY <1>5 DEF DV!OpenDriver, DV!Opens, DV!Does
  <2>2. DV!Doing' = DV!Doing /\ DV!Subject' = DV!Subject
    BY <2>1 DEF DV!Doing, DV!Subject
  <2>3. CASE DV!Doing = "startup"
    <3>1. "irq" \notin DV!LetsIn[DV!Subject]
      BY <2>3, Calls DEF MainInv, DV!LetsIn, DV!timer_open
    <3>2. QED
      BY <2>1, <2>2, <2>3, <3>1 DEF MainInv, DV!Listens
  <2>4. CASE DV!Doing = "open"
    <3>1. installed /\ DV!Subject \in handle
      BY <2>1, <2>4, Calls DEF MainInv
    <3>2. CASE DV!Subject = "commu"
      BY <2>1, <2>2, <3>1, <3>2 DEF MainInv, DV!Listens
    <3>3. CASE DV!Subject # "commu"
      <4>1. DV!Subject \in DV!Drivers
        BY <2>4, Calls DEF MainInv
      <4>2. "irq" \notin DV!LetsIn[DV!Subject]
        BY <3>3, <4>1, DriversAre DEF DV!LetsIn, DV!timer_open, DV!event_open, DV!ad_open,
           DV!pin_open, DV!storage_open, DV!pwm_open
      <4>3. QED
        BY <2>1, <2>2, <3>1, <4>2 DEF MainInv, DV!Listens
    <3>4. QED
      BY <3>2, <3>3
  <2>5. QED
    BY <2>1, <2>3, <2>4
<1>6. CASE DV!OpenFlag
  <2>1. /\ DV!Return /\ UNCHANGED <<handle, installed, irq>>
        /\ DV!Doing # "loop" /\ DV!Doing # "pendsv"
    BY <1>6 DEF DV!OpenFlag, DV!Opens, DV!Does, DV!serial
  <2>2. irq' => DV!Listens'
    BY <2>1 DEF MainInv, DV!Listens
  <2>3. QED
    BY <2>1, <2>2, Returned
<1>7. CASE DV!InstallHandler
  <2>1. s_pc = 4 /\ s_pc' = 5 /\ at' = "call" /\ installed' /\ UNCHANGED <<handle, irq>>
    BY <1>7, Calls DEF MainInv, DV!InstallHandler, DV!Does, DV!Return, DV!device
  <2>2. QED
    BY <2>1 DEF MainInv, DV!Listens
<1>8. CASE DV!Poll \/ DV!HandleEvent
  <2>1. UNCHANGED <<s_pc, at, handle, installed, irq>>
    BY <1>8 DEF DV!Poll, DV!HandleEvent, DV!device, DV!serial
  <2>2. DV!Doing' = DV!Doing /\ DV!Subject' = DV!Subject
    BY <2>1 DEF DV!Doing, DV!Subject
  <2>3. QED
    BY <2>1, <2>2 DEF MainInv, DV!Listens
<1>9. QED
  BY <1>1, <1>2, <1>3, <1>4, <1>5, <1>6, <1>7, <1>8 DEF DV!Foreground, DV!Open

\* The foreground does not take requests, nor the interrupt of the UART away.
LEMMA LineKept == ASSUME LineInv, DV!Foreground PROVE LineInv'
<1>1. UNCHANGED <<frames, pending>> /\ (irq => irq')
  <2>1. CASE DV!OpenDriver
    <3>1. UNCHANGED <<frames, pending>> /\ irq' = (irq \/ "irq" \in DV!LetsIn[DV!Subject])
      BY <2>1 DEF DV!OpenDriver
    <3>2. QED
      BY <3>1
  <2>2. CASE DV!InstallHandler
    BY <2>2 DEF DV!InstallHandler
  <2>3. CASE UNCHANGED DV!serial
    BY <2>3 DEF DV!serial
  <2>4. QED
    BY <2>1, <2>2, <2>3 DEF DV!Foreground, DV!Register, DV!InitAll, DV!EnableInterrupts, DV!Open,
       DV!OpenFind, DV!OpenInit, DV!OpenFlag, DV!Settle, DV!Enable, DV!RegisterCallback,
       DV!SetLoop, DV!StartTimers, DV!FakeReadable, DV!Poll, DV!HandleEvent
<1>2. openFlag' \in [DV!Drivers -> SUBSET DV!OpenFlags]
  <2>1. CASE DV!InitAll \/ DV!OpenInit \/ DV!OpenFlag
    BY <2>1 DEF LineInv, DV!InitAll, DV!OpenInit, DV!OpenFlag, DV!OpenFlags
  <2>2. CASE openFlag' = openFlag
    BY <2>2 DEF LineInv
  <2>3. QED
    BY <2>1, <2>2 DEF DV!Foreground, DV!Register, DV!EnableInterrupts, DV!Open, DV!OpenFind,
       DV!OpenDriver, DV!InstallHandler, DV!Settle, DV!Enable, DV!RegisterCallback, DV!SetLoop,
       DV!StartTimers, DV!FakeReadable, DV!Poll, DV!HandleEvent, DV!device
<1>3. QED
  BY <1>1, <1>2 DEF LineInv

\* It enables and calls back channels only.
LEMMA ChannelKept == ASSUME MainInv, ChannelInv, DV!Foreground PROVE ChannelInv'
<1>1. CASE DV!Enable
  <2>1. DV!Subject \in DV!Channels
    BY <1>1, Calls DEF MainInv, DV!Enable, DV!Does
  <2>2. <<DV!Subject>> \in Seq(DV!Channels)
    BY <2>1
  <2>3. DV!Inserted(DV!Subject) \in Seq(DV!Channels)
    BY <2>2, ConcatProperties DEF ChannelInv, DV!Inserted
  <2>4. QED
    BY <1>1, <2>3 DEF ChannelInv, DV!Enable
<1>2. CASE DV!RegisterCallback
  BY <1>2, Calls DEF MainInv, ChannelInv, DV!RegisterCallback, DV!Does
<1>3. CASE UNCHANGED <<channels, callbacks>>
  BY <1>3 DEF ChannelInv
<1>4. QED
  BY <1>1, <1>2, <1>3 DEF DV!Foreground, DV!Register, DV!InitAll, DV!EnableInterrupts, DV!Open,
     DV!OpenFind, DV!OpenInit, DV!OpenDriver, DV!OpenFlag, DV!InstallHandler, DV!Settle,
     DV!SetLoop, DV!StartTimers, DV!FakeReadable, DV!Poll, DV!HandleEvent, DV!reactor

\* What it reads of a channel fits, and is no timeout.
LEMMA ReadsKept == ASSUME ChannelInv, ReadInv, DV!DeviceForeground PROVE ReadInv'
<1>1. CASE DV!Reads
  <2>1. Head(active) \in DV!Channels
    BY <1>1 DEF DV!Reads, ChannelInv
  <2> DEFINE d == Head(active)
  <2>2. "read" \in DV!Interface[d]
    BY <2>1 DEF DV!Channels, DV!Interface, DV!drv_event, DV!drv_timer, DV!drv_ad
  <2>3. PICK got_ \in DV!API_DeviceRead(d, DV!ChannelSize) :
           /\ read_' = [size |-> DV!ChannelSize, rt |-> got_.rt, touched |-> got_.touched]
           /\ m_offline_cnt' = [m_offline_cnt EXCEPT ![d] = DV!Counted(@, got_.rt, got_.error)]
    BY <1>1 DEF DV!DeviceForeground, DV!ChannelRead
  <2>4. got_.rt \in {0, 4} /\ got_.touched \in {0, 4}
    BY <2>2, <2>3 DEF DV!API_DeviceRead, DV!AdRead, DV!CountRead, DV!Result, DV!Least, DV!Word,
       DV!ChannelSize
  <2>5. read_'.rt \in 0 .. read_'.size /\ read_'.touched <= read_'.size
    BY <2>3, <2>4 DEF DV!ChannelSize
  <2>6. m_offline_cnt' = [c \in DV!Drivers |-> 0]
    BY <2>3, <2>4 DEF ReadInv, DV!Counted
  <2>7. QED
    BY <2>5, <2>6 DEF ReadInv, DV!DeviceForeground
<1>2. CASE ~DV!Reads
  BY <1>2 DEF ReadInv, DV!DeviceForeground
<1>3. QED
  BY <1>1, <1>2

\* PendSV finds handler and device object, takes one request, and does not wait for another.
LEMMA HandlerKeeps == ASSUME StartInv, DV!DevicePendSV PROVE StartInv'
<1>1. DV!Listens /\ frames \in Seq({"read", "write"}) /\ frames # <<>> /\ irq
  BY DEF StartInv, MainInv, LineInv, DV!DevicePendSV, DV!PendSV
<1>2. /\ frames' = Tail(frames) /\ (pending' <=> frames' # <<>>)
      /\ openFlag' = [openFlag EXCEPT !["commu"] = @ \cup {"NONBLOCK"}]
      /\ UNCHANGED <<s_pc, at, handle, installed, irq, channels, callbacks, read_>>
  BY <1>1 DEF DV!DevicePendSV, DV!PendSV, DV!pendsv_handle, DV!NonBlocking, DV!reactor
<1>3. MainInv'
  BY <1>2 DEF StartInv, MainInv, DV!Doing, DV!Subject, DV!Listens
<1>4. frames' \in Seq({"read", "write"})
  BY <1>1, <1>2
<1>5. openFlag' \in [DV!Drivers -> SUBSET DV!OpenFlags] /\ "NONBLOCK" \in openFlag'["commu"]
  BY <1>2, DriversAre DEF StartInv, LineInv, DV!OpenFlags
<1>6. LineInv'
  BY <1>1, <1>2, <1>4, <1>5 DEF LineInv
<1>7. ChannelInv'
  BY <1>2 DEF StartInv, ChannelInv
<1>8. ~waiting' /\ m_offline_cnt' = [d \in DV!Drivers |-> 0]
  BY <1>1, <1>5 DEF StartInv, ReadInv, DV!DevicePendSV, DV!Counted, DV!NoFrame
<1>9. ReadInv'
  BY <1>2, <1>8 DEF StartInv, ReadInv
<1>10. QED
  BY <1>3, <1>6, <1>7, <1>9 DEF StartInv

\* What leaves main, channels and reads alone has the line to care for only.
LEMMA StartStays ==
    ASSUME StartInv, UNCHANGED <<s_pc, at, handle, installed, irq, channels, callbacks, openFlag>>,
           UNCHANGED <<waiting, m_offline_cnt, read_>>, LineInv'
    PROVE  StartInv'
<1>1. MainInv'
  BY DEF StartInv, MainInv, DV!Doing, DV!Subject, DV!Listens
<1>2. ChannelInv'
  BY DEF StartInv, ChannelInv
<1>3. ReadInv'
  BY DEF StartInv, ReadInv
<1>4. QED
  BY <1>1, <1>2, <1>3 DEF StartInv

\* So every step keeps it.
LEMMA StartNext == ASSUME StartInv, [DV!DeviceNext]_startvars PROVE StartInv'
<1>1. CASE DV!DeviceForeground
  BY <1>1, MainKept, LineKept, ChannelKept, ReadsKept DEF StartInv, DV!DeviceForeground
<1>2. CASE DV!DevicePendSV
  BY <1>2, HandlerKeeps
<1>3. CASE DV!Interrupt /\ DV!Due
  <2>1. /\ UNCHANGED <<s_pc, at, handle, installed, irq, channels, callbacks, openFlag>>
        /\ UNCHANGED <<waiting, m_offline_cnt, read_>> /\ UNCHANGED <<frames, pending>>
    BY <1>3 DEF DV!Interrupt, DV!Due, DV!device, DV!reactor, DV!serial, DV!layer
  <2>2. LineInv'
    BY <2>1 DEF StartInv, LineInv
  <2>3. QED
    BY <2>1, <2>2, StartStays
<1>4. CASE DV!Interrupt /\ DV!Request
  <2>1. /\ UNCHANGED <<s_pc, at, handle, installed, irq, channels, callbacks, openFlag>>
        /\ UNCHANGED <<waiting, m_offline_cnt, read_>>
        /\ irq /\ pending'
    BY <1>4 DEF DV!Interrupt, DV!Request, DV!device, DV!reactor, DV!layer
  <2>2. PICK f \in {"read", "write"} : frames' = Append(frames, f)
    BY <1>4 DEF DV!Request
  <2>3. frames' \in Seq({"read", "write"}) /\ frames' # <<>>
    BY <2>2, AppendProperties DEF StartInv, LineInv
  <2>4. LineInv'
    BY <2>1, <2>3 DEF StartInv, LineInv
  <2>5. QED
    BY <2>1, <2>4, StartStays
<1>5. CASE UNCHANGED startvars
  <2>1. /\ UNCHANGED <<s_pc, at, handle, installed, irq, channels, callbacks, openFlag>>
        /\ UNCHANGED <<waiting, m_offline_cnt, read_>> /\ UNCHANGED <<frames, pending>>
    BY <1>5 DEF startvars
  <2>2. LineInv'
    BY <2>1 DEF StartInv, LineInv
  <2>3. QED
    BY <2>1, <2>2, StartStays
<1>6. QED
  BY <1>1, <1>2, <1>3, <1>4, <1>5 DEF DV!DeviceNext, DV!Interrupt

\* Every driver with commands has the function for them.
LEMMA CommandsServed ==
    ASSUME NEW d \in DV!Drivers, NEW cmd \in DV!Commands(d) PROVE DV!Called(d, cmd)
<1>1. DV!Numbered = [commu |-> 2, ad |-> 6, pwm |-> 10]
  BY DEF DV!Numbered
<1>2. d \in {"commu", "ad", "pwm"}
  BY DEF DV!Commands, DV!Numbered
<1>3. "control" \in DV!Interface[d]
  BY <1>2 DEF DV!Interface, DV!drv_commu, DV!drv_ad, DV!drv_pwm
<1>4. cmd >= DV!DEVICE_IOC_USER /\ ~(cmd < DV!DEVICE_IOC_USER)
  BY <1>2 DEF DV!Commands, DV!DEVICE_IOC_USER, DV!Numbered
<1>5. QED
  BY <1>3, <1>4 DEF DV!Called, DV!ioctl

\* It has in it what the run checks.
LEMMA StartSound ==
    ASSUME StartInv
    PROVE  /\ DV!QuietServed /\ DV!NeverWaits /\ DV!OwnErrors /\ DV!ReadsFit /\ DV!CallsServed
<1>1. DV!QuietServed /\ DV!NeverWaits /\ DV!ReadsFit
  BY DEF StartInv, LineInv, ReadInv, DV!QuietServed, DV!NeverWaits, DV!ReadsFit
<1>2. DV!OwnErrors
  BY DEF StartInv, ReadInv, DV!OwnErrors, DV!Online
<1>3. DV!CallsServed
  <2>1. \A c \in DV!Channels : {"read", "poll"} \subseteq DV!Interface[c]
    BY DEF DV!Channels, DV!Interface, DV!drv_event, DV!drv_timer, DV!drv_ad
  <2>2. DV!ToSet(channels) \subseteq DV!Channels
    BY DEF StartInv, ChannelInv, DV!ToSet
  <2>3. \A d \in {"storage", "commu"} : "read" \in DV!Interface[d] /\ DV!API_DeviceWrite(d) = "OK"
    BY DEF DV!Interface, DV!drv_storage, DV!drv_commu, DV!API_DeviceWrite
  <2>4. QED
    BY <2>1, <2>2, <2>3, CommandsServed DEF DV!CallsServed
<1>4. QED
  BY <1>1, <1>2, <1>3

\* A step of the composition is one of the devices or leaves them alone.
LEMMA StartStep == ASSUME [MCNext]_mcvars PROVE [DV!DeviceNext]_startvars
<1>1. CASE MCNext
  BY <1>1 DEF MCNext
<1>2. CASE UNCHANGED mcvars
  BY <1>2 DEF mcvars
<1>3. QED
  BY <1>1, <1>2

(* From reset on no request is left lying, PendSV never waits for one, no  *)
(* device counts the timeouts of another, what a channel reads fits its    *)
(* buffer, and no call meets a driver without a function for it            *)
(* (main.cpp, package_event_fetch, device::read), however many requests    *)
(* come and whatever they are.                                             *)
THEOREM StartUpServes == MCSpec => []RequestsServed
<1>1. MCInit => StartInv
  BY StartInit DEF MCInit
<1>2. StartInv /\ [MCNext]_mcvars => StartInv'
  BY StartStep, StartNext
<1>3. StartInv => RequestsServed
  BY StartSound DEF RequestsServed
<1>4. QED
  BY <1>1, <1>2, <1>3, PTL DEF MCSpec

--------------------------------------------------------------------------------
(* The registers of the serial line, and the lines that go out.            *)

\* The registers of the line, and of them what only start-up and the baud rate set.
LineFields ==
    {"wdt_irq", "cd", "urt_cd", "div2", "clk_dis", "COMDIV", "FBEN", "N", "COMIEN", "bits", "con",
     "oen", "oce", "out", "DMACFG", "desc", "masked", "enabled", "COMTX", "request", "done"}

\* Those that LineIsSet is about.
SetFields ==
    {"wdt_irq", "cd", "urt_cd", "div2", "clk_dis", "COMDIV", "FBEN", "N", "COMIEN", "bits", "con",
     "oen"}

\* The DMA descriptor.
DescFields == {"src", "dest", "left", "cycle", "src_inc", "dst_inc"}

\* Registers are records: what EXCEPT makes of them has the same fields.
Shaped(g) ==
    /\ DOMAIN g = LineFields /\ g = [k \in LineFields |-> g[k]]
    /\ DOMAIN g.con = 0 .. 7 /\ g.con = [k \in 0 .. 7 |-> g.con[k]]
    /\ DOMAIN g.desc = DescFields /\ g.desc = [k \in DescFields |-> g.desc[k]]

\* Everything that setting up the UART does not touch.
NotSet == {"wdt_irq", "cd", "urt_cd", "div2", "clk_dis", "DMACFG", "masked", "enabled", "COMTX",
         "request", "done"}

\* The pins of the line: P0.4 turns the driver, P0.6 and P0.7 are those of the UART.
LEMMA PinsSet ==
    ASSUME NEW g, Shaped(g)
    PROVE  LET h == LS!uart_pins(g)
           IN  /\ Shaped(h) /\ (\A k \in LineFields \ {"con", "oen", "oce"} : h[k] = g[k])
               /\ h.con[4] = 0 /\ 4 \in h.oen /\ h.con[6] = 1 /\ h.con[7] = 2
<1> DEFINE a == LS!DioCfgPin(g, 4, 0)
           b == LS!DioOcePin(a, 4)
           c == LS!DioOenPin(b, 4)
           d == LS!DioCfgPin(c, 6, 1)
           h == LS!DioCfgPin(d, 7, 2)
<1>6. h = LS!uart_pins(g)
  BY DEF LS!uart_pins
<1>1. /\ Shaped(a) /\ (\A k \in LineFields \ {"con"} : a[k] = g[k])
      /\ a.con = [g.con EXCEPT ![4] = 0]
  BY DEF LS!DioCfgPin, Shaped, LineFields
<1> HIDE DEF a
<1>2. Shaped(b) /\ \A k \in LineFields \ {"oce"} : b[k] = a[k]
  BY <1>1 DEF LS!DioOcePin, Shaped, LineFields
<1> HIDE DEF b
<1>3. Shaped(c) /\ (\A k \in LineFields \ {"oen"} : c[k] = b[k]) /\ 4 \in c.oen
  BY <1>2 DEF LS!DioOenPin, Shaped, LineFields
<1> HIDE DEF c
<1>4. /\ Shaped(d) /\ (\A k \in LineFields \ {"con"} : d[k] = c[k])
      /\ d.con = [c.con EXCEPT ![6] = 1]
  BY <1>3 DEF LS!DioCfgPin, Shaped, LineFields
<1> HIDE DEF d
<1>5. /\ Shaped(h) /\ (\A k \in LineFields \ {"con"} : h[k] = d[k])
      /\ h.con = [d.con EXCEPT ![7] = 2]
  BY <1>4 DEF LS!DioCfgPin, Shaped, LineFields
<1> HIDE DEF h
<1>7. \A k \in LineFields \ {"con", "oen", "oce"} : h[k] = g[k]
  BY <1>1, <1>2, <1>3, <1>4, <1>5
<1>8. h.con[4] = 0 /\ h.con[6] = 1 /\ h.con[7] = 2
  <2>1. b.con = a.con /\ c.con = b.con /\ h.oen = d.oen /\ d.oen = c.oen
    BY <1>2, <1>3, <1>4, <1>5 DEF LineFields
  <2>2. DOMAIN g.con = 0 .. 7 /\ DOMAIN a.con = 0 .. 7 /\ DOMAIN c.con = 0 .. 7 /\ DOMAIN d.con = 0 .. 7
    BY <1>1, <1>3, <1>4 DEF Shaped
  <2>3. QED
    BY <1>1, <1>4, <1>5, <2>1, <2>2
<1>9. 4 \in h.oen
  BY <1>3, <1>4, <1>5 DEF LineFields
<1>10. QED
  BY <1>5, <1>6, <1>7, <1>8, <1>9

\* The rate is within a thousandth of the one that is asked for.
InTolerance(unit) == 500000 * 2048 - unit <= unit \div 1000 /\ unit - 500000 * 2048 <= unit \div 1000

\* What the divider and the fraction make of the 16 MHz clock.
NearRateOf(rate, div, n) == n \in 0 .. 2047 /\ InTolerance(rate * div * (2048 + n))

Magnitude(x) == IF x < 0 THEN -x ELSE x

Rated(rate, div, n) ==
    /\ n \in 0 .. 2047
    /\ Magnitude(500000 * 2048 - rate * div * (2048 + n)) <= (rate * div * (2048 + n)) \div 1000

\* The two ways to say so.
LEMMA RateIsNear ==
    ASSUME NEW rate \in Nat, NEW div \in Nat, NEW n, NearRateOf(rate, div, n)
    PROVE  Rated(rate, div, n)
<1>1. n \in 0 .. 2047 /\ InTolerance(rate * div * (2048 + n))
  BY DEF NearRateOf
<1>2. \A unit \in Int : InTolerance(unit) => Magnitude(500000 * 2048 - unit) <= unit \div 1000
  BY DEF InTolerance, Magnitude
<1>3. rate * div * (2048 + n) \in Int
  BY <1>1
<1>4. QED
  BY <1>1, <1>2, <1>3 DEF Rated

\* The divider and the fraction that UrtCfg sets for a rate.
Divider(rate) == 500000 \div rate
Fraction(rate) == ((64 * 16000000) \div Divider(rate)) \div rate - 2048

\* They are, for the five rates, ...
LEMMA DividersAre ==
    /\ Divider(2400) = 208 /\ Divider(4800) = 104 /\ Divider(9600) = 52
    /\ Divider(19200) = 26 /\ Divider(38400) = 13
BY SMTT(30) DEF Divider

\* ... and the fraction is 3 each time, ...
LEMMA FractionsAre == \A rate \in {2400, 4800, 9600, 19200, 38400} : Fraction(rate) = 3
<1>1. Fraction(2400) = 3
  BY SMTT(30), DividersAre DEF Fraction
<1>2. Fraction(4800) = 3
  BY SMTT(30), DividersAre DEF Fraction
<1>3. Fraction(9600) = 3
  BY SMTT(30), DividersAre DEF Fraction
<1>4. Fraction(19200) = 3
  BY SMTT(30), DividersAre DEF Fraction
<1>5. Fraction(38400) = 3
  BY SMTT(30), DividersAre DEF Fraction
<1>6. QED
  BY SMTT(30), <1>1, <1>2, <1>3, <1>4, <1>5

\* ... which brings the clock to within a thousandth of the rate.
LEMMA NearRate ==
    ASSUME NEW rate \in {2400, 4800, 9600, 19200, 38400}
    PROVE  NearRateOf(rate, Divider(rate), Fraction(rate)) /\ rate \in Nat /\ Divider(rate) \in Nat
<1>1. Divider(rate) \in Nat /\ rate \in Nat /\ rate * Divider(rate) = 499200
  BY SMTT(30), DividersAre
<1>2. Fraction(rate) = 3
  BY SMTT(30), FractionsAre
<1>3. rate * Divider(rate) * (2048 + Fraction(rate)) = 1023859200
  BY SMTT(30), <1>1, <1>2
<1>4. InTolerance(1023859200)
  <2>1. 500000 * 2048 = 1024000000 /\ 1023859200 \div 1000 = 1023859
    BY SMTT(30)
  <2>2. QED
    BY SMTT(30), <2>1 DEF InTolerance
<1>5. Fraction(rate) \in 0 .. 2047
  BY SMTT(30), <1>2
<1>6. QED
  BY SMTT(30), <1>1, <1>3, <1>4, <1>5 DEF NearRateOf

\* Setting the rate.
LEMMA RateSet ==
    ASSUME NEW g, Shaped(g), g.urt_cd = 0, g.div2 = FALSE, NEW i \in 1 .. 5
    PROVE  LET h == LS!UrtCfg(g, LS!baud_array[i])
           IN  /\ Shaped(h)
               /\ \A k \in LineFields \ {"COMDIV", "FBEN", "N", "COMIEN", "bits"} : h[k] = g[k]
               /\ h.FBEN = TRUE /\ h.bits = 8 /\ h.COMDIV \in Nat
               /\ NearRateOf(LS!baud_array[i], h.COMDIV, h.N)
<1>1. LS!UartDivider(g) = 1
  <2>1. 2 ^ 0 = 1
    BY SMTT(30)
  <2>2. QED
    BY SMTT(30), <2>1 DEF LS!UartDivider
<1> DEFINE rate == LS!baud_array[i]
           h == LS!UrtCfg(g, rate)
<1>2. rate \in {2400, 4800, 9600, 19200, 38400}
  BY SMTT(30) DEF LS!baud_array
<1> HIDE DEF rate
<1>3. NearRateOf(rate, Divider(rate), Fraction(rate)) /\ Divider(rate) \in Nat
  BY <1>2, NearRate
<1>4. h = [g EXCEPT !.COMDIV = Divider(rate), !.FBEN = TRUE, !.N = Fraction(rate),
                    !.COMIEN = {}, !.bits = 8]
  <2>1. 16000000 \div 32 = 500000 /\ 2048 \div 32 = 64 /\ 32 * 1 = 32
    BY SMTT(30)
  <2>2. QED
    BY SMTT(30), <1>1, <2>1 DEF LS!UrtCfg, Divider, Fraction
<1> HIDE DEF h
<1>5. /\ Shaped(h) /\ h.FBEN = TRUE /\ h.bits = 8 /\ h.COMDIV = Divider(rate) /\ h.N = Fraction(rate)
      /\ \A k \in LineFields \ {"COMDIV", "FBEN", "N", "COMIEN", "bits"} : h[k] = g[k]
  <2> DEFINE div == Divider(rate)
             n   == Fraction(rate)
  <2>1. h = [g EXCEPT !.COMDIV = div, !.FBEN = TRUE, !.N = n, !.COMIEN = {}, !.bits = 8]
    BY <1>4
  <2> HIDE DEF div, n
  <2>2. /\ Shaped(h) /\ h.FBEN = TRUE /\ h.bits = 8 /\ h.COMDIV = div /\ h.N = n
        /\ \A k \in LineFields \ {"COMDIV", "FBEN", "N", "COMIEN", "bits"} : h[k] = g[k]
    BY <2>1 DEF Shaped, LineFields
  <2>3. QED
    BY <2>2 DEF div, n
<1>6. QED
  BY <1>3, <1>5 DEF h, rate

\* What setting up the UART makes of the registers g.
IsInit(g, h, rate) ==
    /\ Shaped(h) /\ (\A k \in NotSet : h[k] = g[k])
    /\ h.FBEN = TRUE /\ h.bits = 8 /\ h.COMDIV \in Nat /\ NearRateOf(rate, h.COMDIV, h.N)
    /\ h.COMIEN = {"ERBFI", "ELSI", "EDSSI", "EDMAT"}
    /\ h.con[4] = 0 /\ 4 \in h.oen /\ h.con[6] = 1 /\ h.con[7] = 2
    /\ h.desc.src_inc = 0 /\ h.desc.dst_inc = 3 /\ 4 \in h.out

\* Setting up the UART, for one of its rates.
LEMMA UartSet ==
    ASSUME NEW g, Shaped(g), g.urt_cd = 0, g.div2 = FALSE, NEW i \in 1 .. 5
    PROVE  IsInit(g, LS!uart_init(g, LS!baud_array[i]), LS!baud_array[i])
<1> DEFINE a == LS!uart_pins(g)
           b == LS!UrtCfg(a, LS!baud_array[i])
           c == LS!uart_sources(b)
           d == LS!DmaPeripheralStructSetup(c)
           h == LS!rs485_recv(d)
<1>1. h = LS!uart_init(g, LS!baud_array[i])
  BY DEF LS!uart_init
<1>2. /\ Shaped(a) /\ (\A k \in LineFields \ {"con", "oen", "oce"} : a[k] = g[k])
      /\ a.con[4] = 0 /\ 4 \in a.oen /\ a.con[6] = 1 /\ a.con[7] = 2
  BY PinsSet
<1> HIDE DEF a
<1>3. a.urt_cd = 0 /\ a.div2 = FALSE
  BY <1>2 DEF LineFields
<1>4. /\ Shaped(b) /\ b.FBEN = TRUE /\ b.bits = 8 /\ b.COMDIV \in Nat
      /\ NearRateOf(LS!baud_array[i], b.COMDIV, b.N)
      /\ \A k \in LineFields \ {"COMDIV", "FBEN", "N", "COMIEN", "bits"} : b[k] = a[k]
  BY <1>2, <1>3, RateSet
<1> HIDE DEF b
<1>5. /\ Shaped(c) /\ (\A k \in LineFields \ {"COMIEN"} : c[k] = b[k])
      /\ c.COMIEN = {"ERBFI", "ELSI", "EDSSI", "EDMAT"}
  <2> DEFINE u == LS!UrtIntCfg(b, {"ERBFI", "ELSI", "EDSSI", "EDMAT"})
  <2>1. /\ Shaped(u) /\ (\A k \in LineFields \ {"COMIEN"} : u[k] = b[k])
        /\ u.COMIEN = {"ERBFI", "ELSI", "EDSSI", "EDMAT"}
    BY <1>4 DEF LS!UrtIntCfg, Shaped, LineFields
  <2>2. c = LS!UrtDma(u, {"EDMAT"})
    BY DEF LS!uart_sources
  <2> HIDE DEF u
  <2>3. /\ Shaped(c) /\ (\A k \in LineFields \ {"COMIEN"} : c[k] = u[k])
        /\ c.COMIEN = (u.COMIEN \ {"EDMAT", "EDMAR"}) \cup {"EDMAT"}
    BY <2>1, <2>2 DEF LS!UrtDma, Shaped, LineFields
  <2>4. c.COMIEN = {"ERBFI", "ELSI", "EDSSI", "EDMAT"}
    BY <2>1, <2>3
  <2>5. QED
    BY <2>1, <2>3, <2>4
<1> HIDE DEF c
<1>6. /\ Shaped(d) /\ (\A k \in LineFields \ {"desc"} : d[k] = c[k])
      /\ d.desc.src_inc = 0 /\ d.desc.dst_inc = 3
  BY <1>5 DEF LS!DmaPeripheralStructSetup, Shaped, LineFields, DescFields
<1> HIDE DEF d
<1>7. Shaped(h) /\ (\A k \in LineFields \ {"out"} : h[k] = d[k]) /\ 4 \in h.out
  BY <1>6 DEF LS!rs485_recv, LS!DioSet, Shaped, LineFields
<1> HIDE DEF h
<1>8. \A k \in NotSet : h[k] = g[k]
  <2>1. NotSet \subseteq LineFields \ {"out", "desc", "COMIEN", "COMDIV", "FBEN", "N", "bits", "con",
                                    "oen", "oce"}
    BY DEF NotSet, LineFields
  <2>2. QED
    BY <1>2, <1>4, <1>5, <1>6, <1>7, <2>1
<1>9. h.FBEN = b.FBEN /\ h.bits = b.bits /\ h.COMDIV = b.COMDIV /\ h.N = b.N
  BY <1>5, <1>6, <1>7 DEF LineFields
<1>10. h.COMIEN = c.COMIEN /\ h.desc = d.desc
  BY <1>6, <1>7 DEF LineFields
<1>11. h.con = a.con /\ h.oen = a.oen
  BY <1>4, <1>5, <1>6, <1>7 DEF LineFields
<1>12. IsInit(g, h, LS!baud_array[i])
  BY <1>2, <1>4, <1>5, <1>6, <1>7, <1>8, <1>9, <1>10, <1>11 DEF IsInit
<1>13. QED
  BY <1>1, <1>12

--------------------------------------------------------------------------------
\* The registers are set, for the rate that was last asked for.
LineIsSet(g, rate) ==
    /\ g.wdt_irq = TRUE /\ g.cd = 0 /\ g.urt_cd = 0 /\ g.div2 = FALSE
    /\ g.clk_dis = {"SPI0", "SPI1", "DAC"}
    /\ g.FBEN = TRUE /\ g.bits = 8 /\ g.COMDIV \in Nat /\ NearRateOf(rate, g.COMDIV, g.N)
    /\ g.COMIEN = {"ERBFI", "ELSI", "EDSSI", "EDMAT"}
    /\ g.con[4] = 0 /\ 4 \in g.oen /\ g.con[6] = 1 /\ g.con[7] = 2

\* The DMA controller has a transfer to go on with.
Transferring == r.enabled /\ ~r.masked

\* p bytes went out ahead of the line, t of its own were taken over, and one may still wait.
Underway(p, t) ==
    /\ Len(wire) + (IF r.COMTX = "empty" THEN 0 ELSE 1) = p + t
    /\ \A j \in 1 .. Len(wire) : wire[j] = IF j <= p THEN "0" ELSE line[j - p]
    /\ r.COMTX # "empty" => r.COMTX = IF Len(wire) < p THEN "0" ELSE line[Len(wire) + 1 - p]

(* What is on the wire, in COMTX and still to be transferred is the line, *)
(* and the driver is turned to the line as long as something is to come.   *)
LineWhole ==
    /\ \E p \in {0, 1} : Underway(p, IF Transferring THEN Len(line) - r.desc.left ELSE Len(line))
    /\ Transferring => /\ r.desc.left \in 1 .. Len(line) /\ r.desc.src = Len(line)
                   /\ r.desc.dest = "COMTX" /\ r.desc.cycle = "BASIC"
                   /\ \A j \in 1 .. Len(line) : m_tx_buf[j] = line[j]
    /\ Transferring \/ r.done \/ r.COMTX # "empty" => 4 \notin r.out

\* Types, which also hold of a line that was torn by a change of the rate.
LineTypes ==
    /\ m_tx_status \in {"idle", "processing"} /\ torn \in BOOLEAN
    /\ m_tx_buf \in [1 .. TxSize -> Symbols \cup {"?"}]
    /\ line \in Seq(Symbols) /\ Len(line) <= TxSize /\ wire \in Seq(Symbols \cup {"0"} \cup {"?", "lost"})

LineFlags == r.enabled \in BOOLEAN /\ r.masked \in BOOLEAN /\ r.done \in BOOLEAN

\* Before start-up nothing is sent.
LineAtReset ==
    /\ Shaped(r) /\ LineFlags /\ ~r.enabled /\ ~r.masked /\ ~r.done /\ r.COMTX = "empty"
    /\ m_tx_status = "idle" /\ baud = 0 /\ ~torn /\ line = <<>> /\ wire = <<>>

\* After it the registers are set, and an idle transmitter has sent everything.
LineRuns ==
    /\ Shaped(r) /\ LineFlags /\ (\E i \in 1 .. 5 : baud = LS!baud_array[i]) /\ LineIsSet(r, baud)
    /\ r.desc.src_inc = 0 /\ r.desc.dst_inc = 3
    /\ r.done => ~Transferring
    /\ m_tx_status = "idle" => ~Transferring /\ ~r.done /\ r.COMTX = "empty" /\ 4 \in r.out
    /\ ~torn => LineWhole

\* The invariant.
SetupInv ==
    /\ LineTypes
    /\ \/ l_pc = "reset" /\ LineAtReset
       \/ l_pc = "run" /\ LineRuns

\* What is set stays, if its registers do.
LEMMA SetStays ==
    ASSUME NEW g, NEW h, NEW rate, LineIsSet(g, rate), \A k \in SetFields : h[k] = g[k]
    PROVE  LineIsSet(h, rate)
BY DEF LineIsSet, SetFields

\* It holds at reset, ...
LEMMA LineStarts == ASSUME LS!LineSetupAssumption, LS!LineInit PROVE SetupInv
<1>1. LineTypes
  <2>1. m_tx_buf \in [1 .. TxSize -> Symbols \cup {"?"}]
    BY DEF LS!LineInit
  <2>2. Len(line) <= TxSize
    <3>1. Len(line) = 0 /\ TxSize \in Nat
      BY DEF LS!LineInit, LS!LineSetupAssumption
    <3>2. QED
      BY <3>1
  <2>3. line \in Seq(Symbols) /\ wire \in Seq(Symbols \cup {"0"} \cup {"?", "lost"})
    BY DEF LS!LineInit
  <2>4. m_tx_status \in {"idle", "processing"} /\ torn \in BOOLEAN
    BY DEF LS!LineInit
  <2>5. QED
    BY <2>1, <2>2, <2>3, <2>4 DEF LineTypes
<1>2. PICK on \in BOOLEAN, cd \in {0, 7}, mode \in {0, 3} :
        r = [wdt_irq |-> on, cd |-> cd, urt_cd |-> cd, div2 |-> on, clk_dis |-> {"UART"},
             COMDIV |-> 1, FBEN |-> FALSE, N |-> 0, COMIEN |-> {}, bits |-> 5,
             con |-> [p \in 0 .. 7 |-> mode], oen |-> {}, oce |-> {}, out |-> {},
             DMACFG |-> FALSE, desc |-> LS!Cleared, masked |-> FALSE, enabled |-> FALSE,
             COMTX |-> "empty", request |-> FALSE, done |-> FALSE]
  BY DEF LS!LineInit, LS!Resets
<1>3. Shaped(r) /\ LineFlags /\ ~r.enabled /\ ~r.masked /\ ~r.done /\ r.COMTX = "empty"
  BY <1>2 DEF Shaped, LineFields, LS!Cleared, DescFields, LineFlags
<1>4. QED
  BY <1>1, <1>3 DEF LS!LineInit, SetupInv, LineAtReset

\* ... start-up sets clocks, watchdog, pins and UART, ...
LEMMA LineStartUp == ASSUME SetupInv, LS!bsp_startup PROVE SetupInv'
<1>1. l_pc = "reset" /\ LineAtReset /\ l_pc' = "run" /\ LineTypes
  BY DEF SetupInv, LS!bsp_startup
<1> DEFINE a == LS!sys_wdt_off(LS!sys_wdt_off(r))
           b == LS!sys_clock_init(a)
           c == LS!DmaBase(b)
           d == LS!uart_clock(c)
           h == LS!uart_init(d, LS!baud_array[3])
<1>2. r' = h /\ baud' = LS!baud_array[3]
  BY DEF LS!bsp_startup, LS!commu_init, LS!baud_array
<1>3. Shaped(a) /\ (\A k \in LineFields \ {"wdt_irq"} : a[k] = r[k]) /\ a.wdt_irq = TRUE
  BY <1>1 DEF LineAtReset, LS!sys_wdt_off, LS!WdtCfg, Shaped, LineFields
<1> HIDE DEF a
<1>4. /\ Shaped(b) /\ (\A k \in LineFields \ {"clk_dis", "cd", "div2", "urt_cd"} : b[k] = a[k])
      /\ b.clk_dis = {"SPI0", "SPI1", "DAC"} /\ b.cd = 0 /\ b.div2 = FALSE /\ b.urt_cd = 0
  BY <1>3 DEF LS!sys_clock_init, LS!ClkDis, LS!ClkCfg, LS!ClkSel, Shaped, LineFields
<1> HIDE DEF b
<1>5. Shaped(c) /\ (\A k \in LineFields \ {"desc", "DMACFG"} : c[k] = b[k])
  BY <1>4 DEF LS!DmaBase, LS!Cleared, Shaped, LineFields, DescFields
<1> HIDE DEF c
<1>6. Shaped(d) /\ (\A k \in LineFields \ {"urt_cd"} : d[k] = c[k]) /\ d.urt_cd = 0
  BY <1>5 DEF LS!uart_clock, Shaped, LineFields
<1> HIDE DEF d
<1>7. d.div2 = FALSE
  BY <1>4, <1>5, <1>6 DEF LineFields
<1>8. /\ Shaped(h) /\ (\A k \in NotSet : h[k] = d[k])
      /\ h.FBEN = TRUE /\ h.bits = 8 /\ h.COMDIV \in Nat /\ NearRateOf(LS!baud_array[3], h.COMDIV, h.N)
      /\ h.COMIEN = {"ERBFI", "ELSI", "EDSSI", "EDMAT"}
      /\ h.con[4] = 0 /\ 4 \in h.oen /\ h.con[6] = 1 /\ h.con[7] = 2
      /\ h.desc.src_inc = 0 /\ h.desc.dst_inc = 3 /\ 4 \in h.out
  <2>0. 3 \in 1 .. 5
    OBVIOUS
  <2>1. IsInit(d, h, LS!baud_array[3])
    BY <2>0, <1>6, <1>7, UartSet
  <2> HIDE DEF h
  <2>2. QED
    BY <2>1 DEF IsInit
<1> HIDE DEF h
<1>9. /\ h.wdt_irq = TRUE /\ h.cd = 0 /\ h.urt_cd = 0 /\ h.div2 = FALSE
      /\ h.clk_dis = {"SPI0", "SPI1", "DAC"}
  BY <1>3, <1>4, <1>5, <1>6, <1>8 DEF LineFields, NotSet
<1>10. h.enabled = r.enabled /\ h.masked = r.masked /\ h.done = r.done /\ h.COMTX = r.COMTX
  BY <1>3, <1>4, <1>5, <1>6, <1>8 DEF LineFields, NotSet
<1>11. LineIsSet(r', baud')
  BY <1>2, <1>8, <1>9 DEF LineIsSet
<1>12. UNCHANGED <<m_tx_status, m_tx_buf, torn, line, wire>>
  BY DEF LS!bsp_startup
<1>13. LineTypes'
  BY <1>1, <1>12 DEF LineTypes
<1>14. LineFlags' /\ ~Transferring' /\ ~r'.done /\ r'.COMTX = "empty"
  BY <1>1, <1>2, <1>10 DEF LineAtReset, LineFlags, Transferring
<1>15. LineWhole'
  BY <1>1, <1>12, <1>14 DEF LineWhole, LineAtReset, Underway
<1>16. LineRuns'
  BY <1>2, <1>8, <1>11, <1>14, <1>15 DEF LineRuns
<1>17. QED
  BY <1>1, <1>13, <1>16 DEF SetupInv

\* ... a new baud rate sets the UART again, ...
LEMMA LineRerated == ASSUME SetupInv, NEW i \in 1 .. 5, LS!uart_ios(i) PROVE SetupInv'
<1>1. l_pc = "run" /\ l_pc' = "run" /\ LineRuns /\ LineTypes /\ ~r.done
  BY DEF SetupInv, LS!uart_ios
<1> DEFINE h == LS!uart_init(r, LS!baud_array[i])
<1>2. /\ Shaped(h) /\ (\A k \in NotSet : h[k] = r[k])
      /\ h.FBEN = TRUE /\ h.bits = 8 /\ h.COMDIV \in Nat /\ NearRateOf(LS!baud_array[i], h.COMDIV, h.N)
      /\ h.COMIEN = {"ERBFI", "ELSI", "EDSSI", "EDMAT"}
      /\ h.con[4] = 0 /\ 4 \in h.oen /\ h.con[6] = 1 /\ h.con[7] = 2
      /\ h.desc.src_inc = 0 /\ h.desc.dst_inc = 3 /\ 4 \in h.out
  <2>1. Shaped(r) /\ r.urt_cd = 0 /\ r.div2 = FALSE
    BY <1>1 DEF LineRuns, LineIsSet
  <2>2. IsInit(r, h, LS!baud_array[i])
    BY <2>1, UartSet
  <2> HIDE DEF h
  <2>3. QED
    BY <2>2 DEF IsInit
<1>3. /\ r' = h /\ baud' = LS!baud_array[i] /\ torn' = (torn \/ m_tx_status # "idle")
      /\ UNCHANGED <<m_tx_status, m_tx_buf, line, wire>>
  BY DEF LS!uart_ios
<1> HIDE DEF h
<1>4. /\ h.wdt_irq = r.wdt_irq /\ h.cd = r.cd /\ h.urt_cd = r.urt_cd /\ h.div2 = r.div2
      /\ h.clk_dis = r.clk_dis /\ h.enabled = r.enabled /\ h.masked = r.masked
      /\ h.done = r.done /\ h.COMTX = r.COMTX
  BY <1>2 DEF NotSet
<1>5. LineIsSet(h, LS!baud_array[i])
  BY <1>1, <1>2, <1>4 DEF LineIsSet, LineRuns
<1>6. LineFlags' /\ (Transferring' <=> Transferring)
  BY <1>1, <1>3, <1>4 DEF LineRuns, LineFlags, Transferring
<1>7. LineTypes'
  BY <1>1, <1>3 DEF LineTypes
<1>8. ASSUME ~torn' PROVE LineWhole'
  <2>1. ~torn /\ m_tx_status = "idle" /\ ~Transferring /\ r.COMTX = "empty" /\ LineWhole
    BY <1>1, <1>3, <1>8 DEF LineRuns
  <2>2. ~Transferring' /\ r'.COMTX = "empty" /\ ~r'.done
    BY <2>1, <1>1, <1>3, <1>4, <1>6
  <2>3. QED
    BY <1>3, <2>1, <2>2 DEF LineWhole, Underway
<1>9. LineRuns'
  BY <1>1, <1>2, <1>3, <1>4, <1>5, <1>6, <1>8 DEF LineRuns
<1>10. QED
  BY <1>1, <1>7, <1>9 DEF SetupInv

\* What sending a line does to the registers, up to its first byte.
LEMMA SendSet ==
    ASSUME NEW g, Shaped(g), NEW n
    PROVE  LET h == LS!rs485_send(LS!DmaEnable(LS!DmaClr(LS!DmaCycleCntCtrl(
                        LS!DmaStructPtrOutSetup(g, n), n))))
           IN  /\ Shaped(h) /\ (\A k \in LineFields \ {"desc", "masked", "enabled", "out"} : h[k] = g[k])
               /\ h.enabled = TRUE /\ h.masked = FALSE /\ 4 \notin h.out
               /\ h.desc = [g.desc EXCEPT !["src"] = n, !["dest"] = "COMTX", !["cycle"] = "BASIC",
                                          !["left"] = n]
<1> DEFINE a == LS!DmaStructPtrOutSetup(g, n)
           b == LS!DmaCycleCntCtrl(a, n)
           c == LS!DmaClr(b)
           d == LS!DmaEnable(c)
           h == LS!rs485_send(d)
<1>1. /\ Shaped(a) /\ (\A k \in LineFields \ {"desc"} : a[k] = g[k])
      /\ a.desc = [g.desc EXCEPT !["src"] = n, !["dest"] = "COMTX"]
  BY DEF LS!DmaStructPtrOutSetup, Shaped, LineFields, DescFields
<1> HIDE DEF a
<1>2. /\ Shaped(b) /\ (\A k \in LineFields \ {"desc"} : b[k] = a[k])
      /\ b.desc = [a.desc EXCEPT !["cycle"] = "BASIC", !["left"] = n]
  BY <1>1 DEF LS!DmaCycleCntCtrl, Shaped, LineFields, DescFields
<1> HIDE DEF b
<1>3. Shaped(c) /\ (\A k \in LineFields \ {"masked"} : c[k] = b[k]) /\ c.masked = FALSE
  BY <1>2 DEF LS!DmaClr, Shaped, LineFields
<1> HIDE DEF c
<1>4. Shaped(d) /\ (\A k \in LineFields \ {"enabled"} : d[k] = c[k]) /\ d.enabled = TRUE
  BY <1>3 DEF LS!DmaEnable, Shaped, LineFields
<1> HIDE DEF d
<1>5. Shaped(h) /\ (\A k \in LineFields \ {"out"} : h[k] = d[k]) /\ 4 \notin h.out
  BY <1>4 DEF LS!rs485_send, LS!DioClr, Shaped, LineFields
<1> HIDE DEF h
<1>6. h.desc = b.desc /\ h.masked = c.masked /\ h.enabled = d.enabled
  BY <1>3, <1>4, <1>5 DEF LineFields
<1>7. \A k \in LineFields \ {"desc", "masked", "enabled", "out"} : h[k] = g[k]
  BY <1>1, <1>2, <1>3, <1>4, <1>5
<1>8. h.desc = [g.desc EXCEPT !["src"] = n, !["dest"] = "COMTX", !["cycle"] = "BASIC", !["left"] = n]
  BY <1>1, <1>2, <1>6
<1>9. QED
  BY <1>3, <1>4, <1>5, <1>6, <1>7, <1>8 DEF a, b, c, d, h

\* ... a line that fits the buffer is handed to the DMA controller, and no other, ...
LEMMA LineTransmitted ==
    ASSUME LS!LineSetupAssumption, SetupInv, NEW n \in 1 .. TxSize + 1,
           NEW words \in [1 .. n -> Symbols], LS!transmit(words)
    PROVE  SetupInv'
<1>1. /\ l_pc = "run" /\ l_pc' = "run" /\ LineRuns /\ LineTypes /\ m_tx_status = "idle"
      /\ m_tx_status' = "processing" /\ UNCHANGED baud
  BY DEF SetupInv, LS!transmit
<1>2. words \in Seq(Symbols) /\ Len(words) = n /\ n \in Nat /\ TxSize \in Nat /\ DOMAIN words = 1 .. n
  BY DEF LS!LineSetupAssumption
<1>3. CASE n > TxSize
  <2>1. UNCHANGED <<r, m_tx_buf, torn, line, wire>>
    BY <1>2, <1>3 DEF LS!transmit
  <2>2. LineTypes'
    BY <1>1, <2>1 DEF LineTypes
  <2>3. LineRuns'
    BY <1>1, <2>1 DEF LineRuns, LineFlags, LineIsSet, Transferring, LineWhole, Underway
  <2>4. QED
    BY <1>1, <2>2, <2>3 DEF SetupInv
<1>4. CASE n <= TxSize
  <2> DEFINE h == LS!rs485_send(LS!DmaEnable(LS!DmaClr(LS!DmaCycleCntCtrl(
                        LS!DmaStructPtrOutSetup(r, n), n))))
  <2>1. /\ m_tx_buf' = [i \in 1 .. TxSize |-> IF i \in 1 .. n THEN words[i] ELSE m_tx_buf[i]]
        /\ line' = words /\ wire' = <<>> /\ torn' = FALSE
        /\ r' \in {[LS!UrtTx(h, byte) EXCEPT !.request = TRUE] : byte \in {"empty", "0"}}
    BY <1>2, <1>4 DEF LS!transmit
  <2>2. /\ Shaped(h) /\ (\A k \in LineFields \ {"desc", "masked", "enabled", "out"} : h[k] = r[k])
        /\ h.enabled = TRUE /\ h.masked = FALSE /\ 4 \notin h.out
        /\ h.desc = [r.desc EXCEPT !["src"] = n, !["dest"] = "COMTX", !["cycle"] = "BASIC",
                                   !["left"] = n]
    BY <1>1, SendSet DEF LineRuns
  <2> HIDE DEF h
  <2>3. PICK byte \in {"empty", "0"} : r' = [LS!UrtTx(h, byte) EXCEPT !.request = TRUE]
    BY <2>1
  <2>4. h.COMTX = "empty"
    BY <1>1, <2>2 DEF LineRuns, LineFields
  <2>5. /\ Shaped(r') /\ (\A k \in LineFields \ {"COMTX", "request"} : r'[k] = h[k])
        /\ r'.COMTX = byte
    BY <2>2, <2>3, <2>4 DEF LS!UrtTx, Shaped, LineFields
  <2>6. /\ r'.enabled = TRUE /\ r'.masked = FALSE /\ 4 \notin r'.out /\ r'.desc = h.desc
        /\ r'.done = r.done
    BY <2>2, <2>5 DEF LineFields
  <2>7. /\ r'.desc.src = n /\ r'.desc.dest = "COMTX" /\ r'.desc.cycle = "BASIC" /\ r'.desc.left = n
        /\ r'.desc.src_inc = 0 /\ r'.desc.dst_inc = 3
    BY <1>1, <2>2, <2>6 DEF LineRuns, Shaped, DescFields
  <2>8. LineIsSet(r', baud')
    <3>1. \A k \in SetFields : r'[k] = r[k]
      BY <2>2, <2>5 DEF SetFields, LineFields
    <3>2. QED
      BY <1>1, <3>1, SetStays DEF LineRuns
  <2>9. ~r.done
    BY <1>1 DEF LineRuns
  <2>10. LineTypes'
    <3>1. m_tx_buf' \in [1 .. TxSize -> Symbols \cup {"?"}]
      BY <1>1, <2>1 DEF LineTypes
    <3>2. line' \in Seq(Symbols) /\ Len(line') <= TxSize
      BY <1>2, <1>4, <2>1
    <3>3. wire' \in Seq(Symbols \cup {"0"} \cup {"?", "lost"})
      BY <2>1
    <3>4. QED
      BY <1>1, <2>1, <3>1, <3>2, <3>3 DEF LineTypes
  <2>11. LineWhole'
    <3>1. Len(line') = n /\ wire' = <<>> /\ Transferring'
      BY <1>2, <2>1, <2>6 DEF Transferring
    <3>2. \A j \in 1 .. n : m_tx_buf'[j] = line'[j]
      BY <1>4, <1>2, <2>1
    <3>3. Underway(IF byte = "empty" THEN 0 ELSE 1, n - n)'
      BY <2>5, <3>1, <1>2 DEF Underway
    <3>4. QED
      BY <1>2, <2>6, <2>7, <3>1, <3>2, <3>3 DEF LineWhole
  <2>12. LineRuns'
    BY <1>1, <2>1, <2>5, <2>6, <2>7, <2>8, <2>9, <2>11 DEF LineRuns, LineFlags
  <2>13. QED
    BY <1>1, <2>10, <2>12 DEF SetupInv
<1>5. QED
  BY <1>2, <1>3, <1>4

\* ... the interrupt at the end frees line and transmitter, ...
LEMMA LineDone == ASSUME SetupInv, LS!DMA_UART_TX_Int_Handler PROVE SetupInv'
<1>1. r.done /\ r.COMTX = "empty" /\ UNCHANGED <<l_pc, m_tx_buf, baud, torn, line, wire>>
  BY DEF LS!DMA_UART_TX_Int_Handler, LS!DmaDone
<1>2. l_pc = "run" /\ LineRuns /\ LineTypes
  BY <1>1 DEF SetupInv, LineAtReset
<1> DEFINE a == LS!DmaSet(r)
           b == [a EXCEPT !.done = FALSE]
<1>3. r' = LS!rs485_recv(b) /\ m_tx_status' = "idle"
  BY DEF LS!DMA_UART_TX_Int_Handler
<1>4. /\ Shaped(b) /\ (\A k \in LineFields \ {"masked", "enabled", "done"} : b[k] = r[k])
      /\ b.masked = TRUE /\ b.enabled = TRUE /\ b.done = FALSE
  BY <1>2 DEF LineRuns, LS!DmaSet, Shaped, LineFields
<1> HIDE DEF b
<1>5. Shaped(r') /\ (\A k \in LineFields \ {"out"} : r'[k] = b[k]) /\ 4 \in r'.out
  BY <1>3, <1>4 DEF LS!rs485_recv, LS!DioSet, Shaped, LineFields
<1>6. /\ r'.masked = TRUE /\ r'.enabled = TRUE /\ r'.done = FALSE /\ r'.COMTX = "empty" /\ r'.desc = r.desc
  BY <1>1, <1>4, <1>5 DEF LineFields
<1>7. LineIsSet(r', baud')
  <2>1. \A k \in SetFields : r'[k] = r[k]
    BY <1>4, <1>5 DEF SetFields, LineFields
  <2>2. QED
    BY <1>1, <1>2, <2>1, SetStays DEF LineRuns
<1>8. LineTypes'
  BY <1>1, <1>2, <1>3 DEF LineTypes
<1>9. ASSUME ~torn' PROVE LineWhole'
  <2>1. ~Transferring /\ ~Transferring' /\ LineWhole
    BY <1>1, <1>2, <1>6, <1>9 DEF LineRuns, Transferring
  <2>2. QED
    BY <1>1, <1>6, <2>1 DEF LineWhole, Underway
<1>10. LineRuns'
  BY <1>1, <1>2, <1>5, <1>6, <1>7, <1>9 DEF LineRuns, LineFlags, Transferring
<1>11. QED
  BY <1>1, <1>2, <1>8, <1>10 DEF SetupInv

\* ... a byte leaves the UART, ...
LEMMA LineShifted == ASSUME LS!LineSetupAssumption, SetupInv, LS!Shift PROVE SetupInv'
<1>1. r.COMTX # "empty" /\ UNCHANGED <<l_pc, m_tx_status, m_tx_buf, baud, torn, line>>
  BY DEF LS!Shift
<1>2. l_pc = "run" /\ LineRuns /\ LineTypes
  BY <1>1 DEF SetupInv, LineAtReset
<1>3. r' = [r EXCEPT !.COMTX = "empty", !.request = TRUE]
  BY DEF LS!Shift
<1>4. /\ Shaped(r') /\ (\A k \in LineFields \ {"COMTX", "request"} : r'[k] = r[k])
      /\ r'.COMTX = "empty"
  BY <1>2, <1>3 DEF LineRuns, Shaped, LineFields
<1>5. /\ r'.enabled = r.enabled /\ r'.masked = r.masked /\ r'.done = r.done
      /\ r'.desc = r.desc /\ r'.out = r.out
  BY <1>4 DEF LineFields
<1>6. Transferring' <=> Transferring
  BY <1>5 DEF Transferring
<1>7. LineIsSet(r', baud')
  <2>1. \A k \in SetFields : r'[k] = r[k]
    BY <1>4 DEF SetFields, LineFields
  <2>2. QED
    BY <1>1, <1>2, <2>1, SetStays DEF LineRuns
<1>8. m_tx_status # "idle"
  BY <1>1, <1>2 DEF LineRuns
<1>9. CASE torn
  <2>1. wire' = wire
    BY <1>9 DEF LS!Shift
  <2>2. LineTypes'
    BY <1>1, <1>2, <2>1 DEF LineTypes
  <2>3. LineRuns'
    BY <1>1, <1>2, <1>4, <1>5, <1>6, <1>7, <1>8, <1>9 DEF LineRuns, LineFlags
  <2>4. QED
    BY <1>1, <1>2, <2>2, <2>3 DEF SetupInv
<1>10. CASE ~torn
  <2>1. LineWhole
    BY <1>2, <1>10 DEF LineRuns
  <2> DEFINE t == IF Transferring THEN Len(line) - r.desc.left ELSE Len(line)
  <2>2. t \in 0 .. Len(line) /\ line \in Seq(Symbols) /\ Len(line) \in Nat /\ Len(line) <= TxSize
    BY <1>2, <2>1 DEF LineWhole, LineTypes
  <2>3. PICK p \in {0, 1} : Underway(p, t)
    BY <2>1 DEF LineWhole
  <2> HIDE DEF t
  <2>4. /\ Len(wire) + 1 = p + t /\ Len(wire) \in Nat
        /\ \A j \in 1 .. Len(wire) : wire[j] = IF j <= p THEN "0" ELSE line[j - p]
        /\ r.COMTX = IF Len(wire) < p THEN "0" ELSE line[Len(wire) + 1 - p]
    BY <1>1, <1>2, <2>3 DEF Underway, LineTypes
  <2>5. r.COMTX \in Symbols \cup {"0"}
    <3>1. CASE Len(wire) < p
      BY <2>4, <3>1
    <3>2. CASE ~(Len(wire) < p)
      <4>1. Len(wire) + 1 - p \in 1 .. Len(line)
        BY <2>2, <2>4, <3>2
      <4>2. QED
        BY <2>2, <2>4, <3>2, <4>1
    <3>3. QED
      BY <3>1, <3>2
  <2>6. wire' = Append(wire, r.COMTX)
    <3>1. Len(wire) <= TxSize /\ 4 \notin r.out
      BY <1>1, <2>1, <2>2, <2>4 DEF LineWhole, LS!LineSetupAssumption
    <3>2. ~(Len(wire) > TxSize)
      BY <2>4, <3>1 DEF LS!LineSetupAssumption
    <3>3. QED
      BY <1>10, <3>1, <3>2 DEF LS!Shift
  <2>7. /\ wire' \in Seq(Symbols \cup {"0"} \cup {"?", "lost"}) /\ Len(wire') = Len(wire) + 1
        /\ \A j \in 1 .. Len(wire) : wire'[j] = wire[j]
        /\ wire'[Len(wire) + 1] = r.COMTX
    BY <1>2, <2>5, <2>6, AppendProperties DEF LineTypes
  <2>8. LineTypes'
    BY <1>1, <1>2, <2>7 DEF LineTypes
  <2>9. Underway(p, t)'
    <3>1. t' = t
      BY <1>1, <1>5, <1>6 DEF t
    <3>2. ASSUME NEW j \in 1 .. Len(wire') PROVE wire'[j] = IF j <= p THEN "0" ELSE line[j - p]
      <4>1. CASE j \in 1 .. Len(wire)
        BY <2>4, <2>7, <4>1
      <4>2. CASE j = Len(wire) + 1
        BY <2>4, <2>7, <4>2
      <4>3. QED
        BY <2>4, <2>7, <4>1, <4>2
    <3>3. Len(wire') = p + t'
      BY <2>4, <2>7, <3>1
    <3>4. QED
      BY <1>1, <1>4, <2>2, <3>2, <3>3 DEF Underway
  <2>10. LineWhole'
    <3>1. \E q \in {0, 1} : Underway(q, IF Transferring THEN Len(line) - r.desc.left ELSE Len(line))'
      BY <2>9 DEF t
    <3>2. QED
      BY <1>1, <1>4, <1>5, <1>6, <2>1, <3>1 DEF LineWhole
  <2>11. LineRuns'
    BY <1>1, <1>2, <1>4, <1>5, <1>6, <1>7, <1>8, <2>10 DEF LineRuns, LineFlags
  <2>12. QED
    BY <1>1, <1>2, <2>8, <2>11 DEF SetupInv
<1>11. QED
  BY <1>9, <1>10

\* ... and the DMA controller brings the next, or ends.
LEMMA LineFed == ASSUME LS!LineSetupAssumption, SetupInv, LS!Dma PROVE SetupInv'
<1>1. /\ r.enabled /\ ~r.masked /\ r.COMTX = "empty"
      /\ UNCHANGED <<l_pc, m_tx_status, m_tx_buf, baud, torn, line, wire>>
  BY DEF LS!Dma, LS!DmaRequested
<1>2. l_pc = "run" /\ LineRuns /\ LineTypes
  BY <1>1 DEF SetupInv, LineAtReset
<1>3. Transferring /\ m_tx_status # "idle" /\ ~r.done /\ r.masked = FALSE
  BY <1>1, <1>2 DEF LineRuns, Transferring, LineFlags
<1>4. LineTypes'
  BY <1>1, <1>2 DEF LineTypes
<1>5. CASE r' = LS!Transfer
  <2> DEFINE last == r.desc.left = 1
  <2>1. /\ Shaped(r')
        /\ \A k \in LineFields \ {"COMTX", "request", "desc", "enabled", "done"} : r'[k] = r[k]
        /\ r'.enabled = ~last /\ r'.done = last
        /\ r'.desc = [r.desc EXCEPT !["left"] = IF last THEN 1 ELSE r.desc.left - 1,
                                    !["cycle"] = IF last THEN "STOP" ELSE r.desc.cycle]
        /\ r'.COMTX = IF r.desc.dest = "COMTX" /\ r.desc.dst_inc = 3 THEN LS!Source ELSE "empty"
    BY <1>2, <1>5 DEF LineRuns, LS!Transfer, Shaped, LineFields, DescFields
  <2>2. /\ r'.desc.src_inc = 0 /\ r'.desc.dst_inc = 3 /\ r'.desc.src = r.desc.src
        /\ r'.desc.dest = r.desc.dest
        /\ r'.desc.left = (IF last THEN 1 ELSE r.desc.left - 1)
        /\ r'.desc.cycle = IF last THEN "STOP" ELSE r.desc.cycle
    BY <1>2, <2>1 DEF LineRuns, Shaped, DescFields
  <2>3. r'.masked = r.masked /\ r'.out = r.out
    BY <2>1 DEF LineFields
  <2>4. LineIsSet(r', baud')
    <3>1. \A k \in SetFields : r'[k] = r[k]
      BY <2>1 DEF SetFields, LineFields
    <3>2. QED
      BY <1>1, <1>2, <3>1, SetStays DEF LineRuns
  <2>5. Transferring' <=> ~last
    BY <1>3, <2>1, <2>3 DEF Transferring
  <2>6. ASSUME ~torn PROVE LineWhole'
    <3> DEFINE n == Len(line)
               l == r.desc.left
    <3>1. /\ l \in 1 .. n /\ r.desc.src = n /\ r.desc.dest = "COMTX" /\ r.desc.cycle = "BASIC"
          /\ (\A j \in 1 .. n : m_tx_buf[j] = line[j]) /\ 4 \notin r.out
      BY <1>2, <1>3, <2>6 DEF LineRuns, LineWhole
    <3>2. n \in Nat /\ n <= TxSize /\ TxSize \in Nat /\ line \in Seq(Symbols)
      BY <1>2 DEF LineTypes, LS!LineSetupAssumption
    <3>3. PICK p \in {0, 1} : Underway(p, n - l)
      BY <1>2, <1>3, <2>6 DEF LineRuns, LineWhole
    <3>4. /\ Len(wire) = p + (n - l) /\ Len(wire) \in Nat
          /\ \A j \in 1 .. Len(wire) : wire[j] = IF j <= p THEN "0" ELSE line[j - p]
      BY <1>1, <1>2, <3>1, <3>2, <3>3 DEF Underway, LineTypes
    <3>5. LS!Source = line[n - l + 1] /\ n - l + 1 \in 1 .. n
      <4>1. r.desc.src_inc = 0
        BY <1>2 DEF LineRuns
      <4>2. n - (l - 1) = n - l + 1 /\ n - l + 1 \in 1 .. n /\ n - l + 1 \in 1 .. TxSize
        BY <3>1, <3>2
      <4>3. QED
        BY <3>1, <4>1, <4>2 DEF LS!Source
    <3>6. line[n - l + 1] \in Symbols /\ line[n - l + 1] # "empty"
      BY <3>2, <3>5 DEF LS!LineSetupAssumption
    <3>7. r'.COMTX = line[n - l + 1] /\ r'.COMTX # "empty"
      BY <1>2, <2>1, <3>1, <3>5, <3>6 DEF LineRuns
    <3>8. PICK t \in 1 .. n : t = n - l + 1
      BY <3>5
    <3>9. Len(wire) + 1 = p + t /\ ~(Len(wire) < p) /\ Len(wire) + 1 - p = t
      <4>1. l \in 1 .. n /\ Len(wire) = p + (n - l) /\ p \in {0, 1} /\ n \in Nat
        BY <3>1, <3>2, <3>4
      <4> HIDE DEF l, n
      <4>2. QED
        BY <3>8, <4>1
    <3>10. Underway(p, t)'
      <4>1. wire' = wire /\ line' = line /\ r'.COMTX # "empty" /\ r'.COMTX = line[t]
        BY <1>1, <3>7, <3>8
      <4>2. QED
        BY <3>4, <3>9, <4>1 DEF Underway
    <3>11. Len(line)' = n /\ (IF Transferring' THEN n - r'.desc.left ELSE n) = t
      BY <1>1, <2>2, <2>5, <3>1, <3>2, <3>8
    <3>12. ASSUME Transferring'
           PROVE  /\ r'.desc.left \in 1 .. n /\ r'.desc.src = n /\ r'.desc.dest = "COMTX"
                  /\ r'.desc.cycle = "BASIC"
      BY <2>2, <2>5, <3>1, <3>2, <3>12
    <3>13. \A j \in 1 .. n : m_tx_buf'[j] = line'[j]
      BY <1>1, <3>1
    <3>14. \E q \in {0, 1} : Underway(q, IF Transferring THEN Len(line) - r.desc.left ELSE Len(line))'
      BY <3>10, <3>11
    <3>15. QED
      BY <2>3, <3>1, <3>11, <3>12, <3>13, <3>14 DEF LineWhole
  <2>7. LineFlags' /\ (r'.done => ~Transferring')
    BY <1>3, <2>1, <2>3, <2>5 DEF LineFlags
  <2>8. LineRuns'
    BY <1>1, <1>2, <1>3, <2>1, <2>2, <2>4, <2>6, <2>7 DEF LineRuns
  <2>9. QED
    BY <1>1, <1>2, <1>4, <2>8 DEF SetupInv
<1>6. CASE r.desc.cycle \in {"STOP", "?"} /\ r' = [r EXCEPT !.enabled = FALSE, !.request = FALSE]
  <2>1. torn
    BY <1>2, <1>3, <1>6 DEF LineRuns, LineWhole, LineTypes
  <2>2. /\ Shaped(r') /\ (\A k \in LineFields \ {"enabled", "request"} : r'[k] = r[k])
        /\ r'.enabled = FALSE
    BY <1>2, <1>6 DEF LineRuns, Shaped, LineFields
  <2>3. r'.masked = r.masked /\ r'.desc = r.desc /\ r'.done = r.done
    BY <2>2 DEF LineFields
  <2>4. LineIsSet(r', baud')
    <3>1. \A k \in SetFields : r'[k] = r[k]
      BY <2>2 DEF SetFields, LineFields
    <3>2. QED
      BY <1>1, <1>2, <3>1, SetStays DEF LineRuns
  <2>5. LineFlags' /\ ~Transferring'
    BY <1>2, <2>2, <2>3 DEF LineRuns, LineFlags, Transferring
  <2>6. LineRuns'
    BY <1>1, <1>2, <1>3, <2>1, <2>2, <2>3, <2>4, <2>5 DEF LineRuns
  <2>7. QED
    BY <1>1, <1>2, <1>4, <2>6 DEF SetupInv
<1>7. QED
  BY <1>5, <1>6 DEF LS!Dma

\* Every step keeps it.
LEMMA LineKeeps ==
    ASSUME LS!LineSetupAssumption, SetupInv, [LS!LineNext]_linevars PROVE SetupInv'
<1>1. CASE \E index \in DOMAIN LS!baud_array : LS!uart_ios(index)
  <2>1. DOMAIN LS!baud_array = 1 .. 5
    BY DEF LS!baud_array
  <2>2. QED
    BY <1>1, <2>1, LineRerated
<1>2. ASSUME NEW n \in 1 .. TxSize + 1, NEW byte \in Symbols,
             LS!transmit([i \in 1 .. n |-> IF i = n THEN byte ELSE CHOOSE s \in Symbols : s # byte])
      PROVE  SetupInv'
  <2> DEFINE words == [i \in 1 .. n |-> IF i = n THEN byte ELSE CHOOSE s \in Symbols : s # byte]
  <2>1. (CHOOSE s \in Symbols : s # byte) \in Symbols
    BY DEF LS!LineSetupAssumption
  <2>2. words \in [1 .. n -> Symbols]
    BY <2>1
  <2>3. LS!transmit(words)
    BY <1>2
  <2> HIDE DEF words
  <2>4. QED
    BY <2>2, <2>3, LineTransmitted
<1>3. CASE UNCHANGED linevars
  BY <1>3 DEF linevars, SetupInv, LineTypes, LineAtReset, LineRuns, LineFlags, LineIsSet, Transferring, LineWhole,
     Underway
<1>4. QED
  BY <1>1, <1>2, <1>3, LineStartUp, LineDone, LineShifted, LineFed DEF LS!LineNext

\* It says that the line is set and leaves whole.
LEMMA LineGood ==
    ASSUME LS!LineSetupAssumption, SetupInv PROVE LS!LineTypeOK /\ LS!LineSet /\ LS!LineLeaves
<1>1. LS!LineTypeOK
  <2>1. baud \in {0} \cup LS!Range(LS!baud_array)
    <3>1. CASE l_pc = "reset"
      BY <3>1 DEF SetupInv, LineAtReset
    <3>2. CASE l_pc = "run"
      <4>1. PICK i \in 1 .. 5 : baud = LS!baud_array[i]
        BY <3>2 DEF SetupInv, LineRuns
      <4>2. DOMAIN LS!baud_array = 1 .. 5
        BY DEF LS!baud_array
      <4>3. QED
        BY <4>1, <4>2 DEF LS!Range
    <3>3. QED
      BY <3>1, <3>2 DEF SetupInv
  <2>2. QED
    BY <2>1 DEF SetupInv, LineTypes, LS!LineTypeOK
<1>2. ASSUME l_pc = "run" PROVE LS!LineSet
  <2>1. LineIsSet(r, baud)
    BY <1>2 DEF SetupInv, LineRuns
  <2>2. PICK i \in 1 .. 5 : baud = LS!baud_array[i]
    BY <1>2 DEF SetupInv, LineRuns
  <2>3. baud \in Nat
    BY <2>2 DEF LS!baud_array
  <2>4. LS!Accurate
    <3>1. 2 ^ r.urt_cd = 1
      <4>1. 2 ^ 0 = 1
        BY SMTT(30)
      <4>2. QED
        BY SMTT(30), <2>1, <4>1 DEF LineIsSet
    <3>2. baud * (2 ^ r.urt_cd) * (IF r.div2 THEN 2 ELSE 1) * r.COMDIV * (2048 + r.N)
          = baud * r.COMDIV * (2048 + r.N)
      BY SMTT(30), <2>1, <2>3, <3>1 DEF LineIsSet
    <3>3. QED
      <4>1. r.FBEN /\ r.COMDIV \in Nat /\ NearRateOf(baud, r.COMDIV, r.N)
        BY <2>1 DEF LineIsSet
      <4>2. Rated(baud, r.COMDIV, r.N)
        BY <2>3, <4>1, RateIsNear
      <4>3. QED
        BY SMTT(30), <3>2, <4>1, <4>2 DEF LS!Accurate, Rated, Magnitude
  <2>5. QED
    BY SMTT(30), <2>1, <2>4 DEF LS!LineSet, LineIsSet
<1>3. ASSUME ~torn PROVE LS!LineLeaves
  <2>1. line \in Seq(Symbols) /\ wire \in Seq(Symbols \cup {"0"} \cup {"?", "lost"})
    BY DEF SetupInv, LineTypes
  <2>2. CASE l_pc = "reset"
    <3>1. line = <<>> /\ wire = <<>>
      BY <2>2 DEF SetupInv, LineAtReset
    <3>2. QED
      BY <2>2, <3>1 DEF LS!LineLeaves, LS!IsPrefix
  <2>3. CASE l_pc = "run"
    <3>1. LineWhole /\ LineRuns
      BY <1>3, <2>3 DEF SetupInv, LineRuns
    <3> DEFINE t == IF Transferring THEN Len(line) - r.desc.left ELSE Len(line)
               c == IF r.COMTX = "empty" THEN 0 ELSE 1
               gone == IF wire # <<>> /\ wire[1] = "0" THEN SubSeq(wire, 2, Len(wire)) ELSE wire
    <3>2. t \in 0 .. Len(line) /\ c \in {0, 1} /\ Len(line) \in Nat /\ Len(wire) \in Nat
      BY <2>1, <3>1 DEF LineWhole
    <3>3. PICK p \in {0, 1} :
            /\ Len(wire) + c = p + t
            /\ \A j \in 1 .. Len(wire) : wire[j] = IF j <= p THEN "0" ELSE line[j - p]
      BY <3>1 DEF LineWhole, Underway
    <3>4. m_tx_status = "idle" => c = 0 /\ t = Len(line) /\ 4 \in r.out
      BY <3>1 DEF LineRuns
    <3> HIDE DEF t, c
    <3>5. PICK k \in Nat : /\ gone \in Seq(Symbols) /\ Len(gone) = k /\ k <= Len(line)
                           /\ (\A j \in 1 .. k : gone[j] = line[j])
                           /\ (m_tx_status = "idle" => k = Len(line))
      <4>1. ASSUME NEW j \in 1 .. Len(line) PROVE line[j] \in Symbols /\ line[j] # "0"
        BY <2>1 DEF LS!LineSetupAssumption
      <4>2. CASE p = 1 /\ wire # <<>>
        <5>1. Len(wire) \in Nat \ {0} /\ wire[1] = "0"
          BY <2>1, <3>3, <4>2
        <5>2. gone = SubSeq(wire, 2, Len(wire))
          BY <4>2, <5>1
        <5>3. \A j \in 2 .. Len(wire) : wire[j] = line[j - 1] /\ j - 1 \in 1 .. Len(line)
          BY <3>2, <3>3, <4>2
        <5>4. \A j \in 2 .. Len(wire) : wire[j] \in Symbols
          BY <4>1, <5>3
        <5>5. /\ SubSeq(wire, 2, Len(wire)) \in Seq(Symbols)
              /\ Len(SubSeq(wire, 2, Len(wire))) = IF 2 <= Len(wire) THEN Len(wire) - 2 + 1 ELSE 0
              /\ \A j \in 1 .. Len(wire) - 2 + 1 : SubSeq(wire, 2, Len(wire))[j] = wire[2 + j - 1]
          BY <3>2, <5>4, SubSeqProperties
        <5> HIDE DEF gone
        <5>6. gone \in Seq(Symbols) /\ Len(gone) = Len(wire) - 1
          <6>1. \A n \in Nat \ {0} : (IF 2 <= n THEN n - 2 + 1 ELSE 0) = n - 1
            OBVIOUS
          <6>2. (IF 2 <= Len(wire) THEN Len(wire) - 2 + 1 ELSE 0) = Len(wire) - 1
            BY <5>1, <6>1, Zenon
          <6>3. QED
            BY <5>2, <5>5, <6>2, Zenon
        <5>7. ASSUME NEW j \in 1 .. Len(wire) - 1 PROVE gone[j] = line[j]
          <6>1. gone[j] = wire[j + 1] /\ j + 1 \in 2 .. Len(wire)
            BY <3>2, <5>2, <5>5
          <6>2. QED
            BY <5>3, <6>1
        <5>8. /\ Len(wire) - 1 \in Nat /\ Len(wire) - 1 <= Len(line)
              /\ m_tx_status = "idle" => Len(wire) - 1 = Len(line)
          BY <3>2, <3>3, <3>4, <4>2, <5>1
        <5>9. QED
          BY <5>6, <5>7, <5>8
      <4>3. CASE p = 1 /\ wire = <<>>
        <5>1. gone = <<>> /\ Len(gone) = 0
          BY <4>3
        <5>2. m_tx_status = "idle" => Len(line) = 0
          BY <3>2, <3>3, <3>4, <4>3
        <5> HIDE DEF gone
        <5>3. QED
          BY <3>2, <5>1, <5>2
      <4>4. CASE p = 0
        <5>1. \A j \in 1 .. Len(wire) : wire[j] = line[j] /\ j \in 1 .. Len(line)
          BY <3>2, <3>3, <4>4
        <5>2. wire # <<>> => wire[1] # "0"
          BY <2>1, <4>1, <5>1
        <5>3. gone = wire
          BY <5>2
        <5> HIDE DEF gone
        <5>4. wire \in Seq(Symbols)
          BY <2>1, <4>1, <5>1
        <5>5. Len(wire) <= Len(line) /\ (m_tx_status = "idle" => Len(wire) = Len(line))
          BY <3>2, <3>3, <3>4, <4>4
        <5>6. QED
          BY <3>2, <5>1, <5>3, <5>4, <5>5
      <4>5. QED
        BY <4>2, <4>3, <4>4
    <3> HIDE DEF gone
    <3>6. SubSeq(gone, 1, k) = SubSeq(line, 1, k)
      <4>1. /\ SubSeq(gone, 1, k) \in Seq(Symbols) /\ Len(SubSeq(gone, 1, k)) = k
            /\ \A j \in 1 .. k : SubSeq(gone, 1, k)[j] = gone[j]
        <5>1. \A j \in 1 .. k : gone[j] \in Symbols
          BY <3>5
        <5>2. QED
          BY <5>1, SubSeqProperties
      <4>2. /\ SubSeq(line, 1, k) \in Seq(Symbols) /\ Len(SubSeq(line, 1, k)) = k
            /\ \A j \in 1 .. k : SubSeq(line, 1, k)[j] = line[j]
        <5>1. \A j \in 1 .. k : line[j] \in Symbols
          BY <2>1, <3>2, <3>5
        <5>2. QED
          BY <5>1, SubSeqProperties
      <4>3. QED
        BY <3>5, <4>1, <4>2, SeqEqual
    <3>7. k = Len(line) => gone = line
      BY <2>1, <3>5, SeqEqual
    <3>8. LS!IsPrefix(gone, line)
      BY <3>5, <3>6 DEF LS!IsPrefix
    <3>9. QED
      BY <2>3, <3>4, <3>5, <3>7, <3>8 DEF LS!LineLeaves, gone
  <2>4. QED
    BY <2>2, <2>3 DEF SetupInv
<1>4. QED
  BY <1>1, <1>2, <1>3 DEF LS!LineSet, LS!LineLeaves

\* The other parts leave the line's registers alone.
LEMMA LineStep == ASSUME [MCNext]_mcvars PROVE [LS!LineNext]_linevars
<1>1. CASE MCNext
  BY <1>1 DEF MCNext
<1>2. CASE UNCHANGED mcvars
  BY <1>2 DEF mcvars
<1>3. QED
  BY <1>1, <1>2

(* Whatever the baud rate, the registers of the serial line are set for it *)
(* within a thousandth, and every line that transmit accepts leaves byte   *)
(* by byte and whole, with nothing left behind when the transmitter is     *)
(* free again (bsp_startup.cpp, uart_ios and transmit of cpu_uart.cpp),    *)
(* for buffers and lines of any length within the controller's counter.    *)
THEOREM LinesLeaveWhole == ASSUME LS!LineSetupAssumption PROVE MCSpec => []LineSound
<1>1. MCInit => SetupInv
  BY LineStarts DEF MCInit
<1>2. SetupInv /\ [MCNext]_mcvars => SetupInv'
  BY LineStep, LineKeeps
<1>3. SetupInv => LineSound
  BY LineGood DEF LineSound
<1>4. QED
  BY <1>1, <1>2, <1>3, PTL DEF MCSpec
================================================================================
