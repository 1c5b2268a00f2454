--------------------------- MODULE FrameQueueProofs ---------------------------
(***************************************************************************)
(* Proofs about FrameQueue, for slots and buffers of any number and size:  *)
(* frames go through the queue first in, first out, and come out whole,    *)
(* although the UART interrupt may put one in while PendSV takes one out.  *)
(***************************************************************************)
EXTENDS FrameQueue, SequenceTheorems, TLAPS

--------------------------------------------------------------------------------
(* The inductive invariant.                                                *)

\* The frames that are queued, that is being received and that is being fetched.
Frames   == [i \in 1 .. size |-> Content((front + i - 1) % Capacity)]
Received == SubSeq(m_rx_buf, 1, m_rx_index)
Fetching == SubSeq(buf[slot], 1, len)

(* A queue that was full when a frame was taken is not filled up behind    *)
(* PendSV's back: a receiver that is open has a slot to overflow into, and *)
(* one more while a frame is being copied, besides the slot it is in.      *)
RoomToOverflow ==
    /\ low \in {"fetch", "open"} => size < Capacity
    /\ m_rx_status = "RECV" =>
         /\ size < Capacity
         /\ low \in {"fetch", "open"} => size + 1 < Capacity

\* Where the ring ends,
Ends == rear = (front + size) % Capacity

\* how far the two contexts have come with it,
Progress ==
    /\ low = "take" => size > 0
    /\ timer \/ m_rx_index > 0 => n > 0

\* and what PendSV copies.
Copying ==
    low = "fetch" => /\ slot = (front + (Capacity - 1)) % Capacity /\ k <= len
                     /\ \A i \in 1 .. k : out[i] = buf[slot][i]

\* Bytes as they came, all later than lo and none later than hi.
Run(f, lo, hi) == \A i \in 1 .. Len(f) : f[i] = f[1] + i - 1 /\ lo < f[i] /\ f[i] <= hi

Before(f, g)    == \A i \in 1 .. Len(f), j \in 1 .. Len(g) : f[i] < g[j]
AllBefore(q, g) == \A i \in 1 .. Len(q) : Before(q[i], g)
Sorted(q, lo, hi) ==
    /\ \A i \in 1 .. Len(q) : Run(q[i], lo, hi)
    /\ \A i, j \in 1 .. Len(q) : i < j => Before(q[i], q[j])

(* The order of the line: the frame that was fetched last, the one being   *)
(* fetched, the queue, the bytes received since.                           *)
InOrder ==
    /\ Sorted(Frames, last, n) /\ Run(Received, last, n) /\ last <= n
    /\ AllBefore(Frames, Received)
    /\ m_rx_status = "RECV" /\ m_rx_index > 0 => m_rx_buf[m_rx_index] = n
    /\ low = "fetch" => /\ Run(Fetching, last, n) /\ Before(Fetching, Received)
                        /\ \A i \in 1 .. size : Before(Fetching, Frames[i])

IInv == TypeOK /\ RoomToOverflow /\ Ends /\ Progress /\ Copying /\ InOrder

--------------------------------------------------------------------------------
(* Places in the ring.                                                     *)

\* Products grow with their factors.
LEMMA TimesMonotone ==
    ASSUME NEW d \in Nat, NEW a \in Nat, NEW b \in Nat, a <= b
    PROVE  d * a <= d * b
<1>1. d * b = d * a + d * (b - a) /\ d * (b - a) \in Nat /\ d * a \in Nat
  BY b - a \in Nat
<1>2. QED
  BY <1>1

LEMMA Parts ==
    ASSUME NEW d \in Nat \ {0}, NEW x \in Nat
    PROVE  /\ x \div d \in Nat /\ x % d \in 0 .. d - 1
           /\ x = d * (x \div d) + (x % d)
OBVIOUS

\* The remainder of a number below two turns.
LEMMA Turn ==
    ASSUME NEW c \in Nat \ {0}, NEW x \in Nat, x < 2 * c
    PROVE  /\ x < c => (x % c) = x
           /\ c <= x => (x % c) + c = x
           /\ (x % c) \in 0 .. c - 1
<1> DEFINE q == x \div c
           r == x % c
<1>1. q \in Nat /\ r \in 0 .. c - 1 /\ x = c * q + r
  BY Parts
<1> HIDE DEF q, r
<1>2. q = 0 \/ q = 1
  <2>1. ASSUME 2 <= q PROVE FALSE
    <3>1. c * 2 <= c * q
      BY <1>1, <2>1, TimesMonotone
    <3>2. QED
      BY <1>1, <3>1
  <2>2. QED
    BY <1>1, <2>1
<1>3. (x < c => r = x) /\ (c <= x => r + c = x) /\ r \in 0 .. c - 1
  <2>1. CASE q = 0
    BY <1>1, <2>1
  <2>2. CASE q = 1
    BY <1>1, <2>2
  <2>3. QED
    BY <1>2, <2>1, <2>2
<1>4. QED
  BY <1>3 DEF r

\* What follows a place by one turn at most.
LEMMA Place ==
    ASSUME FrameQueueAssumption, NEW f \in Slots, NEW j \in 0 .. Capacity
    PROVE  /\ (f + j) % Capacity = IF f + j < Capacity THEN f + j ELSE f + j - Capacity
           /\ (f + j) % Capacity \in Slots
<1>1. Capacity \in Nat \ {0} /\ f \in Nat /\ j \in Nat /\ f + j \in Nat /\ f + j < 2 * Capacity
  BY DEF FrameQueueAssumption, Slots
<1>2. (f + j) % Capacity = IF f + j < Capacity THEN f + j ELSE f + j - Capacity
  <2>1. CASE f + j < Capacity
    BY <1>1, <2>1, Turn
  <2>2. CASE Capacity <= f + j
    <3>1. ((f + j) % Capacity) + Capacity = f + j /\ ((f + j) % Capacity) \in 0 .. Capacity - 1
      BY <1>1, <2>2, Turn
    <3>2. QED
      BY <1>1, <2>2, <3>1
  <2>3. QED
    BY <1>1, <2>1, <2>2
<1>3. (f + j) % Capacity \in 0 .. Capacity - 1
  BY <1>1, Turn
<1>4. QED
  BY <1>2, <1>3 DEF Slots

\* Places that are less than a turn apart are different, and a turn leads back.
LEMMA Apart ==
    ASSUME FrameQueueAssumption, NEW f \in Slots, NEW i \in 0 .. Capacity - 1,
           NEW j \in 0 .. Capacity - 1, i # j
    PROVE  (f + i) % Capacity # (f + j) % Capacity
<1>1. Capacity \in Nat \ {0} /\ i \in 0 .. Capacity /\ j \in 0 .. Capacity
  BY DEF FrameQueueAssumption
<1>2. /\ (f + i) % Capacity = IF f + i < Capacity THEN f + i ELSE f + i - Capacity
      /\ (f + j) % Capacity = IF f + j < Capacity THEN f + j ELSE f + j - Capacity
  BY <1>1, Place
<1>3. f \in 0 .. Capacity - 1
  BY DEF Slots
<1>4. QED
  BY <1>1, <1>2, <1>3

\* From the place after f, one less.
LEMMA Onward ==
    ASSUME FrameQueueAssumption, NEW f \in Slots, NEW j \in 0 .. Capacity - 1
    PROVE  /\ After(f) \in Slots
           /\ (After(f) + j) % Capacity = (f + (j + 1)) % Capacity
           /\ (f + Capacity) % Capacity = f
<1>1. Capacity \in Nat \ {0} /\ j \in 0 .. Capacity /\ j + 1 \in 0 .. Capacity
      /\ 1 \in 0 .. Capacity /\ Capacity \in 0 .. Capacity /\ f \in 0 .. Capacity - 1
  BY DEF FrameQueueAssumption, Slots
<1>2. /\ After(f) = IF f + 1 < Capacity THEN f + 1 ELSE f + 1 - Capacity
      /\ After(f) \in Slots
  BY <1>1, Place DEF After
<1>3. (After(f) + j) % Capacity
        = IF After(f) + j < Capacity THEN After(f) + j ELSE After(f) + j - Capacity
  BY <1>1, <1>2, Place
<1>4. /\ (f + (j + 1)) % Capacity
            = IF f + (j + 1) < Capacity THEN f + (j + 1) ELSE f + (j + 1) - Capacity
      /\ (f + Capacity) % Capacity
            = IF f + Capacity < Capacity THEN f + Capacity ELSE f + Capacity - Capacity
  BY <1>1, Place
<1>5. QED
  BY <1>1, <1>2, <1>3, <1>4

--------------------------------------------------------------------------------
(* The ring as a sequence: sz frames from the slot fr on.                  *)

Ring(fr, sz, c) == [i \in 1 .. sz |-> c[(fr + i - 1) % Capacity]]

LEMMA RingType ==
    ASSUME FrameQueueAssumption, NEW fr \in Slots, NEW sz \in 0 .. Capacity,
           NEW c \in [Slots -> Seq(Nat)]
    PROVE  /\ Ring(fr, sz, c) \in Seq(Seq(Nat)) /\ Len(Ring(fr, sz, c)) = sz
           /\ \A i \in 1 .. sz : /\ (fr + i - 1) % Capacity \in Slots
                               /\ Ring(fr, sz, c)[i] = c[(fr + i - 1) % Capacity]
<1>1. \A i \in 1 .. sz : (fr + i - 1) % Capacity \in Slots
  <2>1. TAKE i \in 1 .. sz
  <2>2. i - 1 \in 0 .. Capacity /\ fr \in Int
    BY DEF FrameQueueAssumption, Slots
  <2>3. fr + i - 1 = fr + (i - 1)
    BY <2>2
  <2>4. QED
    BY <2>2, <2>3, Place
<1>2. sz \in Nat
  BY DEF FrameQueueAssumption
<1>3. QED
  BY <1>1, <1>2 DEF Ring

\* A frame that is put behind the others.
LEMMA RingPut ==
    ASSUME FrameQueueAssumption, NEW fr \in Slots, NEW sz \in 0 .. Capacity - 1,
           NEW c \in [Slots -> Seq(Nat)], NEW d \in [Slots -> Seq(Nat)],
           \A s \in Slots \ {(fr + sz) % Capacity} : d[s] = c[s]
    PROVE  Ring(fr, sz + 1, d) = Append(Ring(fr, sz, c), d[(fr + sz) % Capacity])
<1> DEFINE a == Ring(fr, sz + 1, d)
           b == Ring(fr, sz, c)
           e == d[(fr + sz) % Capacity]
           z == Append(b, e)
<1>0. Capacity \in Nat \ {0} /\ sz \in 0 .. Capacity /\ sz + 1 \in 0 .. Capacity /\ fr \in Int
  BY DEF FrameQueueAssumption, Slots
<1>1. /\ a \in Seq(Seq(Nat)) /\ Len(a) = sz + 1
      /\ b \in Seq(Seq(Nat)) /\ Len(b) = sz
      /\ \A i \in 1 .. sz + 1 : a[i] = d[(fr + i - 1) % Capacity]
      /\ \A i \in 1 .. sz : b[i] = c[(fr + i - 1) % Capacity]
  <2>1. /\ a \in Seq(Seq(Nat)) /\ Len(a) = sz + 1
        /\ \A i \in 1 .. sz + 1 : a[i] = d[(fr + i - 1) % Capacity]
    BY <1>0, RingType
  <2>2. /\ b \in Seq(Seq(Nat)) /\ Len(b) = sz
        /\ \A i \in 1 .. sz : b[i] = c[(fr + i - 1) % Capacity]
    BY <1>0, RingType
  <2>3. QED
    BY <2>1, <2>2
<1>2. e \in Seq(Nat)
  BY <1>0, Place
<1>3. /\ z \in Seq(Seq(Nat)) /\ Len(z) = sz + 1
      /\ \A i \in 1 .. sz : z[i] = b[i]
      /\ z[sz + 1] = e
  <2> HIDE DEF b, e
  <2> QED BY <1>0, <1>1, <1>2
<1>4. \A i \in 1 .. sz + 1 : a[i] = z[i]
  <2>1. TAKE i \in 1 .. sz + 1
  <2>2. CASE i = sz + 1
    <3>1. fr + i - 1 = fr + sz
      BY <1>0, <2>2
    <3>2. QED
      BY <1>1, <1>3, <2>2, <3>1
  <2>3. CASE i # sz + 1
    <3>1. i \in 1 .. sz /\ i - 1 \in 0 .. Capacity - 1 /\ i - 1 # sz /\ fr + i - 1 = fr + (i - 1)
      BY <1>0, <2>3
    <3>2. (fr + (i - 1)) % Capacity # (fr + sz) % Capacity
      BY <3>1, Apart
    <3>3. (fr + (i - 1)) % Capacity \in Slots
      <4>1. i - 1 \in 0 .. Capacity
        BY <1>0, <3>1
      <4>2. QED
        BY <4>1, Place
    <3>4. d[(fr + (i - 1)) % Capacity] = c[(fr + (i - 1)) % Capacity]
      BY <3>2, <3>3
    <3>5. QED
      BY <1>1, <1>3, <3>1, <3>4
  <2>4. QED
    BY <2>2, <2>3
<1>5. QED
  <2> HIDE DEF a, z
  <2>1. a = z
    BY <1>1, <1>3, <1>4, SeqEqual
  <2>2. QED
    BY <2>1 DEF a, z

\* The first frame is taken.
LEMMA RingGet ==
    ASSUME FrameQueueAssumption, NEW fr \in Slots, NEW sz \in 1 .. Capacity,
           NEW c \in [Slots -> Seq(Nat)]
    PROVE  /\ Ring(fr, sz, c) # <<>> /\ Head(Ring(fr, sz, c)) = c[fr]
           /\ Ring(After(fr), sz - 1, c) = Tail(Ring(fr, sz, c))
<1> DEFINE a == Ring(fr, sz, c)
           b == Ring(After(fr), sz - 1, c)
<1>0. Capacity \in Nat \ {0} /\ sz \in 0 .. Capacity /\ sz - 1 \in 0 .. Capacity /\ fr \in Int
      /\ 0 \in 0 .. Capacity - 1 /\ 0 \in 0 .. Capacity
  BY DEF FrameQueueAssumption, Slots
<1>1. After(fr) \in Slots /\ fr % Capacity = fr
  <2>1. fr + 0 = fr /\ fr < Capacity
    BY <1>0 DEF Slots
  <2>2. QED
    BY <1>0, <2>1, Onward, Place
<1>2. /\ a \in Seq(Seq(Nat)) /\ Len(a) = sz
      /\ b \in Seq(Seq(Nat)) /\ Len(b) = sz - 1
      /\ \A i \in 1 .. sz : a[i] = c[(fr + i - 1) % Capacity]
      /\ \A i \in 1 .. sz - 1 : b[i] = c[(After(fr) + i - 1) % Capacity]
  <2>1. /\ a \in Seq(Seq(Nat)) /\ Len(a) = sz
        /\ \A i \in 1 .. sz : a[i] = c[(fr + i - 1) % Capacity]
    BY <1>0, RingType
  <2>2. /\ b \in Seq(Seq(Nat)) /\ Len(b) = sz - 1
        /\ \A i \in 1 .. sz - 1 : b[i] = c[(After(fr) + i - 1) % Capacity]
    <3>1. After(fr) \in Slots /\ sz - 1 \in 0 .. Capacity
      BY <1>0, <1>1
    <3>2. /\ Ring(After(fr), sz - 1, c) \in Seq(Seq(Nat)) /\ Len(Ring(After(fr), sz - 1, c)) = sz - 1
          /\ \A i \in 1 .. sz - 1 : /\ (After(fr) + i - 1) % Capacity \in Slots
                                  /\ Ring(After(fr), sz - 1, c)[i] = c[(After(fr) + i - 1) % Capacity]
      BY ONLY FrameQueueAssumption, <3>1, c \in [Slots -> Seq(Nat)], RingType
    <3>3. QED
      BY <3>2
  <2>3. QED
    BY <2>1, <2>2
<1>3. a # <<>> /\ Head(a) = c[fr]
  <2>1. a[1] = c[fr]
    <3>1. fr + 1 - 1 = fr
      BY <1>0
    <3>2. QED
      BY <1>1, <1>2, <3>1
  <2>2. QED
    <3> HIDE DEF a
    <3> QED BY <1>2, <2>1
<1>4. /\ Tail(a) \in Seq(Seq(Nat)) /\ Len(Tail(a)) = sz - 1
      /\ \A i \in 1 .. sz - 1 : Tail(a)[i] = a[i + 1]
  <2> HIDE DEF a
  <2> QED BY <1>2, <1>3, HeadTailProperties
<1>5. \A i \in 1 .. sz - 1 : b[i] = Tail(a)[i]
  <2>1. TAKE i \in 1 .. sz - 1
  <2>2. i - 1 \in 0 .. Capacity - 1 /\ fr + ((i - 1) + 1) = fr + (i + 1) - 1
        /\ After(fr) + (i - 1) = After(fr) + i - 1 /\ i + 1 \in 1 .. sz
    BY <1>0, <1>1 DEF Slots
  <2>3. (After(fr) + (i - 1)) % Capacity = (fr + ((i - 1) + 1)) % Capacity
    BY <2>2, Onward
  <2>4. b[i] = c[(After(fr) + i - 1) % Capacity]
    BY <1>2
  <2>5. Tail(a)[i] = c[(fr + (i + 1) - 1) % Capacity]
    <3> HIDE DEF a
    <3> QED BY <1>2, <1>4, <2>2
  <2>6. QED
    BY <2>2, <2>3, <2>4, <2>5
<1>6. QED
  <2> HIDE DEF a, b
  <2>1. b = Tail(a)
    BY <1>2, <1>4, <1>5, SeqEqual
  <2>2. QED
    BY <1>3, <2>1 DEF a, b

--------------------------------------------------------------------------------
(* The frames as sequences.                                                *)

Contents == [s \in Slots |-> Content(s)]

Laid ==
    /\ Contents \in [Slots -> Seq(Nat)] /\ Frames = Ring(front, size, Contents)
    /\ Frames \in Seq(Seq(Nat)) /\ Len(Frames) = size
    /\ Received \in Seq(Nat) /\ Len(Received) = m_rx_index
    /\ \A i \in 1 .. m_rx_index : Received[i] = m_rx_buf[i] /\ m_rx_buf[i] \in Nat
    /\ Fetching \in Seq(Nat) /\ Len(Fetching) = len
    /\ \A i \in 1 .. len : Fetching[i] = buf[slot][i] /\ buf[slot][i] \in Nat

\* The first m bytes of a buffer.
LEMMA FirstBytes ==
    ASSUME FrameQueueAssumption, NEW f \in [1 .. RxSize -> Bytes], NEW m \in 0 .. RxSize
    PROVE  /\ SubSeq(f, 1, m) \in Seq(Nat) /\ Len(SubSeq(f, 1, m)) = m
           /\ \A i \in 1 .. m : SubSeq(f, 1, m)[i] = f[i] /\ f[i] \in Nat
<1>1. RxSize \in Nat /\ m \in Nat
  BY DEF FrameQueueAssumption
<1>2. f \in Seq(Nat) /\ Len(f) = RxSize
  BY <1>1 DEF Bytes
<1>3. QED
  BY <1>1, <1>2

\* What is queued, received and fetched are sequences of bytes.
LEMMA LaidOut ==
    ASSUME FrameQueueAssumption
    PROVE  TypeOK => Laid
<1> SUFFICES ASSUME TypeOK PROVE Laid
  OBVIOUS
<1>1. \A s \in Slots : Content(s) \in Seq(Nat)
  <2>1. TAKE s \in Slots
  <2>2. buf[s] \in [1 .. RxSize -> Bytes] /\ m_len[s] \in 0 .. RxSize
    BY DEF TypeOK
  <2>3. SubSeq(buf[s], 1, m_len[s]) \in Seq(Nat)
    BY <2>2, FirstBytes
  <2>4. QED
    BY <2>3 DEF Content
<1>2. front \in Slots /\ size \in 0 .. Capacity
  BY DEF TypeOK
<1>3. Contents \in [Slots -> Seq(Nat)]
  BY <1>1 DEF Contents
<1>4. /\ Ring(front, size, Contents) \in Seq(Seq(Nat)) /\ Len(Ring(front, size, Contents)) = size
      /\ \A i \in 1 .. size : (front + i - 1) % Capacity \in Slots
  BY <1>2, <1>3, RingType
<1>5. Frames = Ring(front, size, Contents)
  BY <1>4 DEF Frames, Ring, Contents
<1>6. /\ m_rx_buf \in [1 .. RxSize -> Bytes] /\ m_rx_index \in 0 .. RxSize
      /\ buf[slot] \in [1 .. RxSize -> Bytes] /\ len \in 0 .. RxSize
  BY DEF TypeOK
<1>7. /\ Received \in Seq(Nat) /\ Len(Received) = m_rx_index
      /\ \A i \in 1 .. m_rx_index : Received[i] = m_rx_buf[i] /\ m_rx_buf[i] \in Nat
  BY <1>6, FirstBytes DEF Received
<1>8. /\ Fetching \in Seq(Nat) /\ Len(Fetching) = len
      /\ \A i \in 1 .. len : Fetching[i] = buf[slot][i] /\ buf[slot][i] \in Nat
  BY <1>6, FirstBytes DEF Fetching
<1>9. QED
  BY <1>3, <1>4, <1>5, <1>7, <1>8 DEF Laid

--------------------------------------------------------------------------------
(* What a step does to the frames.                                         *)

\* Nothing happens to the queue.
LEMMA FramesKept ==
    ASSUME UNCHANGED <<front, size>>, \A s \in Slots : Content(s)' = Content(s),
           FrameQueueAssumption, TypeOK, TypeOK'
    PROVE  Frames' = Frames
<1>1. Contents' = Contents
  BY DEF Contents
<1>2. Laid /\ Laid'
  BY LaidOut, PTL
<1>3. Frames = Ring(front, size, Contents) /\ Frames' = Ring(front, size, Contents')
  BY <1>2 DEF Laid
<1>4. QED
  BY <1>1, <1>3

\* The first frame goes.
LEMMA FramesTail ==
    ASSUME size > 0, size' = size - 1, front' = After(front),
           \A s \in Slots : Content(s)' = Content(s),
           FrameQueueAssumption, TypeOK, TypeOK'
    PROVE  Frames # <<>> /\ Frames' = Tail(Frames) /\ Head(Frames) = Content(front)
<1>1. Contents' = Contents
  BY DEF Contents
<1>2. Laid /\ Laid'
  BY LaidOut, PTL
<1>3. /\ Frames = Ring(front, size, Contents) /\ Frames' = Ring(After(front), size - 1, Contents')
      /\ Contents \in [Slots -> Seq(Nat)]
  BY <1>2 DEF Laid
<1>4. front \in Slots /\ size \in 1 .. Capacity
  BY DEF TypeOK, FrameQueueAssumption
<1>5. /\ Ring(front, size, Contents) # <<>> /\ Head(Ring(front, size, Contents)) = Contents[front]
      /\ Ring(After(front), size - 1, Contents) = Tail(Ring(front, size, Contents))
  BY <1>3, <1>4, RingGet
<1>6. Contents[front] = Content(front)
  BY <1>4 DEF Contents
<1>7. QED
  BY <1>1, <1>3, <1>5, <1>6

\* A frame is put behind the others.
LEMMA FramesAppend ==
    ASSUME NEW f, size < Capacity, size' = size + 1, front' = front,
           (front + size) % Capacity = rear,
           \A s \in Slots : s = rear => Content(s)' = f,
           \A s \in Slots \ {rear} : Content(s)' = Content(s),
           FrameQueueAssumption, TypeOK, TypeOK'
    PROVE  Frames' = Append(Frames, f)
<1>1. \A s \in Slots \ {rear} : Contents'[s] = Contents[s]
  BY DEF Contents
<1>2. Laid /\ Laid'
  BY LaidOut, PTL
<1>3. /\ Frames = Ring(front, size, Contents) /\ Frames' = Ring(front, size + 1, Contents')
      /\ Contents \in [Slots -> Seq(Nat)] /\ Contents' \in [Slots -> Seq(Nat)]
  BY <1>2 DEF Laid
<1>4. front \in Slots /\ rear \in Slots /\ size \in 0 .. Capacity - 1
  BY DEF TypeOK, FrameQueueAssumption
<1>5. Ring(front, size + 1, Contents') = Append(Ring(front, size, Contents), Contents'[rear])
  BY <1>1, <1>3, <1>4, RingPut
<1>6. Contents'[rear] = f
  BY <1>4 DEF Contents
<1>7. QED
  BY <1>3, <1>5, <1>6

\* The queue is full, and the frame takes the place of the first.
LEMMA FramesReplace ==
    ASSUME NEW f, size = Capacity, size' = size, front' = After(front),
           (front + size) % Capacity = rear,
           \A s \in Slots : s = rear => Content(s)' = f,
           \A s \in Slots \ {rear} : Content(s)' = Content(s),
           FrameQueueAssumption, TypeOK, TypeOK'
    PROVE  Frames # <<>> /\ Frames' = Append(Tail(Frames), f)
<1>1. \A s \in Slots \ {rear} : Contents'[s] = Contents[s]
  BY DEF Contents
<1>2. Laid /\ Laid'
  BY LaidOut, PTL
<1>3. /\ Frames = Ring(front, size, Contents) /\ Frames' = Ring(After(front), size, Contents')
      /\ Contents \in [Slots -> Seq(Nat)] /\ Contents' \in [Slots -> Seq(Nat)]
  BY <1>2 DEF Laid
<1>4. /\ front \in Slots /\ rear \in Slots /\ size \in 1 .. Capacity
      /\ size - 1 \in 0 .. Capacity - 1 /\ (size - 1) + 1 = size
  BY DEF TypeOK, FrameQueueAssumption
<1>5. After(front) \in Slots /\ (After(front) + (size - 1)) % Capacity = rear
  BY <1>4, Onward
<1>6. Ring(After(front), (size - 1) + 1, Contents')
        = Append(Ring(After(front), size - 1, Contents), Contents'[rear])
  <2> DEFINE a == After(front)
             z == size - 1
  <2>1. a \in Slots /\ z \in 0 .. Capacity - 1 /\ (a + z) % Capacity = rear
    BY <1>4, <1>5
  <2> HIDE DEF a, z
  <2>2. Ring(a, z + 1, Contents') = Append(Ring(a, z, Contents), Contents'[rear])
    <3>1. Ring(a, z + 1, Contents') = Append(Ring(a, z, Contents), Contents'[(a + z) % Capacity])
      BY <1>1, <1>3, <2>1, RingPut
    <3>2. QED
      BY <2>1, <3>1
  <2>3. QED
    BY <2>2 DEF a, z
<1>7. /\ Ring(front, size, Contents) # <<>>
      /\ Ring(After(front), size - 1, Contents) = Tail(Ring(front, size, Contents))
  BY <1>3, <1>4, RingGet
<1>8. Contents'[rear] = f
  BY <1>4 DEF Contents
<1>9. QED
  BY <1>3, <1>4, <1>6, <1>7, <1>8

--------------------------------------------------------------------------------
(* Every step keeps the types, the room and the counters.                  *)

LEMMA AfterSlot ==
    ASSUME FrameQueueAssumption, NEW s \in Slots
    PROVE  After(s) \in Slots
<1>1. 0 \in 0 .. Capacity - 1
  BY DEF FrameQueueAssumption
<1>2. QED
  BY <1>1, Onward

\* What a frame that is queued does to the counters.
LEMMA FrameCounts ==
    ASSUME FrameQueueAssumption, TypeOK, QueueFrame
    PROVE  /\ rear' = After(rear)
           /\ \/ size < Capacity /\ size' = size + 1 /\ front' = front
              \/ size = Capacity /\ size' = size /\ front' = After(front)
<1>1. size \in 0 .. Capacity /\ Capacity \in Nat \ {0}
  BY DEF FrameQueueAssumption, TypeOK
<1>2. CASE Full
  <2>1. size = Capacity
    BY <1>1, <1>2 DEF Full
  <2>2. QED
    BY <1>2, <2>1 DEF QueueFrame
<1>3. CASE ~Full
  <2>1. size < Capacity
    BY <1>1, <1>3 DEF Full
  <2>2. QED
    BY <1>3, <2>1 DEF QueueFrame
<1>4. QED
  BY <1>2, <1>3

\* It keeps the types of the queue.
LEMMA FrameTypes ==
    ASSUME FrameQueueAssumption, TypeOK, QueueFrame
    PROVE  /\ front' \in Slots /\ rear' \in Slots /\ size' \in 0 .. Capacity
           /\ m_len' \in [Slots -> 0 .. RxSize] /\ buf' \in [Slots -> [1 .. RxSize -> Bytes]]
<1>1. After(front) \in Slots /\ After(rear) \in Slots
  BY AfterSlot DEF TypeOK
<1>2. front' \in Slots /\ rear' \in Slots /\ size' \in 0 .. Capacity
  BY <1>1, FrameCounts DEF FrameQueueAssumption, TypeOK
<1>3. m_len' \in [Slots -> 0 .. RxSize] /\ buf' \in [Slots -> [1 .. RxSize -> Bytes]]
  BY DEF QueueFrame, TypeOK
<1>4. QED
  BY <1>2, <1>3

LEMMA TypeStep ==
    ASSUME FrameQueueAssumption, TypeOK, Progress, Next
    PROVE  TypeOK'
<1> USE DEF FrameQueueAssumption, TypeOK
<1>1. After(front) \in Slots
  BY AfterSlot
<1>2. CASE Byte
  <2>1. n' \in Bytes /\ n \in Bytes
    BY <1>2 DEF Byte, Bytes
  <2>2. CASE Overflow
    <3>1. /\ front' \in Slots /\ rear' \in Slots /\ size' \in 0 .. Capacity
          /\ m_len' \in [Slots -> 0 .. RxSize] /\ buf' \in [Slots -> [1 .. RxSize -> Bytes]]
      BY <2>2, FrameTypes DEF Overflow, Done
    <3>2. QED
      BY <1>2, <2>1, <2>2, <3>1 DEF Byte, Overflow, Done, copy
  <2>3. CASE Store
    BY <1>2, <2>1, <2>3 DEF Byte, Store, copy, queue
  <2>4. CASE Drop
    BY <1>2, <2>1, <2>4 DEF Byte, Drop, copy, queue, rx
  <2>5. QED
    BY <1>2, <2>2, <2>3, <2>4 DEF Byte
<1>3. CASE Silence
  <2>1. /\ front' \in Slots /\ rear' \in Slots /\ size' \in 0 .. Capacity
        /\ m_len' \in [Slots -> 0 .. RxSize] /\ buf' \in [Slots -> [1 .. RxSize -> Bytes]]
    BY <1>3, FrameTypes DEF Silence, Done
  <2>2. /\ m_rx_status' \in {"RECV", "DONE"} /\ m_rx_index' \in 0 .. RxSize
        /\ timer' \in BOOLEAN /\ pended' \in BOOLEAN /\ room' \in BOOLEAN
    <3>1. m_rx_status' = "DONE" /\ m_rx_index' = 0
      BY <1>3 DEF Silence, Done
    <3>2. timer' = FALSE /\ pended' = TRUE /\ room' = TRUE
      BY <1>3, Zenon DEF Silence, Done
    <3>3. 0 \in 0 .. RxSize
      OBVIOUS
    <3>4. QED
      BY <3>1, <3>2, <3>3, Zenon
  <2>3. UNCHANGED <<m_rx_buf, low, slot, k, len, out, n, last>>
    BY <1>3 DEF Silence, copy
  <2>4. QED
    BY <2>1, <2>2, <2>3
<1>4. CASE PendSV
  BY <1>4 DEF PendSV, rx, queue, copy, PendSVAt
<1>5. CASE Get
  BY <1>5 DEF Get, rx, queue, copy, PendSVAt
<1>6. CASE Take
  BY <1>1, <1>6 DEF Take, Progress, rx, PendSVAt
<1>7. CASE Fetch
  <2>1. k + 1 \in 1 .. RxSize
    BY <1>7 DEF Fetch
  <2>2. buf[slot][k + 1] \in Bytes
    BY <2>1
  <2>3. QED
    BY <1>7, <2>1, <2>2 DEF Fetch, rx, queue
<1>8. CASE Fetched
  BY <1>8 DEF Fetched, rx, queue, copy, PendSVAt
<1>9. CASE RxEnter
  BY <1>9 DEF RxEnter, queue, copy, PendSVAt
<1>10. QED
  BY <1>2, <1>3, <1>4, <1>5, <1>6, <1>7, <1>8, <1>9 DEF Next

LEMMA RoomStep ==
    ASSUME FrameQueueAssumption, TypeOK, RoomToOverflow, Next
    PROVE  RoomToOverflow'
<1> USE DEF FrameQueueAssumption, TypeOK, RoomToOverflow
<1>1. CASE Byte
  <2>1. low' = low
    BY <1>1 DEF Byte
  <2>2. CASE m_rx_status = "RECV" /\ Overflow
    <3>1. size' = size + 1 /\ m_rx_status' = "DONE"
      BY <2>2, FrameCounts DEF Overflow, Done
    <3>2. QED
      BY <2>1, <2>2, <3>1
  <2>3. CASE Store
    BY <2>1, <2>3 DEF Store, queue
  <2>4. CASE Drop
    BY <2>1, <2>4 DEF Drop, rx, queue
  <2>5. QED
    BY <1>1, <2>2, <2>3, <2>4 DEF Byte
<1>2. CASE Silence
  BY <1>2 DEF Silence, Done
<1>3. CASE PendSV
  BY <1>3 DEF PendSV, rx, queue
<1>4. CASE Get
  BY <1>4 DEF Get, rx, queue
<1>5. CASE Take
  BY <1>5 DEF Take, rx
<1>6. CASE Fetch
  BY <1>6 DEF Fetch, rx, queue
<1>7. CASE Fetched
  BY <1>7 DEF Fetched, rx, queue
<1>8. CASE RxEnter
  BY <1>8 DEF RxEnter, queue
<1>9. QED
  BY <1>1, <1>2, <1>3, <1>4, <1>5, <1>6, <1>7, <1>8 DEF Next

LEMMA Further ==
    ASSUME FrameQueueAssumption, NEW f \in Slots, NEW j \in 0 .. Capacity - 1
    PROVE  After((f + j) % Capacity) = (f + (j + 1)) % Capacity
<1>1. /\ Capacity \in Nat \ {0} /\ f \in 0 .. Capacity - 1
      /\ j \in 0 .. Capacity /\ j + 1 \in 0 .. Capacity /\ 1 \in 0 .. Capacity
  BY DEF FrameQueueAssumption, Slots
<1>2. /\ (f + j) % Capacity = IF f + j < Capacity THEN f + j ELSE f + j - Capacity
      /\ (f + j) % Capacity \in Slots
  BY <1>1, Place
<1>3. (f + (j + 1)) % Capacity
        = IF f + (j + 1) < Capacity THEN f + (j + 1) ELSE f + (j + 1) - Capacity
  BY <1>1, Place
<1> DEFINE g == (f + j) % Capacity
<1>4. After(g) = IF g + 1 < Capacity THEN g + 1 ELSE g + 1 - Capacity
  <2>1. g \in Slots
    BY <1>2
  <2> HIDE DEF g
  <2>2. QED
    BY <1>1, <2>1, Place DEF After
<1>5. QED
  BY <1>1, <1>2, <1>3, <1>4

LEMMA EndsStep ==
    ASSUME FrameQueueAssumption, TypeOK, Ends, Progress, Next
    PROVE  Ends'
<1>1. front \in Slots /\ size \in 0 .. Capacity /\ Capacity \in Nat \ {0}
  BY DEF FrameQueueAssumption, TypeOK
\* One more, with room for it.
<1>2. ASSUME size < Capacity, size' = size + 1, front' = front, rear' = After(rear)
      PROVE  Ends'
  <2>1. size \in 0 .. Capacity - 1
    BY <1>1, <1>2
  <2>2. QED
    BY <1>1, <1>2, <2>1, Further DEF Ends
\* One less.
<1>3. ASSUME size > 0, size' = size - 1, front' = After(front), rear' = rear
      PROVE  Ends'
  <2>1. size - 1 \in 0 .. Capacity - 1 /\ (size - 1) + 1 = size
    BY <1>1, <1>3
  <2>2. (After(front) + (size - 1)) % Capacity = (front + ((size - 1) + 1)) % Capacity
    <3> DEFINE z == size - 1
    <3>1. z \in 0 .. Capacity - 1
      BY <2>1
    <3> HIDE DEF z
    <3>2. (After(front) + z) % Capacity = (front + (z + 1)) % Capacity
      BY <1>1, <3>1, Onward
    <3>3. QED
      BY <3>2 DEF z
  <2>3. QED
    BY <1>3, <2>1, <2>2 DEF Ends
\* One for another.
<1>4. ASSUME size = Capacity, size' = size, front' = After(front), rear' = After(rear)
      PROVE  Ends'
  <2>1. rear = front /\ After(front) \in Slots
    <3>1. 0 \in 0 .. Capacity - 1
      BY <1>1
    <3>2. QED
      BY <1>1, <1>4, <3>1, Onward DEF Ends
  <2>2. (After(front) + Capacity) % Capacity = After(front)
    <3>1. 0 \in 0 .. Capacity - 1
      BY <1>1
    <3>2. QED
      BY <2>1, <3>1, Onward
  <2>3. QED
    BY <1>4, <2>1, <2>2 DEF Ends
<1>5. ASSUME UNCHANGED <<front, rear, size>> PROVE Ends'
  BY <1>5 DEF Ends
\* A frame is queued.
<1>6. ASSUME QueueFrame PROVE Ends'
  BY <1>2, <1>4, <1>6, FrameCounts
<1>7. CASE Byte
  <2>1. CASE Overflow
    BY <1>6, <2>1 DEF Overflow, Done
  <2>2. CASE Store \/ Drop
    BY <1>5, <2>2 DEF Store, Drop, queue
  <2>3. QED
    BY <1>7, <2>1, <2>2 DEF Byte
<1>8. CASE Silence
  BY <1>6, <1>8 DEF Silence, Done
<1>9. CASE Take
  BY <1>3, <1>9 DEF Take, Progress
<1>10. CASE PendSV \/ Get \/ Fetch \/ Fetched \/ RxEnter
  <2>1. UNCHANGED <<front, rear, size>>
    BY <1>10 DEF PendSV, Get, Fetch, Fetched, RxEnter, queue
  <2>2. QED
    BY <1>5, <2>1
<1>11. QED
  BY <1>7, <1>8, <1>9, <1>10 DEF Next

LEMMA ProgressStep ==
    ASSUME FrameQueueAssumption, TypeOK, Progress, Next
    PROVE  Progress'
<1>1. size \in Nat /\ m_rx_index \in Nat /\ n \in Nat
  BY DEF FrameQueueAssumption, TypeOK, Bytes
<1>2. CASE Byte
  <2>1. low' = low /\ n' = n + 1
    BY <1>2 DEF Byte
  <2>2. n' > 0
    BY <1>1, <2>1
  <2>3. size > 0 => size' > 0
    <3>1. CASE Overflow
      <4>1. size' = size \/ size' = size + 1
        BY <3>1 DEF Overflow, Done, QueueFrame
      <4>2. QED
        BY <1>1, <4>1
    <3>2. CASE Store \/ Drop
      BY <3>2 DEF Store, Drop, queue
    <3>3. QED
      BY <1>2, <3>1, <3>2 DEF Byte
  <2>4. QED
    BY <2>1, <2>2, <2>3 DEF Progress
<1>3. CASE Silence
  <2>1. low' = "none" /\ timer' = FALSE /\ m_rx_index' = 0
    BY <1>3 DEF Silence
  <2>2. ~(m_rx_index' > 0)
    BY <2>1
  <2>3. QED
    BY <2>1, <2>2 DEF Progress
<1>4. CASE PendSV \/ Take \/ Fetch \/ Fetched
  <2>1. low' # "take" /\ UNCHANGED <<timer, m_rx_index, n>>
    BY <1>4 DEF PendSV, Take, Fetch, Fetched, rx
  <2>2. QED
    BY <2>1 DEF Progress
<1>5. CASE Get
  <2>1. UNCHANGED <<timer, m_rx_index, n, size>> /\ low' = IF size > 0 THEN "take" ELSE "none"
    BY <1>5 DEF Get, rx, queue
  <2>2. QED
    BY <2>1 DEF Progress
<1>6. CASE RxEnter
  <2>1. low' \in {"get", "none"} /\ m_rx_index' = 0 /\ timer' = timer /\ n' = n
    BY <1>6 DEF RxEnter
  <2>2. low' # "take" /\ ~(m_rx_index' > 0)
    BY <2>1
  <2>3. timer' => n' > 0
    BY <2>1, Zenon DEF Progress
  <2>4. QED
    BY <2>2, <2>3, Zenon DEF Progress
<1>7. QED
  BY <1>2, <1>3, <1>4, <1>5, <1>6 DEF Next

\* An overflow leaves alone the slot that a frame is being copied from.
LEMMA OverflowElsewhere ==
    ASSUME FrameQueueAssumption, TypeOK, RoomToOverflow, Ends, Copying,
           low = "fetch", m_rx_status = "RECV", Overflow
    PROVE  slot # rear /\ buf'[slot] = buf[slot] /\ front' = front
<1>1. /\ front \in Slots /\ slot \in Slots /\ size \in 0 .. Capacity /\ Capacity \in Nat \ {0}
      /\ buf \in [Slots -> [1 .. RxSize -> Bytes]]
  BY DEF FrameQueueAssumption, TypeOK
<1>2. size + 1 < Capacity
  BY DEF RoomToOverflow
<1>3. size \in 0 .. Capacity - 1 /\ Capacity - 1 \in 0 .. Capacity - 1 /\ size # Capacity - 1
  BY <1>1, <1>2
<1>4. slot # rear
  <2> DEFINE z == Capacity - 1
  <2>1. z \in 0 .. Capacity - 1 /\ size # z
    BY <1>3
  <2>2. slot = (front + z) % Capacity /\ rear = (front + size) % Capacity
    BY DEF Copying, Ends
  <2> HIDE DEF z
  <2>3. QED
    BY <1>1, <1>3, <2>1, <2>2, Apart
<1>5. ~Full
  BY <1>1, <1>2 DEF Full
<1>6. QED
  BY <1>1, <1>4, <1>5 DEF Overflow, Done, QueueFrame

LEMMA CopyingStep ==
    ASSUME FrameQueueAssumption, TypeOK, RoomToOverflow, Ends, Progress, Copying, Next
    PROVE  Copying'
<1>1. /\ size \in Nat /\ Capacity \in Nat \ {0} /\ RxSize \in Nat \ {0}
      /\ len \in 0 .. RxSize /\ m_rx_index \in 0 .. RxSize /\ k \in Nat
      /\ slot \in Slots /\ front \in Slots
      /\ m_rx_buf \in [1 .. RxSize -> Bytes] /\ out \in [1 .. RxSize -> Bytes]
      /\ buf \in [Slots -> [1 .. RxSize -> Bytes]]
  BY DEF FrameQueueAssumption, TypeOK
<1>2. CASE Byte
  <2>1. UNCHANGED <<low, slot, k, len, out>>
    BY <1>2 DEF Byte, copy
  <2>2. CASE m_rx_status = "RECV" /\ Overflow
    <3>1. CASE low = "fetch"
      BY <2>1, <2>2, <3>1, OverflowElsewhere DEF Copying
    <3>2. QED
      BY <2>1, <3>1 DEF Copying
  <2>3. CASE Store \/ Drop
    BY <2>1, <2>3 DEF Store, Drop, queue, Copying
  <2>4. QED
    BY <1>2, <2>2, <2>3 DEF Byte
<1>5. CASE Take
  <2>1. /\ low' = "fetch" /\ slot' = front /\ k' = 0 /\ len' = m_len[front]
        /\ front' = After(front) /\ m_len[front] \in Nat
    BY <1>5 DEF Take, TypeOK
  <2>2. (After(front) + (Capacity - 1)) % Capacity = front
    <3>1. Capacity - 1 \in 0 .. Capacity - 1 /\ (Capacity - 1) + 1 = Capacity
      BY <1>1
    <3> DEFINE z == Capacity - 1
    <3>2. z \in 0 .. Capacity - 1 /\ z + 1 = Capacity
      BY <3>1
    <3> HIDE DEF z
    <3>3. (After(front) + z) % Capacity = (front + Capacity) % Capacity
      BY <1>1, <3>2, Onward
    <3>4. (front + Capacity) % Capacity = front
      BY <1>1, <3>2, Onward
    <3>5. QED
      BY <3>3, <3>4 DEF z
  <2>3. QED
    BY <1>1, <2>1, <2>2 DEF Copying
<1>6. CASE Fetch
  <2>1. /\ UNCHANGED <<low, front, buf, slot, len>> /\ low = "fetch" /\ k < len /\ k' = k + 1
        /\ out' = [out EXCEPT ![k + 1] = buf[slot][k + 1]]
    BY <1>6 DEF Fetch, queue
  <2>2. \A i \in 1 .. k + 1 : out'[i] = buf[slot][i]
    <3>1. TAKE i \in 1 .. k + 1
    <3>2. i \in 1 .. RxSize
      BY <1>1, <2>1
    <3>3. CASE i = k + 1
      BY <1>1, <2>1, <3>2, <3>3
    <3>4. CASE i \in 1 .. k
      BY <1>1, <2>1, <3>2, <3>4 DEF Copying
    <3>5. QED
      BY <1>1, <3>3, <3>4
  <2>3. QED
    BY <1>1, <2>1, <2>2 DEF Copying
<1>7. CASE Silence \/ PendSV \/ Get \/ Fetched \/ RxEnter
  <2>1. low' # "fetch"
    BY <1>7 DEF Silence, PendSV, Get, Fetched, RxEnter
  <2>2. QED
    BY <2>1 DEF Copying
<1>8. QED
  BY <1>2, <1>5, <1>6, <1>7 DEF Next

--------------------------------------------------------------------------------
(* What each action does to the frames.                                    *)

\* The receive buffer is queued as it is.
LEMMA QueueFrames ==
    ASSUME QueueFrame, Ends, FrameQueueAssumption, TypeOK, TypeOK'
    PROVE  \/ size < Capacity /\ Frames' = Append(Frames, Received)
           \/ size = Capacity /\ Frames # <<>> /\ Frames' = Append(Tail(Frames), Received)
<1>1. /\ rear \in Slots
      /\ buf \in [Slots -> [1 .. RxSize -> Bytes]] /\ m_len \in [Slots -> 0 .. RxSize]
  BY DEF TypeOK
<1>2. buf' = [buf EXCEPT ![rear] = m_rx_buf] /\ m_len' = [m_len EXCEPT ![rear] = m_rx_index]
  BY DEF QueueFrame
<1>3. \A s \in Slots : s = rear => Content(s)' = Received
  BY <1>1, <1>2 DEF Content, Received
<1>4. \A s \in Slots \ {rear} : Content(s)' = Content(s)
  BY <1>1, <1>2 DEF Content
<1>5. (front + size) % Capacity = rear
  BY DEF Ends
<1>6. CASE size = Capacity /\ size' = size /\ front' = After(front)
  BY <1>3, <1>4, <1>5, <1>6, FramesReplace
<1>7. CASE size < Capacity /\ size' = size + 1 /\ front' = front
  BY <1>3, <1>4, <1>5, <1>7, FramesAppend
<1>8. QED
  BY <1>6, <1>7, FrameCounts

LEMMA TakeFrames ==
    ASSUME Take, Progress, FrameQueueAssumption, TypeOK, TypeOK'
    PROVE  Frames # <<>> /\ Frames' = Tail(Frames) /\ Fetching' = Head(Frames)
<1>1. /\ low = "take" /\ low' = "fetch" /\ UNCHANGED <<buf, m_len>>
      /\ front' = After(front) /\ size' = size - 1 /\ slot' = front /\ len' = m_len[front]
  BY DEF Take
<1>2. \A s \in Slots : Content(s)' = Content(s)
  BY <1>1 DEF Content
<1>3. size > 0
  BY <1>1 DEF Progress
<1>4. Frames # <<>> /\ Frames' = Tail(Frames) /\ Head(Frames) = Content(front)
  BY <1>1, <1>2, <1>3, FramesTail
<1>5. Fetching' = Content(front)
  BY <1>1 DEF Fetching, Content
<1>6. QED
  BY <1>4, <1>5

\* The other steps leave the queue alone.
Elsewhere == (Byte /\ (Store \/ Drop)) \/ PendSV \/ Get \/ Fetch \/ Fetched \/ RxEnter

LEMMA ElsewhereFrames ==
    ASSUME Elsewhere, FrameQueueAssumption, TypeOK, TypeOK'
    PROVE  Frames' = Frames
<1>1. UNCHANGED <<front, size, buf, m_len>>
  BY DEF Elsewhere, Store, Drop, PendSV, Get, Fetch, Fetched, RxEnter, queue
<1>2. \A s \in Slots : Content(s)' = Content(s)
  BY <1>1 DEF Content
<1>3. QED
  BY <1>1, <1>2, FramesKept

--------------------------------------------------------------------------------
(* Runs of bytes, and sequences of them in order.                          *)

LEMMA SortedAppend ==
    ASSUME NEW q \in Seq(Seq(Nat)), NEW f \in Seq(Nat), NEW lo \in Nat, NEW hi \in Nat,
           Sorted(q, lo, hi), Run(f, lo, hi), AllBefore(q, f)
    PROVE  Sorted(Append(q, f), lo, hi)
<1> DEFINE z == Append(q, f)
<1>1. /\ z \in Seq(Seq(Nat)) /\ Len(z) = Len(q) + 1 /\ Len(q) \in Nat
      /\ \A i \in 1 .. Len(q) : z[i] = q[i]
      /\ z[Len(q) + 1] = f
  OBVIOUS
<1> HIDE DEF z
<1>2. \A i \in 1 .. Len(z) : Run(z[i], lo, hi)
  <2>1. TAKE i \in 1 .. Len(z)
  <2>2. i = Len(q) + 1 \/ i \in 1 .. Len(q)
    BY <1>1
  <2>3. QED
    BY <1>1, <2>2 DEF Sorted
<1>3. \A i, j \in 1 .. Len(z) : i < j => Before(z[i], z[j])
  <2>1. SUFFICES ASSUME NEW i \in 1 .. Len(z), NEW j \in 1 .. Len(z), i < j
                 PROVE  Before(z[i], z[j])
    OBVIOUS
  <2>2. i \in 1 .. Len(q) /\ (j = Len(q) + 1 \/ j \in 1 .. Len(q))
    <3>1. PICK l \in Nat : l = Len(q) /\ i \in 1 .. l + 1 /\ j \in 1 .. l + 1
      BY <1>1
    <3>2. i \in 1 .. l /\ (j = l + 1 \/ j \in 1 .. l)
      <4>1. j = l + 1 \/ j \in 1 .. l
        BY <3>1
      <4>2. i # l + 1
        BY <2>1, <3>1
      <4>3. i \in 1 .. l
        BY <3>1, <4>2
      <4>4. QED
        BY <4>1, <4>3
    <3>3. QED
      BY <3>1, <3>2
  <2>3. CASE j = Len(q) + 1
    BY <1>1, <2>2, <2>3 DEF AllBefore
  <2>4. CASE j \in 1 .. Len(q)
    BY <1>1, <2>1, <2>2, <2>4 DEF Sorted
  <2>5. QED
    BY <2>2, <2>3, <2>4
<1>4. QED
  BY <1>2, <1>3 DEF Sorted, z

LEMMA SortedTail ==
    ASSUME NEW q \in Seq(Seq(Nat)), q # <<>>, NEW lo, NEW hi, Sorted(q, lo, hi)
    PROVE  /\ Sorted(Tail(q), lo, hi) /\ Run(Head(q), lo, hi)
           /\ Tail(q) \in Seq(Seq(Nat)) /\ Head(q) \in Seq(Nat) /\ Len(Tail(q)) = Len(q) - 1
           /\ \A i \in 1 .. Len(q) - 1 : Before(Head(q), Tail(q)[i])
           /\ \A g : AllBefore(q, g) => AllBefore(Tail(q), g) /\ Before(Head(q), g)
<1> DEFINE t == Tail(q)
           h == Head(q)
<1>1. /\ t \in Seq(Seq(Nat)) /\ Len(t) = Len(q) - 1 /\ Len(q) \in Nat \ {0}
      /\ \A i \in 1 .. Len(q) - 1 : t[i] = q[i + 1]
      /\ h = q[1] /\ h \in Seq(Nat)
  BY HeadTailProperties, EmptySeq
<1> HIDE DEF t, h
<1>2. \A i \in 1 .. Len(t) : Run(t[i], lo, hi)
  <2>1. TAKE i \in 1 .. Len(t)
  <2>2. i + 1 \in 1 .. Len(q) /\ t[i] = q[i + 1]
    BY <1>1
  <2>3. QED
    BY <2>2 DEF Sorted
<1>3. \A i, j \in 1 .. Len(t) : i < j => Before(t[i], t[j])
  <2>1. SUFFICES ASSUME NEW i \in 1 .. Len(t), NEW j \in 1 .. Len(t), i < j
                 PROVE  Before(t[i], t[j])
    OBVIOUS
  <2>2. i + 1 \in 1 .. Len(q) /\ j + 1 \in 1 .. Len(q) /\ i + 1 < j + 1
        /\ t[i] = q[i + 1] /\ t[j] = q[j + 1]
    BY <1>1, <2>1
  <2>3. QED
    BY <2>2 DEF Sorted
<1>4. Run(h, lo, hi)
  BY <1>1 DEF Sorted
<1>5. \A i \in 1 .. Len(q) - 1 : Before(h, t[i])
  <2>1. TAKE i \in 1 .. Len(q) - 1
  <2>2. 1 \in 1 .. Len(q) /\ i + 1 \in 1 .. Len(q) /\ 1 < i + 1 /\ t[i] = q[i + 1]
    BY <1>1
  <2>3. QED
    BY <1>1, <2>2 DEF Sorted
<1>6. ASSUME NEW g, AllBefore(q, g) PROVE AllBefore(t, g) /\ Before(h, g)
  <2>1. \A i \in 1 .. Len(t) : Before(t[i], g)
    <3>1. TAKE i \in 1 .. Len(t)
    <3>2. i + 1 \in 1 .. Len(q) /\ t[i] = q[i + 1]
      BY <1>1
    <3>3. QED
      BY <1>6, <3>2 DEF AllBefore
  <2>2. QED
    BY <1>1, <1>6, <2>1 DEF AllBefore
<1>7. QED
  BY <1>1, <1>2, <1>3, <1>4, <1>5, <1>6 DEF Sorted, t, h

\* A later end.
LEMMA RunWider ==
    ASSUME NEW f \in Seq(Nat), NEW lo \in Nat, NEW hi \in Nat, NEW top \in Nat, hi <= top,
           Run(f, lo, hi)
    PROVE  Run(f, lo, top)
<1>1. \A i \in 1 .. Len(f) : f[i] \in Nat
  OBVIOUS
<1>2. QED
  BY <1>1 DEF Run

LEMMA SortedWider ==
    ASSUME NEW q \in Seq(Seq(Nat)), NEW lo \in Nat, NEW hi \in Nat, NEW top \in Nat, hi <= top,
           Sorted(q, lo, hi)
    PROVE  Sorted(q, lo, top)
<1>1. \A i \in 1 .. Len(q) : q[i] \in Seq(Nat)
  OBVIOUS
<1>2. \A i \in 1 .. Len(q) : Run(q[i], lo, top)
  BY <1>1, RunWider DEF Sorted
<1>3. QED
  BY <1>2 DEF Sorted

\* Begun after everything a frame holds.
LEMMA SortedLater ==
    ASSUME NEW q \in Seq(Seq(Nat)), NEW f \in Seq(Nat), NEW lo, NEW hi,
           Sorted(q, lo, hi), Len(f) > 0, \A i \in 1 .. Len(q) : Before(f, q[i])
    PROVE  Sorted(q, f[Len(f)], hi)
<1>1. Len(f) \in 1 .. Len(f)
  OBVIOUS
<1>2. \A i \in 1 .. Len(q) : Run(q[i], f[Len(f)], hi)
  <2>1. TAKE i \in 1 .. Len(q)
  <2>2. Before(f, q[i]) /\ Run(q[i], lo, hi)
    BY DEF Sorted
  <2>3. QED
    BY <1>1, <2>2 DEF Before, Run
<1>3. QED
  BY <1>2 DEF Sorted

--------------------------------------------------------------------------------
(* The bytes are in the order of the line.                                 *)

\* Where nothing is taken, put or received, the order stays.
LEMMA OrderKept ==
    ASSUME InOrder, Frames' = Frames, UNCHANGED <<m_rx_buf, m_rx_index, buf, slot, n, last>>,
           m_rx_status' = "RECV" => m_rx_status = "RECV",
           low' = "fetch" => low = "fetch" /\ UNCHANGED <<size, len>>
    PROVE  InOrder'
<1>1. Received' = Received
  BY DEF Received
<1>2. low' = "fetch" => Fetching' = Fetching
  BY DEF Fetching
<1>3. Sorted(Frames', last', n') /\ Run(Received', last', n') /\ last' <= n'
  BY <1>1 DEF InOrder
<1>4. AllBefore(Frames', Received')
  BY <1>1 DEF InOrder
<1>5. m_rx_status' = "RECV" /\ m_rx_index' > 0 => m_rx_buf'[m_rx_index'] = n'
  BY DEF InOrder
<1>6. low' = "fetch" => /\ Run(Fetching', last', n') /\ Before(Fetching', Received')
                        /\ \A i \in 1 .. size' : Before(Fetching', Frames'[i])
  BY <1>1, <1>2 DEF InOrder
<1>7. QED
  BY <1>3, <1>4, <1>5, <1>6 DEF InOrder

\* The receive buffer is emptied.
LEMMA OrderEmptied ==
    ASSUME InOrder, FrameQueueAssumption, TypeOK, TypeOK',
           Frames' = Frames, m_rx_index' = 0, low' # "fetch", UNCHANGED <<n, last>>
    PROVE  InOrder'
<1>1. Laid'
  BY LaidOut, PTL
<1>2. Len(Received') = 0
  BY <1>1 DEF Laid
<1>3. Sorted(Frames', last', n') /\ Run(Received', last', n') /\ last' <= n'
  BY <1>2 DEF InOrder, Run
<1>4. AllBefore(Frames', Received')
  BY <1>2 DEF AllBefore, Before
<1>5. ~(m_rx_index' > 0)
  OBVIOUS
<1>6. QED
  BY <1>3, <1>4, <1>5 DEF InOrder

\* A byte is stored.
LEMMA OrderStore ==
    ASSUME InOrder, FrameQueueAssumption, TypeOK, TypeOK', Byte, Store, m_rx_status = "RECV"
    PROVE  InOrder'
<1>1. Laid /\ Laid'
  BY LaidOut, PTL
<1>2. Frames' = Frames
  BY ElsewhereFrames DEF Elsewhere
<1>3. /\ UNCHANGED <<low, slot, len, last, size, buf>> /\ n' = n + 1 /\ m_rx_index < RxSize
      /\ m_rx_buf' = [m_rx_buf EXCEPT ![m_rx_index + 1] = n'] /\ m_rx_index' = m_rx_index + 1
  BY DEF Byte, Store, queue, copy
<1>4. /\ n \in Nat /\ n' \in Nat /\ last \in Nat /\ m_rx_index \in Nat /\ size \in Nat
      /\ m_rx_buf \in [1 .. RxSize -> Bytes] /\ RxSize \in Nat /\ len \in Nat
  <2>1. n \in Nat /\ last \in Nat
    BY DEF TypeOK, Bytes, FrameQueueAssumption
  <2>2. /\ m_rx_index \in Nat /\ size \in Nat
        /\ m_rx_buf \in [1 .. RxSize -> Bytes] /\ RxSize \in Nat /\ len \in Nat
    BY DEF TypeOK, FrameQueueAssumption
  <2>3. QED
    BY <1>3, <2>1, <2>2
<1>5. /\ Received \in Seq(Nat) /\ Len(Received) = m_rx_index
      /\ Received' \in Seq(Nat) /\ Len(Received') = m_rx_index + 1
      /\ \A i \in 1 .. m_rx_index : Received[i] = m_rx_buf[i]
      /\ \A i \in 1 .. m_rx_index + 1 : Received'[i] = m_rx_buf'[i]
  BY <1>1, <1>3 DEF Laid
<1>6. /\ \A i \in 1 .. m_rx_index : Received'[i] = Received[i]
      /\ Received'[m_rx_index + 1] = n + 1
  <2>1. \A i \in 1 .. m_rx_index : i \in 1 .. m_rx_index + 1 /\ m_rx_buf'[i] = m_rx_buf[i]
    BY <1>3, <1>4
  <2>2. m_rx_index + 1 \in 1 .. m_rx_index + 1 /\ m_rx_buf'[m_rx_index + 1] = n + 1
    BY <1>3, <1>4
  <2>3. QED
    BY <1>5, <2>1, <2>2
<1>7. /\ Sorted(Frames, last, n) /\ Run(Received, last, n) /\ last <= n
      /\ Frames \in Seq(Seq(Nat)) /\ Len(Frames) = size
      /\ m_rx_index > 0 => m_rx_buf[m_rx_index] = n
  BY <1>1 DEF InOrder, Laid
<1>8. Run(Received', last, n + 1)
  <2>1. CASE m_rx_index = 0
    BY <1>4, <1>5, <1>6, <1>7, <2>1 DEF Run
  <2>2. CASE m_rx_index > 0
    <3>1. m_rx_index \in 1 .. m_rx_index /\ 1 \in 1 .. m_rx_index
      BY <1>4, <2>2
    <3>2. n = Received[1] + m_rx_index - 1 /\ Received[1] \in Nat /\ Received'[1] = Received[1]
      BY <1>4, <1>5, <1>6, <1>7, <2>2, <3>1 DEF Run
    <3>3. \A i \in 1 .. m_rx_index + 1 :
            Received'[i] = Received'[1] + i - 1 /\ last < Received'[i] /\ Received'[i] <= n + 1
      <4>1. TAKE i \in 1 .. m_rx_index + 1
      <4>2. CASE i = m_rx_index + 1
        BY <1>4, <1>6, <1>7, <3>2, <4>2
      <4>3. CASE i \in 1 .. m_rx_index
        <5>1. Received[i] = Received[1] + i - 1 /\ last < Received[i] /\ Received[i] <= n
          BY <1>5, <1>7, <4>3 DEF Run
        <5>2. QED
          BY <1>4, <1>6, <3>2, <4>3, <5>1
      <4>4. QED
        BY <1>4, <4>2, <4>3
    <3>4. QED
      BY <1>5, <3>3 DEF Run
  <2>3. QED
    BY <1>4, <2>1, <2>2
\* All that came before is earlier than the byte.
<1>9. ASSUME NEW f \in Seq(Nat), Run(f, last, n), Before(f, Received) PROVE Before(f, Received')
  <2>1. SUFFICES ASSUME NEW i \in 1 .. Len(f), NEW j \in 1 .. m_rx_index + 1
                 PROVE  f[i] < Received'[j]
    BY <1>5 DEF Before
  <2>2. f[i] \in Nat /\ f[i] <= n
    BY <1>9 DEF Run
  <2>3. CASE j = m_rx_index + 1
    BY <1>4, <1>6, <2>2, <2>3
  <2>4. CASE j \in 1 .. m_rx_index
    BY <1>5, <1>6, <1>9, <2>4 DEF Before
  <2>5. QED
    BY <1>4, <2>3, <2>4
<1>10. AllBefore(Frames', Received')
  <2>1. \A i \in 1 .. Len(Frames) : Before(Frames[i], Received')
    <3>1. TAKE i \in 1 .. Len(Frames)
    <3>2. Frames[i] \in Seq(Nat) /\ Run(Frames[i], last, n) /\ Before(Frames[i], Received)
      BY <1>7 DEF InOrder, AllBefore, Sorted
    <3>3. QED
      BY <1>9, <3>2
  <2>2. QED
    BY <1>2, <2>1 DEF AllBefore
<1>11. Sorted(Frames', last', n') /\ Run(Received', last', n') /\ last' <= n'
  BY <1>2, <1>3, <1>4, <1>7, <1>8, SortedWider
<1>12. m_rx_buf'[m_rx_index'] = n'
  BY <1>3, <1>4
<1>13. low = "fetch" => /\ Run(Fetching', last', n') /\ Before(Fetching', Received')
                        /\ \A i \in 1 .. size' : Before(Fetching', Frames'[i])
  <2>1. SUFFICES ASSUME low = "fetch"
                 PROVE  /\ Run(Fetching', last', n') /\ Before(Fetching', Received')
                        /\ \A i \in 1 .. size' : Before(Fetching', Frames'[i])
    OBVIOUS
  <2>2. Fetching' = Fetching /\ Fetching \in Seq(Nat)
    BY <1>1, <1>3 DEF Fetching, Laid
  <2>3. /\ Run(Fetching, last, n) /\ Before(Fetching, Received)
        /\ \A i \in 1 .. size : Before(Fetching, Frames[i])
    BY <2>1 DEF InOrder
  <2>4. Run(Fetching, last, n') /\ Before(Fetching, Received')
    BY <1>3, <1>4, <1>9, <2>2, <2>3, RunWider
  <2>5. QED
    BY <1>2, <1>3, <2>2, <2>3, <2>4
<1>14. QED
  BY <1>3, <1>10, <1>11, <1>12, <1>13 DEF InOrder

\* A frame is queued behind the others, or in place of the oldest.
LEMMA OrderQueued ==
    ASSUME InOrder, FrameQueueAssumption, TypeOK, TypeOK', Ends, QueueFrame
    PROVE  /\ Sorted(Frames', last, n)
           /\ size < Capacity => Frames' = Append(Frames, Received)
<1>1. Laid
  BY LaidOut
<1>2. n \in Nat /\ last \in Nat /\ size \in Nat /\ Capacity \in Nat
  BY DEF TypeOK, Bytes, FrameQueueAssumption
<1>3. /\ Received \in Seq(Nat) /\ Frames \in Seq(Seq(Nat))
      /\ Sorted(Frames, last, n) /\ Run(Received, last, n) /\ AllBefore(Frames, Received)
  BY <1>1 DEF InOrder, Laid
<1>4. CASE size < Capacity /\ Frames' = Append(Frames, Received)
  BY <1>2, <1>3, <1>4, SortedAppend
<1>5. CASE size = Capacity /\ Frames # <<>> /\ Frames' = Append(Tail(Frames), Received)
  <2>1. /\ Sorted(Tail(Frames), last, n) /\ Tail(Frames) \in Seq(Seq(Nat))
        /\ AllBefore(Tail(Frames), Received)
    BY <1>3, <1>5, SortedTail
  <2>2. ~(size < Capacity)
    BY <1>2, <1>5
  <2>3. QED
    BY <1>2, <1>3, <1>5, <2>1, <2>2, SortedAppend
<1>6. QED
  BY <1>4, <1>5, QueueFrames

\* The byte timer is out: what was received is queued.
LEMMA OrderSilence ==
    ASSUME InOrder, FrameQueueAssumption, TypeOK, TypeOK', Ends, Silence
    PROVE  InOrder'
<1>1. Laid'
  BY LaidOut, PTL
<1>2. QueueFrame /\ m_rx_index' = 0 /\ low' = "none" /\ UNCHANGED <<n, last>>
  BY DEF Silence, Done
<1>3. Len(Received') = 0 /\ ~(m_rx_index' > 0)
  BY <1>1, <1>2 DEF Laid
<1>4. Sorted(Frames', last', n') /\ last' <= n'
  BY <1>2, OrderQueued DEF InOrder
<1>5. Run(Received', last', n') /\ AllBefore(Frames', Received')
  BY <1>3 DEF Run, AllBefore, Before
<1>6. low' # "fetch"
  BY <1>2
<1>7. QED
  BY <1>3, <1>4, <1>5, <1>6 DEF InOrder

\* The receive buffer overflows into the queue, and begins again with the byte.
LEMMA OrderOverflow ==
    ASSUME InOrder, FrameQueueAssumption, TypeOK, TypeOK',
           RoomToOverflow, Ends, Copying, Byte, Overflow, m_rx_status = "RECV"
    PROVE  InOrder'
<1>1. Laid /\ Laid'
  BY LaidOut, PTL
<1>2. /\ UNCHANGED <<low, slot, len, last>> /\ n' = n + 1 /\ QueueFrame
      /\ m_rx_buf' = [m_rx_buf EXCEPT ![1] = n'] /\ m_rx_index' = 1 /\ m_rx_status' = "DONE"
  BY DEF Byte, Overflow, Done, copy
<1>3. n \in Nat /\ last \in Nat
  BY DEF TypeOK, Bytes, FrameQueueAssumption
<1>4. /\ size \in Nat /\ m_rx_buf \in [1 .. RxSize -> Bytes] /\ RxSize \in Nat \ {0} /\ len \in Nat
  BY DEF TypeOK, FrameQueueAssumption
<1>5. /\ Received \in Seq(Nat) /\ Frames \in Seq(Seq(Nat)) /\ Len(Frames) = size
      /\ Sorted(Frames, last, n) /\ Run(Received, last, n) /\ last <= n
      /\ AllBefore(Frames, Received)
  BY <1>1, <1>2 DEF InOrder, Laid
<1>6. Received' \in Seq(Nat) /\ Len(Received') = 1 /\ Received'[1] = n + 1
  <2>1. 1 \in 1 .. 1 /\ 1 \in 1 .. RxSize
    BY <1>4
  <2>2. m_rx_buf'[1] = n + 1
    BY <1>2, <1>4, <2>1
  <2>3. QED
    BY <1>1, <1>2, <2>1, <2>2 DEF Laid
<1>7. Run(Received', last, n + 1)
  BY <1>3, <1>5, <1>6 DEF Run
<1>8. /\ Sorted(Frames', last, n)
      /\ size < Capacity => Frames' = Append(Frames, Received)
  BY <1>2, OrderQueued
<1>9. Frames' \in Seq(Seq(Nat)) /\ Len(Frames') = size'
  BY <1>1 DEF Laid
<1>10. \A f \in Seq(Nat) : Run(f, last, n) => Before(f, Received')
  <2>1. TAKE f \in Seq(Nat)
  <2>2. \A i \in 1 .. Len(f) : f[i] \in Nat
    OBVIOUS
  <2>3. QED
    BY <1>3, <1>6, <2>2 DEF Run, Before
<1>11. AllBefore(Frames', Received')
  <2>1. \A i \in 1 .. Len(Frames') : Before(Frames'[i], Received')
    <3>1. TAKE i \in 1 .. Len(Frames')
    <3>2. Frames'[i] \in Seq(Nat) /\ Run(Frames'[i], last, n)
      BY <1>8, <1>9 DEF Sorted
    <3>3. QED
      BY <1>10, <3>2
  <2>2. QED
    BY <2>1 DEF AllBefore
<1>12. Sorted(Frames', last', n') /\ Run(Received', last', n') /\ last' <= n'
  <2>1. n' \in Nat /\ n <= n' /\ last <= n'
    BY <1>2, <1>3, <1>5
  <2>2. QED
    BY <1>2, <1>3, <1>7, <1>8, <1>9, <2>1, SortedWider
<1>13. low = "fetch" => /\ Run(Fetching', last', n') /\ Before(Fetching', Received')
                        /\ \A i \in 1 .. size' : Before(Fetching', Frames'[i])
  <2>1. SUFFICES ASSUME low = "fetch"
                 PROVE  /\ Run(Fetching', last', n') /\ Before(Fetching', Received')
                        /\ \A i \in 1 .. size' : Before(Fetching', Frames'[i])
    OBVIOUS
  <2>2. buf'[slot] = buf[slot]
    BY <2>1, OverflowElsewhere
  <2>3. Fetching' = Fetching /\ Fetching \in Seq(Nat)
    BY <1>1, <1>2, <2>2 DEF Fetching, Laid
  <2>4. /\ Run(Fetching, last, n) /\ Before(Fetching, Received)
        /\ \A i \in 1 .. size : Before(Fetching, Frames[i])
    BY <2>1 DEF InOrder
  <2>5. Run(Fetching, last, n') /\ Before(Fetching, Received')
    <3>1. n' \in Nat /\ n <= n'
      BY <1>2, <1>3
    <3>2. QED
      BY <1>3, <1>10, <2>3, <2>4, <3>1, RunWider
  <2>6. size < Capacity
    BY <1>4, <2>1 DEF RoomToOverflow
  <2>7. \A i \in 1 .. size' : Before(Fetching, Frames'[i])
    <3>1. Frames' = Append(Frames, Received)
      BY <1>8, <2>6
    <3>2. Len(Frames') = size + 1 /\ (\A i \in 1 .. size : Frames'[i] = Frames[i])
          /\ Frames'[size + 1] = Received
      BY <1>4, <1>5, <3>1
    <3>3. TAKE i \in 1 .. size'
    <3>4. i \in 1 .. size \/ i = size + 1
      BY <1>4, <1>9, <3>2
    <3>5. QED
      BY <2>4, <3>2, <3>4
  <2>8. QED
    BY <1>2, <2>3, <2>5, <2>7
<1>14. QED
  BY <1>2, <1>11, <1>12, <1>13 DEF InOrder

\* or taken to be fetched.
LEMMA OrderTake ==
    ASSUME InOrder, FrameQueueAssumption, TypeOK, TypeOK', Progress, Take
    PROVE  InOrder'
<1>1. Laid /\ Laid'
  BY LaidOut, PTL
<1>2. /\ UNCHANGED <<m_rx_buf, m_rx_index, m_rx_status, n, last>>
      /\ low = "take" /\ low' = "fetch" /\ size' = size - 1
  BY DEF Take, rx
<1>3. /\ Frames \in Seq(Seq(Nat)) /\ Len(Frames) = size
      /\ Sorted(Frames, last, n) /\ Run(Received, last, n)
      /\ last <= n /\ AllBefore(Frames, Received)
      /\ m_rx_status = "RECV" /\ m_rx_index > 0 => m_rx_buf[m_rx_index] = n
  BY <1>1, <1>2 DEF InOrder, Laid
<1>4. Frames # <<>> /\ Frames' = Tail(Frames) /\ Fetching' = Head(Frames)
  BY TakeFrames
<1>5. /\ Sorted(Tail(Frames), last, n) /\ Run(Head(Frames), last, n)
      /\ \A i \in 1 .. size - 1 : Before(Head(Frames), Tail(Frames)[i])
      /\ AllBefore(Tail(Frames), Received) /\ Before(Head(Frames), Received)
  BY <1>3, <1>4, SortedTail
<1>6. Received' = Received
  BY <1>2 DEF Received
<1>7. QED
  BY <1>2, <1>3, <1>4, <1>5, <1>6 DEF InOrder

\* When it has been fetched, it is the last that was.
LEMMA OrderFetched ==
    ASSUME InOrder, FrameQueueAssumption, TypeOK, TypeOK', Copying, Fetched
    PROVE  InOrder'
<1>1. Laid
  BY LaidOut
<1>2. /\ UNCHANGED <<m_rx_buf, m_rx_index, m_rx_status, n>>
      /\ low = "fetch" /\ low' = "open" /\ k = len
      /\ last' = IF len > 0 THEN out[len] ELSE last
  BY DEF Fetched, rx
<1>3. Frames' = Frames
  BY ElsewhereFrames DEF Elsewhere
<1>4. Received' = Received
  BY <1>2 DEF Received
<1>5. /\ Frames \in Seq(Seq(Nat)) /\ Len(Frames) = size
      /\ Fetching \in Seq(Nat) /\ Len(Fetching) = len /\ len \in Nat
      /\ \A i \in 1 .. len : Fetching[i] = buf[slot][i]
      /\ Sorted(Frames, last, n) /\ Run(Received, last, n)
      /\ last <= n /\ AllBefore(Frames, Received)
      /\ m_rx_status = "RECV" /\ m_rx_index > 0 => m_rx_buf[m_rx_index] = n
      /\ Run(Fetching, last, n) /\ Before(Fetching, Received)
      /\ \A i \in 1 .. size : Before(Fetching, Frames[i])
  BY <1>1, <1>2 DEF InOrder, Laid
<1>6. Sorted(Frames, last', n) /\ Run(Received, last', n) /\ last' <= n
  <2>1. CASE len > 0
    <3>1. len \in 1 .. len
      BY <1>5, <2>1
    <3>2. last' = Fetching[Len(Fetching)] /\ last' = Fetching[len]
      BY <1>2, <1>5, <2>1, <3>1 DEF Copying
    <3>3. Sorted(Frames, last', n)
      BY <1>5, <2>1, <3>2, SortedLater
    <3>4. Run(Received, last', n)
      BY <1>5, <3>1, <3>2 DEF Run, Before
    <3>5. last' <= n
      BY <1>5, <3>1, <3>2 DEF Run
    <3>6. QED
      BY <3>3, <3>4, <3>5
  <2>2. CASE ~(len > 0)
    BY <1>2, <1>5, <2>2
  <2>3. QED
    BY <2>1, <2>2
<1>7. QED
  BY <1>2, <1>3, <1>4, <1>5, <1>6 DEF InOrder

LEMMA OrderStep ==
    ASSUME FrameQueueAssumption, TypeOK, TypeOK', RoomToOverflow,
           Ends, Progress, Copying, InOrder, Next
    PROVE  InOrder'
<1>1. CASE Byte /\ Drop
  <2>1. Frames' = Frames
    BY <1>1, ElsewhereFrames DEF Elsewhere
  <2>2. CASE n' = n + 1
    <3>1. /\ UNCHANGED <<m_rx_buf, m_rx_index, m_rx_status, buf, slot, last, low, size, len>>
          /\ m_rx_status # "RECV"
      BY <1>1 DEF Byte, Drop, rx, queue, copy
    <3>2. Laid
      BY LaidOut
    <3>3. n \in Nat /\ n' \in Nat /\ n <= n' /\ last \in Nat
      <4>1. n \in Nat /\ last \in Nat
        BY DEF TypeOK, Bytes, FrameQueueAssumption
      <4>2. QED
        BY <2>2, <4>1
    <3>4. /\ Frames \in Seq(Seq(Nat)) /\ Received \in Seq(Nat) /\ Fetching \in Seq(Nat)
          /\ Sorted(Frames, last, n) /\ Run(Received, last, n) /\ last <= n
      BY <3>2 DEF InOrder, Laid
    <3>5. Received' = Received /\ Fetching' = Fetching
      BY <3>1 DEF Received, Fetching
    <3>6. Sorted(Frames, last, n') /\ Run(Received, last, n') /\ last <= n'
      BY <3>3, <3>4, SortedWider, RunWider
    <3>7. low = "fetch" => Run(Fetching, last, n')
      BY <3>3, <3>4, RunWider DEF InOrder
    <3>8. QED
      BY <2>1, <3>1, <3>5, <3>6, <3>7 DEF InOrder
  <2>3. QED
    BY <1>1, <2>2 DEF Byte
<1>2. CASE Byte /\ m_rx_status = "RECV" /\ Store
  BY <1>2, OrderStore
<1>3. CASE Byte /\ m_rx_status = "RECV" /\ Overflow
  BY <1>3, OrderOverflow
<1>4. CASE Silence
  BY <1>4, OrderSilence
<1>5. CASE Take
  BY <1>5, OrderTake
<1>6. CASE Fetched
  BY <1>6, OrderFetched
<1>7. CASE RxEnter
  <2>1. Frames' = Frames
    BY <1>7, ElsewhereFrames DEF Elsewhere
  <2>2. m_rx_index' = 0 /\ low' # "fetch" /\ UNCHANGED <<n, last>>
    BY <1>7 DEF RxEnter
  <2>3. QED
    BY <2>1, <2>2, OrderEmptied
<1>8. CASE PendSV \/ Get \/ Fetch
  <2>1. Frames' = Frames
    BY <1>8, ElsewhereFrames DEF Elsewhere
  <2>2. /\ UNCHANGED <<m_rx_buf, m_rx_index, buf, slot, n, last, size>>
        /\ m_rx_status' = "RECV" => m_rx_status = "RECV"
        /\ low' = "fetch" => low = "fetch" /\ UNCHANGED len
    BY <1>8 DEF PendSV, Get, Fetch, rx, queue, copy
  <2>3. QED
    BY <2>1, <2>2, OrderKept
<1>9. QED
  BY <1>1, <1>2, <1>3, <1>4, <1>5, <1>6, <1>7, <1>8 DEF Next, Byte

--------------------------------------------------------------------------------
(* The invariant is inductive.                                             *)

LEMMA InitIInv ==
    ASSUME FrameQueueAssumption, Init
    PROVE  IInv /\ Frames = <<>>
<1>1. Capacity \in Nat \ {0} /\ RxSize \in Nat \ {0} /\ MaxBytes \in Nat
  BY DEF FrameQueueAssumption
<1>2. 0 \in Slots /\ 0 \in Bytes
  BY <1>1 DEF Slots, Bytes
<1>3. m_rx_buf \in [1 .. RxSize -> Bytes]
  BY <1>2 DEF Init
<1>4. TypeOK
  <2>1. buf \in [Slots -> [1 .. RxSize -> Bytes]] /\ m_len \in [Slots -> 0 .. RxSize]
    BY <1>1, <1>3 DEF Init
  <2>2. out \in [1 .. RxSize -> Bytes] /\ m_rx_index \in 0 .. RxSize /\ size \in 0 .. Capacity
        /\ k \in 0 .. RxSize /\ len \in 0 .. RxSize
    <3>1. 0 \in 0 .. RxSize /\ 0 \in 0 .. Capacity
      BY <1>1
    <3>2. m_rx_index = 0 /\ size = 0 /\ k = 0 /\ len = 0 /\ out = m_rx_buf
      BY DEF Init
    <3>3. QED
      BY <1>3, <3>1, <3>2
  <2>3. front \in Slots /\ rear \in Slots /\ slot \in Slots /\ n \in Bytes /\ last \in Bytes
    BY <1>2 DEF Init
  <2>4. /\ m_rx_status \in {"RECV", "DONE"} /\ low \in {"none"}
        /\ timer \in BOOLEAN /\ pended \in BOOLEAN /\ room \in BOOLEAN
    BY DEF Init
  <2>5. QED
    BY <1>3, <2>1, <2>2, <2>3, <2>4 DEF TypeOK
<1>5. RoomToOverflow
  BY <1>1 DEF Init, RoomToOverflow
<1>6. Ends
  <2>1. 0 \in 0 .. Capacity
    BY <1>1
  <2>2. (0 + 0) % Capacity = 0
    BY <1>1, <1>2, <2>1, Place
  <2>3. QED
    BY <2>2 DEF Init, Ends
<1>7. Progress
  <2>1. timer = FALSE /\ m_rx_index = 0 /\ low = "none"
    BY DEF Init
  <2>2. ~(m_rx_index > 0)
    BY <2>1
  <2>3. QED
    BY <2>1, <2>2, Zenon DEF Progress
<1>8. Copying
  BY DEF Init, Copying
<1>9. Laid
  BY <1>4, LaidOut
<1>10. Len(Frames) = 0 /\ Len(Received) = 0 /\ Frames \in Seq(Seq(Nat))
  BY <1>9 DEF Laid, Init
<1>11. InOrder
  <2>1. Sorted(Frames, last, n) /\ Run(Received, last, n) /\ AllBefore(Frames, Received)
    BY <1>10 DEF Sorted, Run, AllBefore
  <2>2. last = 0 /\ n = 0 /\ m_rx_index = 0 /\ low = "none"
    BY DEF Init
  <2>3. QED
    BY <2>1, <2>2 DEF InOrder
<1>12. Frames = <<>>
  BY <1>10, EmptySeq
<1>13. QED
  BY <1>4, <1>5, <1>6, <1>7, <1>8, <1>11, <1>12 DEF IInv

LEMMA NextIInv ==
    ASSUME FrameQueueAssumption, IInv, [Next]_vars
    PROVE  IInv'
<1>1. CASE Next
  <2>1. TypeOK'
    BY <1>1, TypeStep DEF IInv
  <2>2. RoomToOverflow' /\ Ends' /\ Progress' /\ Copying'
    BY <1>1, RoomStep, EndsStep, ProgressStep, CopyingStep DEF IInv
  <2>3. InOrder'
    BY <1>1, <2>1, OrderStep DEF IInv
  <2>4. QED
    BY <2>1, <2>2, <2>3 DEF IInv
<1>2. CASE UNCHANGED vars
  <2>1. UNCHANGED <<m_rx_buf, m_rx_index, m_rx_status, buf, m_len, front, rear, size, timer,
                    pended, low, slot, k, len, out, room, n, last>>
    BY <1>2 DEF vars, rx, queue, copy
  <2>2. TypeOK' /\ RoomToOverflow' /\ Ends' /\ Progress' /\ Copying'
    <3>1. TypeOK'
      BY <2>1 DEF IInv, TypeOK
    <3>2. RoomToOverflow' /\ Ends' /\ Progress'
      BY <2>1 DEF IInv, RoomToOverflow, Ends, Progress
    <3>3. Copying'
      BY <2>1 DEF IInv, Copying
    <3>4. QED
      BY <3>1, <3>2, <3>3
  <2>3. Frames' = Frames
    BY <2>1 DEF Frames, Content
  <2>4. InOrder'
    BY <2>1, <2>3, OrderKept DEF IInv
  <2>5. QED
    BY <2>2, <2>4 DEF IInv
<1>3. QED
  BY <1>1, <1>2

\* The invariant says that what is fetched is whole.
LEMMA IInvWhole ==
    ASSUME FrameQueueAssumption
    PROVE  IInv => TypeOK /\ Whole
<1> SUFFICES ASSUME IInv, low = "fetch", k = len, NEW i \in 1 .. len
             PROVE  out[i] = out[1] + i - 1 /\ out[1] > last
  BY DEF IInv, Whole
<1>1. Laid /\ len \in Nat
  BY LaidOut DEF IInv, TypeOK, FrameQueueAssumption
<1>2. 1 \in 1 .. len /\ out[1] = Fetching[1] /\ out[i] = Fetching[i] /\ Fetching[1] \in Nat
  <2>1. 1 \in 1 .. len
    BY <1>1
  <2>2. \A j \in 1 .. len : out[j] = buf[slot][j]
    BY DEF IInv, Copying
  <2>3. \A j \in 1 .. len : Fetching[j] = buf[slot][j] /\ buf[slot][j] \in Nat
    BY <1>1 DEF Laid
  <2>4. QED
    BY <2>1, <2>2, <2>3
<1>3. Run(Fetching, last, n) /\ Len(Fetching) = len
  BY <1>1 DEF Laid, IInv, InOrder
<1>4. last \in Nat
  BY DEF IInv, TypeOK, Bytes, FrameQueueAssumption
<1>5. QED
  BY <1>2, <1>3, <1>4 DEF Run

(* TypeOK: the types, and with them the bounds of the queue's counters and *)
(* of the indices into its buffers.                                        *)
THEOREM TypeCorrect ==
    ASSUME FrameQueueAssumption
    PROVE  Spec => []TypeOK
<1>1. Init => IInv
  BY InitIInv
<1>2. IInv /\ [Next]_vars => IInv'
  BY NextIInv
<1>3. IInv => TypeOK
  BY DEF IInv
<1>4. QED
  BY <1>1, <1>2, <1>3, PTL DEF Spec

(* Whole: a frame that PendSV has fetched has every byte of the line from  *)
(* its first to its last, and only bytes later than the frame before.      *)
THEOREM FramesWhole ==
    ASSUME FrameQueueAssumption
    PROVE  Spec => []Whole
<1>1. Init => IInv
  BY InitIInv
<1>2. IInv /\ [Next]_vars => IInv'
  BY NextIInv
<1>3. IInv => Whole
  BY IInvWhole
<1>4. QED
  BY <1>1, <1>2, <1>3, PTL DEF Spec

--------------------------------------------------------------------------------
(* The queue is a bounded queue of frames.                                 *)

\* What any step does to the frames.
Changed ==
    \/ Frames' = Frames
    \/ Frames # <<>> /\ Frames' = Tail(Frames)
    \/ \E f \in Seq(Nat) :
          /\ Len(f) <= RxSize /\ n' > 0
          /\ \/ size < Capacity /\ Frames' = Append(Frames, f)
             \/ /\ size = Capacity /\ Frames # <<>> /\ Frames' = Append(Tail(Frames), f)
                /\ AllBefore(Frames, f)

LEMMA NextChanges ==
    ASSUME FrameQueueAssumption, IInv, IInv', Next
    PROVE  Changed
<1>1. TypeOK /\ TypeOK' /\ Ends /\ Progress /\ Progress'
  BY DEF IInv
\* A frame is queued: there was a byte.
<1>2. ASSUME QueueFrame, n' > 0 PROVE Changed
  <2>1. Laid /\ m_rx_index \in 0 .. RxSize /\ RxSize \in Nat
    BY <1>1, LaidOut DEF TypeOK, FrameQueueAssumption
  <2>2. Received \in Seq(Nat) /\ Len(Received) <= RxSize
    BY <2>1 DEF Laid
  <2>3. \/ size < Capacity /\ Frames' = Append(Frames, Received)
        \/ size = Capacity /\ Frames # <<>> /\ Frames' = Append(Tail(Frames), Received)
    BY <1>1, <1>2, QueueFrames
  <2>4. AllBefore(Frames, Received)
    BY DEF IInv, InOrder
  <2>5. QED
    BY <1>2, <2>2, <2>3, <2>4 DEF Changed
<1>3. CASE Byte /\ Overflow
  <2>1. QueueFrame /\ m_rx_index' > 0
    BY <1>3 DEF Overflow, Done
  <2>2. n' > 0
    BY <1>1, <2>1, Zenon DEF Progress
  <2>3. QED
    BY <1>2, <2>1, <2>2
<1>4. CASE Silence
  <2>1. QueueFrame /\ timer /\ n' = n
    BY <1>4 DEF Silence, Done
  <2>2. n > 0
    BY <1>1, <2>1, Zenon DEF Progress
  <2>3. QED
    BY <1>2, <2>1, <2>2
<1>5. CASE Take
  BY <1>1, <1>5, TakeFrames DEF Changed
<1>6. CASE Elsewhere
  BY <1>1, <1>6, ElsewhereFrames DEF Changed
<1>7. QED
  BY <1>3, <1>4, <1>5, <1>6 DEF Next, Byte, Elsewhere

\* A run of bytes that is not too long is one of the abstract queue's frames.
LEMMA InRuns ==
    ASSUME FrameQueueAssumption, NEW f \in Seq(Nat), Len(f) <= RxSize,
           NEW lo \in Nat, NEW hi \in Bytes, hi > 0, Run(f, lo, hi)
    PROVE  f \in Fifo!Runs
<1>1. MaxBytes \in Nat /\ hi \in 1 .. MaxBytes /\ Len(f) \in 0 .. RxSize /\ Len(f) \in Nat
      /\ f \in [1 .. Len(f) -> Nat]
  BY DEF FrameQueueAssumption, Bytes
<1>2. PICK a \in 1 .. MaxBytes : \A i \in 1 .. Len(f) : f[i] = a + i - 1
  <2>1. CASE Len(f) = 0
    BY <1>1, <2>1
  <2>2. CASE Len(f) > 0
    <3>1. 1 \in 1 .. Len(f) /\ f[1] \in Nat
      BY <1>1, <2>2
    <3>2. f[1] \in 1 .. MaxBytes
      BY <1>1, <3>1 DEF Run
    <3>3. \A i \in 1 .. Len(f) : f[i] = f[1] + i - 1
      BY DEF Run
    <3>4. QED
      BY <3>2, <3>3
  <2>3. QED
    BY <1>1, <2>1, <2>2
<1>3. f = [i \in 1 .. Len(f) |-> a + i - 1]
  BY <1>1, <1>2
<1>4. \E b \in 1 .. MaxBytes, l \in 0 .. RxSize : f = [i \in 1 .. l |-> b + i - 1]
  BY <1>1, <1>3
<1>5. QED
  BY <1>4 DEF Fifo!Runs

\* What is put in is later than what it is put behind.
LEMMA AppendedLater ==
    ASSUME NEW q \in Seq(Seq(Nat)), NEW f \in Seq(Nat), NEW lo, NEW hi,
           Sorted(Append(q, f), lo, hi)
    PROVE  /\ Run(f, lo, hi)
           /\ \A i \in DOMAIN f, j \in DOMAIN q : \A m \in DOMAIN q[j] : f[i] > q[j][m]
<1> DEFINE z == Append(q, f)
<1>1. /\ Len(z) = Len(q) + 1 /\ Len(q) \in Nat /\ z[Len(q) + 1] = f
      /\ \A i \in 1 .. Len(q) : z[i] = q[i] /\ q[i] \in Seq(Nat)
      /\ DOMAIN q = 1 .. Len(q) /\ DOMAIN f = 1 .. Len(f)
  OBVIOUS
<1> HIDE DEF z
<1>2. PICK l \in Nat : l = Len(q)
  BY <1>1
<1>3. l + 1 \in 1 .. Len(z) /\ \A j \in 1 .. l : j \in 1 .. Len(z) /\ j < l + 1
  BY <1>1, <1>2
<1>4. Run(f, lo, hi)
  BY <1>1, <1>2, <1>3 DEF Sorted, z
<1>5. ASSUME NEW i \in DOMAIN f, NEW j \in DOMAIN q, NEW m \in DOMAIN q[j] PROVE f[i] > q[j][m]
  <2>1. Before(q[j], f)
    BY <1>1, <1>2, <1>3 DEF Sorted, z
  <2>2. m \in 1 .. Len(q[j]) /\ i \in 1 .. Len(f) /\ q[j][m] \in Nat /\ f[i] \in Nat
    BY <1>1
  <2>3. q[j][m] < f[i]
    BY <2>1, <2>2 DEF Before
  <2>4. QED
    BY <2>2, <2>3
<1>6. QED
  BY <1>4, <1>5

LEMMA NextIsFifo ==
    ASSUME FrameQueueAssumption, IInv, IInv', [Next]_vars
    PROVE  [Fifo!Next]_Frames
<1>1. CASE UNCHANGED vars
  BY <1>1 DEF vars, rx, queue, copy, Frames, Content
<1>2. CASE Next
  <2>1. Laid /\ Laid'
    BY LaidOut, PTL DEF IInv
  <2>2. Frames \in Seq(Seq(Nat)) /\ Len(Frames) = size /\ Sorted(Frames', last', n')
    BY <2>1 DEF Laid, IInv, InOrder
  <2>3. last' \in Nat /\ n' \in Bytes
    BY DEF IInv, TypeOK, Bytes
  <2>4. CASE Frames' = Frames
    BY <2>4
  <2>5. CASE Frames # <<>> /\ Frames' = Tail(Frames)
    BY <2>5 DEF Fifo!Next, Fifo!Get, Frames
  <2>6. ASSUME NEW f \in Seq(Nat), Len(f) <= RxSize, n' > 0,
               size < Capacity, Frames' = Append(Frames, f)
        PROVE  [Fifo!Next]_Frames
    <3>1. /\ Run(f, last', n')
          /\ \A i \in DOMAIN f, j \in DOMAIN Frames : \A m \in DOMAIN Frames[j] : f[i] > Frames[j][m]
      BY <2>2, <2>6, AppendedLater
    <3>2. f \in Fifo!Runs
      BY <2>3, <2>6, <3>1, InRuns
    <3>3. Fifo!Later(f, Frames)
      BY <3>1 DEF Fifo!Later
    <3>4. Fifo!Put
      BY <2>2, <2>6, <3>2, <3>3 DEF Fifo!Put, Fifo!Later, Frames
    <3>5. QED
      BY <3>4 DEF Fifo!Next
  <2>7. ASSUME NEW f \in Seq(Nat), Len(f) <= RxSize, n' > 0,
               size = Capacity, Frames # <<>>, Frames' = Append(Tail(Frames), f),
               AllBefore(Frames, f)
        PROVE  [Fifo!Next]_Frames
    <3>1. Tail(Frames) \in Seq(Seq(Nat))
      BY <2>2, <2>7, HeadTailProperties
    <3>2. Run(f, last', n')
      BY <2>2, <2>7, <3>1, AppendedLater
    <3>3. f \in Fifo!Runs
      BY <2>3, <2>7, <3>2, InRuns
    <3>4. \A i \in DOMAIN f, j \in DOMAIN Frames : \A m \in DOMAIN Frames[j] : f[i] > Frames[j][m]
      <4>1. TAKE i \in DOMAIN f, j \in DOMAIN Frames
      <4>2. TAKE m \in DOMAIN Frames[j]
      <4>3. /\ i \in 1 .. Len(f) /\ j \in 1 .. Len(Frames) /\ Frames[j] \in Seq(Nat)
            /\ m \in 1 .. Len(Frames[j]) /\ f[i] \in Nat /\ Frames[j][m] \in Nat
        BY <2>2
      <4>4. Frames[j][m] < f[i]
        BY <2>7, <4>3 DEF AllBefore, Before
      <4>5. QED
        BY <4>3, <4>4
    <3>5. Fifo!Later(f, Frames)
      BY <3>4 DEF Fifo!Later
    <3>6. Fifo!Replace
      BY <2>2, <2>7, <3>3, <3>5 DEF Fifo!Replace, Fifo!Later, Frames
    <3>7. QED
      BY <3>6 DEF Fifo!Next
  <2>8. QED
    BY <1>2, <2>4, <2>5, <2>6, <2>7, NextChanges DEF Changed
<1>3. QED
  BY <1>1, <1>2

(* IsFifo: the queue implements FrameFifo, for any number of slots and any *)
(* size of the receive buffer, wherever the UART interrupt preempts PendSV *)
(* and puts a frame in while one is taken out.                             *)
THEOREM IsBoundedFifo ==
    ASSUME FrameQueueAssumption
    PROVE  Spec => IsFifo
<1>1. Init => IInv /\ Fifo!Init
  BY InitIInv DEF Fifo!Init, Frames
<1>2. IInv /\ [Next]_vars => IInv'
  BY NextIInv
<1>3. IInv /\ IInv' /\ [Next]_vars => [Fifo!Next]_Frames
  BY NextIsFifo
<1>4. QED
  BY <1>1, <1>2, <1>3, PTL DEF Spec, IsFifo, Fifo!Spec, Frames
================================================================================
