----------------------------- MODULE SerialProofs ------------------------------
(***************************************************************************)
(* The serial line, proved for any length of request, buffer and queue,    *)
(* and any number of stray bytes, baud changes and log lines.  The last    *)
(* part carries the theorems of FrameQueueProofs over to the composition   *)
(* of MCSerial.                                                            *)
(***************************************************************************)
EXTENDS MCSerial, SequenceTheorems, TLAPS

(* A receiver that is closed will be looked at: PendSV is pending or       *)
(* active, and until it has taken the frame there is one in the queue.     *)
ClosedIsTold ==
    m_rx_status = "done" =>
      /\ low = "none" => pended
      /\ low \in {"none", "fetch"} => queue # <<>>

\* Bytes that are in have a timer running that will close the frame.
BytesAreTimed == m_rx_status = "recv" /\ m_rx_buf # <<>> => timer

\* A transmission is marked by the DMA channel or by a foreground about to start it.
BusyIsReal == m_tx_status = "processing" => dma # "off" \/ fore = "copying"

IInv == TypeOK /\ ClosedIsTold /\ BytesAreTimed /\ BusyIsReal /\ BusReleased

--------------------------------------------------------------------------------
(* Lemmas.                                                                 *)

\* What a queue or a buffer of bounded length takes stays within the bound.
LEMMA AppendFacts ==
  ASSUME NEW S, NEW s \in Seq(S), NEW e \in S
  PROVE  /\ Append(s, e) \in Seq(S) /\ Append(s, e) # <<>>
         /\ Len(Append(s, e)) = Len(s) + 1
         /\ \A i \in DOMAIN Append(s, e) : Append(s, e)[i] = e \/ (i \in DOMAIN s /\ Append(s, e)[i] = s[i])
  OBVIOUS

\* Taking the first element moves the others down by one.
LEMMA TailFacts ==
  ASSUME NEW S, NEW s \in Seq(S), s # <<>>
  PROVE  /\ Tail(s) \in Seq(S) /\ Len(Tail(s)) = Len(s) - 1
         /\ \A i \in DOMAIN Tail(s) : i + 1 \in DOMAIN s /\ Tail(s)[i] = s[i + 1]
  OBVIOUS

\* A queue of frames that fit the buffer.
QueueOK(q) ==
    /\ q \in Seq(Seq(Bytes)) /\ Len(q) <= QueueCap
    /\ \A i \in DOMAIN q : Len(q[i]) <= Cap

\* A frame put on a full queue displaces the oldest one.
LEMMA PutFacts ==
  ASSUME TypeOK, buf_queue_put(m_rx_buf)
  PROVE  QueueOK(queue') /\ queue' # <<>>
<1>1. QueueCap \in Nat /\ QueueCap >= 1 /\ Cap \in Nat
  BY UartLinkAssumption
<1> DEFINE q == IF Len(queue) >= QueueCap THEN Tail(queue) ELSE queue
<1>2. q \in Seq(Seq(Bytes)) /\ Len(q) < QueueCap /\ \A i \in DOMAIN q : Len(q[i]) <= Cap
  <2>1. CASE Len(queue) >= QueueCap
    <3>1. queue # <<>>
      BY <2>1, <1>1
    <3>2. QED
      BY <2>1, <3>1, <1>1, TailFacts DEF TypeOK
  <2>2. CASE ~(Len(queue) >= QueueCap)
    BY <2>2, <1>1 DEF TypeOK
  <2>3. QED
    BY <2>1, <2>2
<1> HIDE DEF q
<1>3. queue' = Append(q, m_rx_buf)
  BY DEF buf_queue_put, q
<1>4. m_rx_buf \in Seq(Bytes) /\ Len(m_rx_buf) <= Cap
  BY DEF TypeOK
<1>5. QED
  BY <1>1, <1>2, <1>3, <1>4, AppendFacts DEF QueueOK

\* A byte: it is not taken, it goes into the buffer, or it closes a full one.
LEMMA PushFacts ==
  ASSUME TypeOK, NEW c \in Bytes, push(c)
  PROVE  /\ m_rx_status' \in {"recv", "done"} /\ timer' \in BOOLEAN /\ pended' \in BOOLEAN
         /\ m_rx_buf' \in Seq(Bytes) /\ Len(m_rx_buf') <= Cap
         /\ QueueOK(queue')
         /\ \/ UNCHANGED <<rx, timer, queue, pended>>
            \/ m_rx_status' = "recv" /\ timer' = TRUE /\ UNCHANGED <<queue, pended>>
            \/ m_rx_status' = "done" /\ pended' = TRUE /\ queue' # <<>>
<1>1. Cap \in Nat /\ Cap >= 1
  BY UartLinkAssumption
<1>2. CASE m_tx_status = "processing" \/ m_rx_status # "recv"
  BY <1>2 DEF push, rx, TypeOK, QueueOK
<1>3. CASE ~(m_tx_status = "processing" \/ m_rx_status # "recv") /\ Full
  <2>1. /\ timer' = TRUE /\ buf_queue_put(m_rx_buf)
        /\ m_rx_buf' = <<c>> /\ m_rx_status' = "done" /\ pended' = TRUE
    BY <1>3 DEF push, force_done
  <2>2. <<c>> \in Seq(Bytes) /\ Len(<<c>>) <= Cap
    BY <1>1
  <2>3. QED
    BY <2>1, <2>2, PutFacts
<1>4. CASE ~(m_tx_status = "processing" \/ m_rx_status # "recv") /\ ~Full
  <2>1. /\ timer' = TRUE /\ m_rx_buf' = Append(m_rx_buf, c)
        /\ UNCHANGED <<m_rx_status, queue, pended>>
    BY <1>4 DEF push
  <2>2. m_rx_buf \in Seq(Bytes) /\ Len(m_rx_buf) < Cap
    BY <1>1, <1>4 DEF TypeOK, Full
  <2>3. m_rx_buf' \in Seq(Bytes) /\ Len(m_rx_buf') <= Cap
    BY <1>1, <2>1, <2>2, AppendFacts
  <2>4. QED
    BY <1>4, <2>1, <2>3 DEF TypeOK, QueueOK
<1>5. QED
  BY <1>2, <1>3, <1>4

--------------------------------------------------------------------------------
(* The invariant.                                                          *)

\* The link starts idle, with nothing received.
LEMMA InvInit == Init => IInv
<1>1. QueueOK(<<>>) /\ <<>> \in Seq(Bytes) /\ Len(<<>>) = 0
  BY UartLinkAssumption DEF QueueOK
<1>2. /\ Cap \in Nat /\ QueueCap \in Nat /\ L \in Nat
      /\ MaxNoise \in Nat /\ MaxIos \in Nat /\ MaxLogs \in Nat
  BY UartLinkAssumption
<1>3. Init => TypeOK
  <2>1. Init => /\ queue \in Seq(Seq(Bytes)) /\ Len(queue) <= QueueCap
                /\ \A i \in DOMAIN queue : Len(queue[i]) <= Cap
    BY <1>1 DEF Init, QueueOK
  <2>2. Init => m_rx_buf \in Seq(Bytes) /\ Len(m_rx_buf) <= Cap
    BY <1>1, <1>2 DEF Init
  <2>3. Init => /\ master \in Idle .. Waiting
                /\ noise \in 0 .. MaxNoise /\ ios \in 0 .. MaxIos /\ logs \in 0 .. MaxLogs
    BY <1>2 DEF Init, Idle, Waiting
  <2>4. QED
    BY <2>1, <2>2, <2>3 DEF Init, TypeOK
<1>4. QED
  BY <1>3 DEF Init, IInv, ClosedIsTold, BytesAreTimed, BusyIsReal, BusReleased

\* The part of the invariant that the receiver may disturb.
Receiver == TypeOK /\ ClosedIsTold /\ BytesAreTimed

\* A byte on the line keeps the receiver's part.
LEMMA ReceivesStep ==
  ASSUME Receiver, NEW c \in Bytes, Receives(c),
         master' \in Idle .. Waiting, noise' \in 0 .. MaxNoise
  PROVE  Receiver'
<1>1. push(c) /\ UNCHANGED <<tx, low, fore, ios, logs>>
  BY DEF Receives
<1>2. /\ m_rx_status' \in {"recv", "done"} /\ timer' \in BOOLEAN /\ pended' \in BOOLEAN
      /\ m_rx_buf' \in Seq(Bytes) /\ Len(m_rx_buf') <= Cap
      /\ QueueOK(queue')
      /\ \/ UNCHANGED <<rx, timer, queue, pended>>
         \/ m_rx_status' = "recv" /\ timer' = TRUE /\ UNCHANGED <<queue, pended>>
         \/ m_rx_status' = "done" /\ pended' = TRUE /\ queue' # <<>>
  BY <1>1, PushFacts DEF Receiver
<1>3. TypeOK'
  BY <1>1, <1>2 DEF Receiver, TypeOK, QueueOK, tx
<1>4. ClosedIsTold' /\ BytesAreTimed'
  <2>1. CASE UNCHANGED <<rx, timer, queue, pended>>
    BY <1>1, <2>1 DEF Receiver, rx, ClosedIsTold, BytesAreTimed
  <2>2. CASE m_rx_status' = "recv" /\ timer' = TRUE /\ UNCHANGED <<queue, pended>>
    BY <1>1, <2>2 DEF Receiver, ClosedIsTold, BytesAreTimed
  <2>3. CASE m_rx_status' = "done" /\ pended' = TRUE /\ queue' # <<>>
    BY <1>1, <2>3 DEF Receiver, ClosedIsTold, BytesAreTimed
  <2>4. QED
    BY <1>2, <2>1, <2>2, <2>3
<1>5. QED
  BY <1>3, <1>4 DEF Receiver

\* Every step keeps it: the bytes, the byte timer, PendSV and the foreground.
LEMMA ReceiverStep == Receiver /\ [Next]_vars => Receiver'
<1> SUFFICES ASSUME Receiver, [Next]_vars
             PROVE  Receiver'
  OBVIOUS
<1> USE DEF Receiver
<1>1. /\ Cap \in Nat /\ QueueCap \in Nat /\ L \in Nat
      /\ MaxNoise \in Nat /\ MaxIos \in Nat /\ MaxLogs \in Nat
      /\ <<>> \in Seq(Bytes) /\ Len(<<>>) = 0
  BY UartLinkAssumption
<1>2. CASE Silence
  <2>1. QueueOK(queue') /\ queue' # <<>>
    BY <1>2, PutFacts DEF Silence, force_done
  <2>2. /\ m_rx_buf' = <<>> /\ m_rx_status' = "done" /\ pended' = TRUE /\ timer' = FALSE
        /\ UNCHANGED <<tx, low, fore, master, todo>>
    BY <1>2 DEF Silence, force_done
  <2>3. m_rx_buf' \in Seq(Bytes) /\ Len(m_rx_buf') <= Cap
    BY <1>1, <2>2
  <2>4. TypeOK'
    BY <2>1, <2>2, <2>3 DEF QueueOK, TypeOK, tx, todo
  <2>5. QED
    BY <2>1, <2>2, <2>4 DEF ClosedIsTold, BytesAreTimed
<1>3. CASE PendSV
  BY <1>3 DEF PendSV, TypeOK, rx, tx, todo, ClosedIsTold, BytesAreTimed
<1>4. CASE Fetch
  <2>1. CASE queue = <<>> /\ low' = "none" /\ UNCHANGED <<rx, queue>>
    BY <1>4, <2>1 DEF Fetch, TypeOK, rx, tx, todo, ClosedIsTold, BytesAreTimed
  <2>2. CASE queue # <<>> /\ queue' = Tail(queue)
    <3>1. QueueOK(queue')
      <4>1. /\ queue' \in Seq(Seq(Bytes)) /\ Len(queue') <= QueueCap
            /\ \A i \in DOMAIN queue' : i + 1 \in DOMAIN queue /\ queue'[i] = queue[i + 1]
        BY <1>1, <2>2, TailFacts DEF TypeOK
      <4>2. QED
        BY <4>1 DEF TypeOK, QueueOK
    <3>2. UNCHANGED <<tx, timer, pended, fore, master, todo>> /\ low = "fetch"
      BY <1>4 DEF Fetch
    <3>3. CASE low' \in {"transmit", "fault"} /\ UNCHANGED rx
      BY <3>1, <3>2, <3>3 DEF QueueOK, TypeOK, rx, tx, todo,
         ClosedIsTold, BytesAreTimed
    <3>4. CASE low' = "none" /\ m_rx_status' = "recv" /\ m_rx_buf' = <<>>
      BY <1>1, <3>1, <3>2, <3>4 DEF QueueOK, TypeOK, tx, todo,
         ClosedIsTold, BytesAreTimed
    <3>5. QED
      BY <1>4, <2>2, <3>3, <3>4 DEF Fetch, Reject, recv_init
  <2>3. QED
    BY <1>4, <2>1, <2>2 DEF Fetch
<1>5. CASE Transmit
  BY <1>5 DEF Transmit, StartDma, TypeOK, rx, todo, ClosedIsTold, BytesAreTimed
<1>6. CASE Done
  BY <1>1, <1>6 DEF Done, recv_init, TypeOK, tx, todo, ClosedIsTold, BytesAreTimed
<1>7. CASE TxDone
  BY <1>1, <1>7 DEF TxDone, EndOfTransmission, TypeOK, rx, todo, Idle, Waiting,
     ClosedIsTold, BytesAreTimed
<1>8. CASE Foreground
  <2>1. CASE IosBegin
    BY <1>1, <2>1 DEF IosBegin, TypeOK, rx, tx, todo, ClosedIsTold, BytesAreTimed
  <2>2. CASE Ios
    BY <1>1, <2>2 DEF Ios, recv_init, TypeOK, todo, ClosedIsTold, BytesAreTimed
  <2>3. CASE LogClaim
    BY <1>1, <2>3 DEF LogClaim, TypeOK, rx, tx, todo, ClosedIsTold, BytesAreTimed
  <2>4. CASE LogMark
    BY <2>4 DEF LogMark, TypeOK, rx, todo, ClosedIsTold, BytesAreTimed
  <2>5. CASE LogStart
    BY <2>5 DEF LogStart, StartDma, TypeOK, rx, todo, ClosedIsTold, BytesAreTimed
  <2>6. QED
    BY <1>8, <2>1, <2>2, <2>3, <2>4, <2>5 DEF Foreground
<1>9. CASE Ask \/ Retry
  <2>1. UNCHANGED <<rx, timer, queue, pended, tx, low, fore, todo>> /\ master' \in Idle .. Waiting
    BY <1>1, <1>9 DEF Ask, Retry, Idle, Waiting
  <2>2. QED
    BY <2>1 DEF TypeOK, rx, tx, todo, ClosedIsTold, BytesAreTimed
<1>10. CASE SendByte
  <2>1. master \in Bytes /\ master' \in Idle .. Waiting /\ noise' \in 0 .. MaxNoise
    BY <1>1, <1>10 DEF SendByte, Bytes, Idle, Waiting, TypeOK
  <2>2. Receives(master)
    BY <1>10 DEF SendByte
  <2>3. QED
    BY <2>1, <2>2, ReceivesStep
<1>11. CASE Noise
  <2>1. Stray \in Bytes /\ noise' \in 0 .. MaxNoise /\ master' \in Idle .. Waiting
    BY <1>1, <1>11 DEF Noise, Bytes, Stray, TypeOK
  <2>2. Receives(Stray)
    BY <1>11 DEF Noise
  <2>3. QED
    BY <2>1, <2>2, ReceivesStep
<1>12. CASE UNCHANGED vars
  BY <1>12 DEF vars, TypeOK, rx, tx, todo, ClosedIsTold, BytesAreTimed
<1>13. QED
  BY <1>2, <1>3, <1>4, <1>5, <1>6, <1>7, <1>8, <1>9, <1>10, <1>11, <1>12
     DEF Next, Device

\* The part that the transmitter may disturb.
LEMMA TransmitterStep == TypeOK /\ BusyIsReal /\ BusReleased /\ [Next]_vars
                           => BusyIsReal' /\ BusReleased'
<1> SUFFICES ASSUME TypeOK, BusyIsReal, BusReleased, [Next]_vars
             PROVE  BusyIsReal' /\ BusReleased'
  OBVIOUS
<1>1. CASE Silence \/ PendSV \/ Fetch \/ Done \/ Ask \/ SendByte \/ Retry \/ Noise
  BY <1>1 DEF Silence, PendSV, Fetch, Done, Ask, SendByte, Retry, Noise, Receives,
     tx, BusyIsReal, BusReleased
<1>2. CASE Transmit
  BY <1>2 DEF Transmit, StartDma, TypeOK, BusyIsReal, BusReleased
<1>3. CASE TxDone
  BY <1>3 DEF TxDone, EndOfTransmission, BusyIsReal, BusReleased
<1>4. CASE Foreground
  BY <1>4 DEF Foreground, IosBegin, Ios, LogClaim, LogMark, LogStart, StartDma, TypeOK, tx,
     BusyIsReal, BusReleased
<1>5. CASE UNCHANGED vars
  BY <1>5 DEF vars, tx, BusyIsReal, BusReleased
<1>6. QED
  BY <1>1, <1>2, <1>3, <1>4, <1>5 DEF Next, Device

\* The invariant on which the theorems below rest.
THEOREM Invariance == Spec => []IInv
<1>1. Init => IInv
  BY InvInit
<1>2. IInv /\ [Next]_vars => IInv'
  BY ReceiverStep, TransmitterStep DEF IInv, Receiver
<1>3. QED
  BY <1>1, <1>2, PTL DEF Spec

--------------------------------------------------------------------------------
(* The theorems.                                                           *)

(* Buffer, queue and counters keep within their bounds: the byte that      *)
(* push stores after an overflow never goes past the end of m_rx_buf.      *)
THEOREM TypeCorrect == Spec => []TypeOK
<1>1. IInv => TypeOK
  BY DEF IInv
<1>2. QED
  BY <1>1, Invariance, PTL

(* The device never keeps the line when it has nothing to send, whatever   *)
(* the log and the changes of the baud rate do to a reply.                 *)
THEOREM LineReleased == Spec => []BusReleased
<1>1. IInv => BusReleased
  BY DEF IInv
<1>2. QED
  BY <1>1, Invariance, PTL

(* Whenever the device is quiet it is ready for the next request: no       *)
(* interleaving of the five contexts leaves the receiver closed, a byte in *)
(* the buffer or the transmitter marked busy.                              *)
THEOREM ReadyWhenQuiet == Spec => []QuietIsReady
<1>1. IInv => QuietIsReady
  BY DEF IInv, TypeOK, ClosedIsTold, BytesAreTimed, BusyIsReal, BusReleased, QuietIsReady, Quiet
<1>2. QED
  BY <1>1, Invariance, PTL

(* A PendSV that waits for the foreground, or has faulted, does so for     *)
(* ever.                                                                   *)
THEOREM NoWayOut == Spec => HangsForGood
<1>1. [Next]_vars => [Hung => Hung']_vars
  <2> SUFFICES ASSUME [Next]_vars, Hung
               PROVE  Hung'
    OBVIOUS
  <2> USE DEF Hung, Spins
  <2>1. CASE Device
    BY <2>1 DEF Device, Silence, PendSV, Fetch, Transmit, Done
  <2>2. CASE TxDone
    BY <2>2 DEF TxDone
  <2>3. CASE Foreground
    BY <2>3 DEF Foreground, IosBegin, Ios, LogClaim, LogMark, LogStart
  <2>4. CASE Ask \/ SendByte \/ Retry \/ Noise
    BY <2>4 DEF Ask, SendByte, Retry, Noise, Receives, tx
  <2>5. CASE UNCHANGED vars
    BY <2>5 DEF vars, tx
  <2>6. QED
    BY <2>1, <2>2, <2>3, <2>4, <2>5 DEF Next
<1>2. QED
  BY <1>1, PTL DEF Spec, HangsForGood

--------------------------------------------------------------------------------
(* The frame queue, in the composition.  It is in its initial state in the *)
(* other parts, so its invariant needs no condition.                       *)

LEMMA QueueStep == ASSUME [MCNext]_mcvars PROVE [FQ!Next]_FQ!vars
<1>1. UNCHANGED queuevars => UNCHANGED FQ!vars
  BY DEF queuevars, FQ!vars, FQ!rx, FQ!queue, FQ!copy
<1>2. CASE MCNext
  BY <1>1, <1>2 DEF MCNext
<1>3. CASE UNCHANGED mcvars
  BY <1>1, <1>3 DEF mcvars
<1>4. QED
  BY <1>2, <1>3

LEMMA QueueInit ==
    ASSUME SerialAssumption, MCInit PROVE FQ!IInv /\ FQ!Frames = <<>>
  BY FQ!InitIInv DEF MCInit, SerialAssumption

LEMMA QueueNext ==
    ASSUME SerialAssumption, FQ!IInv, [MCNext]_mcvars
    PROVE  FQ!IInv'
  BY QueueStep, FQ!NextIInv DEF SerialAssumption

(* A frame that comes out of the queue is bytes as they came, none missing *)
(* or twice, all later than those of the frame before: the queue's part of *)
(* NothingCut.                                                             *)
THEOREM FramesComeWhole ==
    ASSUME SerialAssumption
    PROVE  MCSpec => [](FQ!TypeOK /\ FQ!Whole)
<1>1. MCInit => FQ!IInv
  BY QueueInit
<1>2. FQ!IInv /\ [MCNext]_mcvars => FQ!IInv'
  BY QueueNext
<1>3. FQ!IInv => FQ!TypeOK /\ FQ!Whole
  BY FQ!IInvWhole DEF SerialAssumption
<1>4. QED
  BY <1>1, <1>2, <1>3, PTL DEF MCSpec

(* Frames go through the queue first in, first out, whole, and a full      *)
(* queue gives up its oldest frame, wherever the UART interrupt preempts   *)
(* PendSV, for any number of slots, any size of the buffer and any number  *)
(* of bytes: the store-by-store queue implements FrameFifo.                *)
THEOREM QueueIsFifo ==
    ASSUME SerialAssumption
    PROVE  MCSpec => IsFifo
<1>1. MCInit => FQ!IInv /\ FQ!Fifo!Init
  BY QueueInit DEF FQ!Fifo!Init, FQ!Frames
<1>2. FQ!IInv /\ [MCNext]_mcvars => FQ!IInv'
  BY QueueNext
<1>3. FQ!IInv /\ FQ!IInv' /\ [MCNext]_mcvars => [FQ!Fifo!Next]_FQ!Frames
  BY QueueStep, FQ!NextIsFifo DEF SerialAssumption
<1>4. QED
  BY <1>1, <1>2, <1>3, PTL DEF MCSpec, IsFifo, FQ!IsFifo, FQ!Fifo!Spec, FQ!Frames
================================================================================
