----------------------------- MODULE FrameQueue ------------------------------
(***************************************************************************)
(* The receiver of the serial line and its queue of frames, store by store *)
(* (transceiver of bsp/cpu/cpu_uart.cpp, buf_queue of api/utils.cpp).      *)
(*                                                                         *)
(* SysTick, when the byte timer has expired, and PendSV have the same      *)
(* priority: one runs after the other.  Timers expire with interrupts      *)
(* disabled (timer_check of includes/service.cpp), so SysTick queues its   *)
(* frame in one go.  PendSV takes frames out with interrupts enabled but   *)
(* for a section, and when the receive buffer is full the UART interrupt   *)
(* queues a frame itself: buf_queue_put may run inside buf_queue_get.      *)
(*                                                                         *)
(* A byte is its number on the line.  UartLink has the transmitter, and    *)
(* the rest of the receiver's story in larger steps.                       *)
(***************************************************************************)
EXTENDS Naturals, Sequences, FiniteSets

CONSTANTS Capacity,   \* def_QUEUE_BUF_CNTS
          RxSize,     \* def_TRANSCEIVER_RX_BUF_SIZE
          MaxBytes    \* bound: bytes on the line

FrameQueueAssumption ==
    Capacity \in Nat \ {0} /\ RxSize \in Nat \ {0} /\ MaxBytes \in Nat

Slots == 0 .. Capacity - 1
Bytes == 0 .. MaxBytes

VARIABLES m_rx_buf, m_rx_index, m_rx_status,
          buf, m_len,         \* buf_queue: the slots and their lengths,
          front, rear, size,  \* and its counters
          timer,   \* the byte timer is running
          pended,  \* PendSV has been triggered
          low,     \* where PendSV is, "none" if it does not run
          slot,    \* the slot it has taken,
          k,       \* how much of it has been copied,
          len,     \* how long it is,
          out,     \* and what has been copied
          room,    \* one more byte may come while it is there
          n,       \* bytes on the line so far
          last     \* history: the last byte of the frame fetched last

rx    == <<m_rx_buf, m_rx_index, m_rx_status>>
queue == <<buf, m_len, front, rear, size>>
copy  == <<slot, k, len, out>>
vars  == <<rx, queue, timer, pended, low, copy, room, n, last>>

PendSVAt  == {"get", "take", "fetch", "open"}

TypeOK ==
    /\ m_rx_buf \in [1 .. RxSize -> Bytes] /\ m_rx_index \in 0 .. RxSize
    /\ m_rx_status \in {"RECV", "DONE"}
    /\ buf \in [Slots -> [1 .. RxSize -> Bytes]] /\ m_len \in [Slots -> 0 .. RxSize]
    /\ front \in Slots /\ rear \in Slots /\ size \in 0 .. Capacity
    /\ timer \in BOOLEAN /\ pended \in BOOLEAN
    /\ low \in {"none"} \cup PendSVAt
    /\ slot \in Slots /\ k \in 0 .. RxSize /\ len \in 0 .. RxSize
    /\ out \in [1 .. RxSize -> Bytes] /\ room \in BOOLEAN /\ n \in Bytes /\ last \in Bytes

Init ==
    /\ m_rx_buf = [i \in 1 .. RxSize |-> 0] /\ m_rx_index = 0 /\ m_rx_status = "RECV"
    /\ buf = [i \in Slots |-> m_rx_buf] /\ m_len = [i \in Slots |-> 0]
    /\ front = 0 /\ rear = 0 /\ size = 0
    /\ timer = FALSE /\ pended = FALSE /\ low = "none"
    /\ slot = 0 /\ k = 0 /\ len = 0 /\ out = m_rx_buf
    /\ room = TRUE /\ n = 0 /\ last = 0

After(i) == (i + 1) % Capacity

\* (mutant) one frame too many
Full_late == size > Capacity

Full == size >= Capacity

--------------------------------------------------------------------------------
(* A frame is complete: transceiver::force_done.                           *)

\* (mutant) the slot is counted, but the next frame gets it too
QueueFrame_stuck ==
    /\ front' = IF Full THEN After(front) ELSE front
    /\ rear' = rear /\ size' = IF Full THEN size ELSE size + 1
    /\ buf' = [buf EXCEPT ![rear] = m_rx_buf] /\ m_len' = [m_len EXCEPT ![rear] = m_rx_index]

\* A full queue gives up its oldest frame; nothing comes in between.
QueueFrame ==
    /\ front' = IF Full THEN After(front) ELSE front
    /\ rear' = After(rear) /\ size' = IF Full THEN size ELSE size + 1
    /\ buf' = [buf EXCEPT ![rear] = m_rx_buf] /\ m_len' = [m_len EXCEPT ![rear] = m_rx_index]

Done == QueueFrame /\ m_rx_status' = "DONE" /\ pended' = TRUE

\* SysTick: the byte timer is out.
Silence ==
    /\ timer /\ low = "none" /\ timer' = FALSE
    /\ Done /\ m_rx_index' = 0
    /\ room' = TRUE /\ UNCHANGED <<m_rx_buf, low, copy, n, last>>

\* transceiver::push of a full buffer: the byte that came is stored, in the closed one.
Overflow ==
    /\ m_rx_index >= RxSize
    /\ Done /\ m_rx_buf' = [m_rx_buf EXCEPT ![1] = n'] /\ m_rx_index' = 1
    /\ timer' = TRUE

Store ==
    /\ m_rx_index < RxSize
    /\ m_rx_buf' = [m_rx_buf EXCEPT ![m_rx_index + 1] = n'] /\ m_rx_index' = m_rx_index + 1
    /\ timer' = TRUE
    /\ UNCHANGED <<m_rx_status, queue, pended>>

\* Not receiving: the byte is lost.
Drop == m_rx_status # "RECV" /\ UNCHANGED <<rx, queue, timer, pended>>

(* The UART interrupt.  A byte takes a millisecond or so: no two come      *)
(* between two of PendSV's waits.                                          *)
Byte ==
    /\ n < MaxBytes /\ n' = n + 1
    /\ room /\ room' = (low \in {"none", "open"})
    /\ \/ m_rx_status = "RECV" /\ (Overflow \/ Store)
       \/ Drop
    /\ UNCHANGED <<low, copy, last>>

--------------------------------------------------------------------------------
(* PendSV: package_event_fetch takes frames out until one is not for this  *)
(* device, or none is left.                                                *)

PendSV ==
    /\ pended /\ low = "none" /\ pended' = FALSE /\ low' = "get"
    /\ UNCHANGED <<rx, queue, timer, copy, room, n, last>>

Get ==
    /\ low = "get" /\ low' = (IF size > 0 THEN "take" ELSE "none") /\ room' = TRUE
    /\ UNCHANGED <<rx, queue, timer, pended, copy, n, last>>

\* With interrupts disabled.
Take ==
    /\ low = "take" /\ low' = "fetch"
    /\ slot' = front /\ k' = 0 /\ len' = m_len[front]
    /\ front' = After(front) /\ size' = size - 1
    /\ UNCHANGED <<rx, buf, m_len, rear, timer, pended, out, room, n, last>>

\* memcpy; len is that of the slot when it was read.
Fetch ==
    /\ low = "fetch" /\ k < len
    /\ out' = [out EXCEPT ![k + 1] = buf[slot][k + 1]] /\ k' = k + 1
    /\ UNCHANGED <<rx, queue, timer, pended, low, slot, len, room, n, last>>

Fetched ==
    /\ low = "fetch" /\ k = len /\ low' = "open" /\ room' = TRUE
    /\ last' = IF len > 0 THEN out[len] ELSE last
    /\ UNCHANGED <<rx, queue, timer, pended, copy, n>>

\* (mutant) the index is not reset
RxEnter_dirty ==
    /\ low = "open" /\ low' \in {"get", "none"} /\ room' = TRUE
    /\ m_rx_status' = "RECV"
    /\ UNCHANGED <<m_rx_buf, m_rx_index, queue, timer, pended, copy, n, last>>

\* COMMU_IOC_RX_ENTER, once the answer is under way or at once: recv_init.
RxEnter ==
    /\ low = "open" /\ low' \in {"get", "none"} /\ room' = TRUE
    /\ m_rx_index' = 0 /\ m_rx_status' = "RECV"
    /\ UNCHANGED <<m_rx_buf, queue, timer, pended, copy, n, last>>

Next == Byte \/ Silence \/ PendSV \/ Get \/ Take \/ Fetch \/ Fetched \/ RxEnter

Spec == Init /\ [][Next]_vars

--------------------------------------------------------------------------------
(* Properties.                                                             *)

(* A frame that PendSV has fetched is bytes as they came, none of them     *)
(* missing or twice, and all of them later than those of the frame before. *)
(* cpu_uart.cpp:113 promises the caller a valid buffer.                    *)
Whole ==
    low = "fetch" /\ k = len =>
        \A i \in 1 .. len : out[i] = out[1] + i - 1 /\ out[1] > last

\* The frames in the queue.
Content(s) == SubSeq(buf[s], 1, m_len[s])
Fifo == INSTANCE FrameFifo WITH fifo <- [i \in 1 .. size |-> Content((front + i - 1) % Capacity)]

(* Frames go through the queue first in, first out, whichever context puts *)
(* them in and wherever the UART interrupt preempts the one that takes     *)
(* them out; a full queue gives up its oldest frame and no other.          *)
IsFifo == Fifo!Spec
================================================================================
