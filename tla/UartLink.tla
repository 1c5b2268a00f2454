------------------------------- MODULE UartLink -------------------------------
(***************************************************************************)
(* The half-duplex serial link: the transceiver (bsp/cpu/cpu_uart.cpp),    *)
(* its queue of received frames (buf_queue of api/utils.cpp), and the      *)
(* device that parses and answers them (drv_commu.cpp, app/commu.cpp),     *)
(* with a Modbus master at the other end.                                  *)
(*                                                                         *)
(* Five contexts interleave.  The DMA interrupt, which ends a              *)
(* transmission, preempts all others; the UART interrupt, which receives a *)
(* byte, preempts SysTick and PendSV, which share the lowest priority and  *)
(* never preempt each other; all of them preempt the foreground.  SysTick  *)
(* closes a frame when the byte timer runs out, PendSV parses and answers  *)
(* it, and the foreground applies a new baud rate or writes a line of the  *)
(* log to the same UART.                                                   *)
(***************************************************************************)
EXTENDS Naturals, Sequences

CONSTANTS L,         \* bytes of a request
          Cap,       \* bytes m_rx_buf takes: 100 in this build
          QueueCap,  \* frames the queue takes: def_QUEUE_BUF_CNTS
          MaxNoise, MaxIos, MaxLogs   \* bounds: stray bytes, baud changes, log lines

ASSUME UartLinkAssumption ==
    /\ L \in Nat \ {0, 1} /\ Cap \in Nat /\ Cap > L /\ QueueCap \in Nat \ {0}
    /\ MaxNoise \in Nat /\ MaxIos \in Nat /\ MaxLogs \in Nat

(* The bytes of a request are numbered; the first is the link address, and *)
(* Stray is a byte that is not.                                            *)
Stray   == 0
Bytes   == 0 .. L
Request == [i \in 1 .. L |-> i]

\* Where the master is: at the byte it sends next, or ...
Idle    == 0
Waiting == L + 1

VARIABLES m_rx_status, m_rx_buf,  \* the bytes up to m_rx_index
          m_tx_status,
          rs485,                  \* the direction of the driver on the line
          dma,                    \* what the DMA channel is sending
          timer,                  \* the byte timer runs
          queue,                  \* m_buf_queue
          pended,                 \* PendSV is pending
          low,                    \* where PendSV is, if active
          fore,                   \* where the foreground is
          master,                 \* what the master does
          noise, ios, logs        \* stray bytes, baud changes and log lines to come

rx   == <<m_rx_status, m_rx_buf>>
tx   == <<m_tx_status, rs485, dma>>
todo == <<noise, ios, logs>>
vars == <<rx, tx, timer, queue, pended, low, fore, master, todo>>

TypeOK ==
    /\ m_rx_status \in {"recv", "done"} /\ m_rx_buf \in Seq(Bytes) /\ Len(m_rx_buf) <= Cap
    /\ m_tx_status \in {"idle", "processing"}
    /\ rs485 \in {"recv", "send"}
    /\ dma \in {"off", "reply", "log", "garbled"}
    /\ timer \in BOOLEAN /\ pended \in BOOLEAN
    /\ queue \in Seq(Seq(Bytes)) /\ Len(queue) <= QueueCap
    /\ \A i \in DOMAIN queue : Len(queue[i]) <= Cap
    /\ low \in {"none", "fetch", "transmit", "done", "fault"}
    /\ fore \in {"run", "ios", "claimed", "copying"}
    /\ master \in Idle .. Waiting
    /\ noise \in 0 .. MaxNoise /\ ios \in 0 .. MaxIos /\ logs \in 0 .. MaxLogs

Init ==
    /\ m_rx_status = "recv" /\ m_rx_buf = <<>>
    /\ m_tx_status = "idle" /\ rs485 = "recv" /\ dma = "off"
    /\ timer = FALSE /\ queue = <<>> /\ pended = FALSE
    /\ low = "none" /\ fore = "run" /\ master = Idle
    /\ noise = MaxNoise /\ ios = MaxIos /\ logs = MaxLogs

--------------------------------------------------------------------------------
(* Receiving.                                                              *)

recv_init == m_rx_status' = "recv" /\ m_rx_buf' = <<>>

\* A full queue gives up its oldest frame.
buf_queue_put(frame) ==
    queue' = Append(IF Len(queue) >= QueueCap THEN Tail(queue) ELSE queue, frame)

\* (mutant) PendSV is not triggered
force_done_untold(rest) ==
    /\ buf_queue_put(m_rx_buf)
    /\ m_rx_buf' = rest /\ m_rx_status' = "done" /\ UNCHANGED pended

\* What was received is queued, and PendSV triggered.  The buffer then holds rest.
force_done(rest) ==
    /\ buf_queue_put(m_rx_buf)
    /\ m_rx_buf' = rest /\ m_rx_status' = "done" /\ pended' = TRUE

\* (mutant) one byte too many
Full_late == Len(m_rx_buf) > Cap

Full == Len(m_rx_buf) >= Cap

(* transceiver::push.  A byte that finds the buffer full closes the frame, *)
(* and is then stored although the receiver is no longer receiving.        *)
push(c) ==
    IF m_tx_status = "processing" \/ m_rx_status # "recv"
    THEN UNCHANGED <<rx, timer, queue, pended>>
    ELSE /\ timer' = TRUE
         /\ IF Full
            THEN force_done(<<c>>)
            ELSE /\ m_rx_buf' = Append(m_rx_buf, c)
                 /\ UNCHANGED <<m_rx_status, queue, pended>>

\* The UART interrupt is taken: the foreground has it masked during ios.
Receives(c) ==
    /\ fore # "ios" /\ low # "fault"
    /\ push(c)
    /\ UNCHANGED <<tx, low, fore, ios, logs>>

(* SysTick finds the byte timer out: the line has been silent.  timer_check *)
(* runs the callback with interrupts masked, so the UART interrupt does    *)
(* not come between its steps.                                             *)
Silence ==
    /\ timer /\ low = "none" /\ ~pended /\ master \notin 1 .. L
    /\ timer' = FALSE
    /\ force_done(<<>>)
    /\ UNCHANGED <<tx, low, fore, master, todo>>

--------------------------------------------------------------------------------
(* PendSV: device_commu::package_event_fetch.                              *)

PendSV ==
    /\ pended /\ low = "none"
    /\ pended' = FALSE /\ low' = "fetch"
    /\ UNCHANGED <<rx, tx, timer, queue, fore, master, todo>>

(* unpack computes the check sum of len - 2 bytes, in 16 bits: of a frame  *)
(* of one byte, the address, it sums over what is not memory.  In an empty *)
(* frame the first byte is what the stack held.                            *)
Overruns(frame)  == frame = <<1>> \/ frame = <<>>
Unanswered(frame) == frame # Request /\ frame # <<1>>

\* (mutant) without COMMU_IOC_RX_ENTER
Reject_closed == low' = "none" /\ UNCHANGED rx

(* A frame that is not a request for this device ends the loop over the    *)
(* queue, and whatever else the queue holds waits for the next PendSV.     *)
Reject == low' = "none" /\ recv_init

Fetch ==
    /\ low = "fetch"
    /\ \/ /\ queue = <<>>
          /\ low' = "none" /\ UNCHANGED <<rx, queue>>
       \/ /\ queue # <<>> /\ queue' = Tail(queue)
          /\ \/ Head(queue) = Request /\ low' = "transmit" /\ UNCHANGED rx
             \/ Unanswered(Head(queue)) /\ Reject
             \/ Overruns(Head(queue)) /\ low' = "fault" /\ UNCHANGED rx
    /\ UNCHANGED <<tx, timer, pended, fore, master, todo>>

\* The DMA channel is set up afresh, whatever it was sending.
StartDma(what) ==
    /\ dma' = IF dma = "off" THEN what ELSE "garbled"
    /\ rs485' = "send"

\* (mutant) without the wait
Transmit_at_once ==
    /\ low = "transmit"
    /\ m_tx_status' = "processing" /\ StartDma("reply")
    /\ low' = "done"
    /\ UNCHANGED <<rx, timer, queue, pended, fore, master, todo>>

\* PendSV waits here until no transmission is in progress.
Transmit ==
    /\ low = "transmit" /\ m_tx_status = "idle"
    /\ m_tx_status' = "processing" /\ StartDma("reply")
    /\ low' = "done"
    /\ UNCHANGED <<rx, timer, queue, pended, fore, master, todo>>

\* (mutant) without COMMU_IOC_RX_ENTER
Done_closed ==
    /\ low = "done" /\ low' = "fetch"
    /\ UNCHANGED <<rx, tx, timer, queue, pended, fore, master, todo>>

\* PHASE_DONE of the write, and on with the loop.
Done ==
    /\ low = "done" /\ low' = "fetch"
    /\ recv_init
    /\ UNCHANGED <<tx, timer, queue, pended, fore, master, todo>>

\* (mutant) without rs485_recv
EndOfTransmission_holds == dma' = "off" /\ m_tx_status' = "idle" /\ UNCHANGED rs485

EndOfTransmission == dma' = "off" /\ m_tx_status' = "idle" /\ rs485' = "recv"

(* The DMA interrupt, once the last byte is out.  The master has its       *)
(* answer if the reply went out whole.                                     *)
TxDone ==
    /\ dma # "off" /\ low # "fault"
    /\ EndOfTransmission
    /\ master' = IF dma = "reply" /\ master = Waiting THEN Idle ELSE master
    /\ UNCHANGED <<rx, timer, queue, pended, low, fore, todo>>

--------------------------------------------------------------------------------
(* The foreground.                                                         *)

\* uart_ios: the UART interrupt is masked, the rest are not.
IosBegin ==
    /\ fore = "run" /\ low = "none" /\ ios > 0
    /\ fore' = "ios" /\ ios' = ios - 1
    /\ UNCHANGED <<rx, tx, timer, queue, pended, low, master, noise, logs>>

\* The new baud rate takes effect in the middle of what is being sent.
Ios ==
    /\ fore = "ios" /\ low = "none" /\ fore' = "run"
    /\ recv_init
    /\ rs485' = "recv" /\ dma' = IF dma = "off" THEN "off" ELSE "garbled"
    /\ UNCHANGED <<m_tx_status, timer, queue, pended, low, master, todo>>

(* debug_output: the same transmit, but in the foreground, so that PendSV  *)
(* may come in between its steps.  It has seen m_tx_status idle, ...       *)
LogClaim ==
    /\ fore = "run" /\ low = "none" /\ logs > 0 /\ m_tx_status = "idle"
    /\ fore' = "claimed" /\ logs' = logs - 1
    /\ UNCHANGED <<rx, tx, timer, queue, pended, low, master, noise, ios>>

\* ... sets it, ...
LogMark ==
    /\ fore = "claimed" /\ low = "none" /\ fore' = "copying"
    /\ m_tx_status' = "processing"
    /\ UNCHANGED <<rx, rs485, dma, timer, queue, pended, low, master, todo>>

\* ... copies the line, and starts the DMA channel.
LogStart ==
    /\ fore = "copying" /\ low = "none" /\ fore' = "run"
    /\ StartDma("log")
    /\ UNCHANGED <<rx, m_tx_status, timer, queue, pended, low, master, todo>>

Foreground == IosBegin \/ Ios \/ LogClaim \/ LogMark \/ LogStart

--------------------------------------------------------------------------------
(* The master and the line.                                                *)

Quiet ==
    /\ low = "none" /\ ~pended /\ ~timer /\ dma = "off" /\ fore = "run"

Ask == master = Idle /\ master' = 1
       /\ UNCHANGED <<rx, tx, timer, queue, pended, low, fore, todo>>

SendByte ==
    /\ master \in 1 .. L
    /\ Receives(master)
    /\ master' = master + 1
    /\ UNCHANGED noise

\* Its timeout is longer than the byte timer and the answer take: it asks again.
Retry ==
    /\ master = Waiting /\ Quiet /\ master' = 1
    /\ UNCHANGED <<rx, tx, timer, queue, pended, low, fore, todo>>

Noise ==
    /\ noise > 0 /\ noise' = noise - 1
    /\ Receives(Stray) /\ UNCHANGED master

Device == Silence \/ PendSV \/ Fetch \/ Transmit \/ Done
Next == Device \/ TxDone \/ Foreground \/ Ask \/ SendByte \/ Retry \/ Noise

(* The processor runs whatever context is ready, DMA ends, silence lasts,  *)
(* and a master that has asked goes on.                                    *)
Spec ==
    /\ Init /\ [][Next]_vars
    /\ WF_vars(Device) /\ WF_vars(TxDone) /\ WF_vars(Ios \/ LogMark \/ LogStart)
    /\ WF_vars(SendByte) /\ WF_vars(Retry)

--------------------------------------------------------------------------------
(* Properties.                                                             *)

(* Once everything that was under way has ended, the link is ready: it     *)
(* receives, into an empty buffer, transmits nothing and leaves the line   *)
(* to the others.                                                          *)
QuietIsReady ==
    Quiet => /\ m_rx_status = "recv" /\ m_rx_buf = <<>>
             /\ m_tx_status = "idle" /\ rs485 = "recv"

\* The driver holds the line only while there is something to send.
BusReleased == rs485 = "send" => dma # "off"

(* PendSV has preempted the foreground between its setting m_tx_status and *)
(* its starting the DMA channel, and waits for a transmission that only    *)
(* the foreground could start.                                             *)
Spins ==
    /\ low = "transmit" /\ fore = "copying"
    /\ m_tx_status = "processing" /\ dma = "off"

(* What stops the link: that, and a parse that leaves the memory.          *)
Hung == Spins \/ low = "fault"

(* Neither ever ends: no interrupt, byte or retry of the master gets the   *)
(* link out of it.                                                         *)
HangsForGood == [][Hung => Hung']_vars

(* The receiver never stays closed: whatever closed it, a frame of any     *)
(* kind, an overflow or a log line, it opens again.                        *)
RxRecovers == m_rx_status = "done" ~> (m_rx_status = "recv" \/ Hung)

(* A master that keeps asking is answered, whatever noise, log lines and   *)
(* changes of the baud rate came in between.                               *)
Answered == master = Waiting ~> (master = Idle \/ Hung)

(* cpu_uart.cpp:233: the wait in transmit keeps a transmission from        *)
(* following too fast on one in progress; what it waits for is the DMA     *)
(* channel, which then is at work.                                         *)
WaitsForDma == low = "transmit" /\ m_tx_status = "processing" => dma # "off"
================================================================================
