------------------------------ MODULE MCForeground ------------------------------
(***************************************************************************)
(* What the foreground runs, for TLC: the event loop and what an event     *)
(* carries, lists and queues of other kinds, the way to it from reset, the *)
(* measurement with the pins that drive the sensor, the filters its        *)
(* samples go through, the check sum and the frame it ends, the registers  *)
(* of the serial line, and the interrupts that preempt all of it.  part    *)
(* says which of them a behaviour is about; the variables of the others    *)
(* stay as they were.  So TLC explores the sum of the state spaces and not *)
(* their product.                                                          *)
(***************************************************************************)
EXTENDS EventLoop

CONSTANTS EarlyWrites, MaxFrames,
          SampleLen, RecordLen, ChangeLimit, Slope, Far, Conversions, Stack,
          Lowest, UART_IRQ_PRIO, I2CM_IRQ_PRIO, DMA_UART_TX_IRQ_PRIO, MaxNest, PrioBits,
          TicksPerSecond, TxSize, Symbols,
          def_EVENT_DATA_SIZE, cheapPrepend, Widths, Bytes,
          hold_reg_max_no, input_reg_max_no, Regs, Words, Reading, MaxRegs,
          Heads, Items, CAPACITY, RingBytes, NSenders, MsgSize, PoolSize, Data, Lengths

VARIABLES part,
          s_pc, at, table, openFlag, done, handle, installed, irq, loopSet, channels, callbacks,
          active, readable, pending, frames, sent, fault,
          s_DeviceErrorInfo, m_offline_cnt, waiting, read_,
          adc_stat, m_ioc, conv, meas_on, heat_high, ucSensorRunMode, ucADC1RunStus,
          m_ucCalibRecordTimes, m_stuSensorData, due, m_active, m_pc, got, round, pwm, adc, raised, single,
          fADCRHS, cRLPFRatioChangeNum, value, combined, previous, window,
          c_pc, primask, prio, enabled, requested, running, levels, ISER, IP, SHP, LOAD, TICKINT,
          b_param, readerIndex_, writerIndex_, data,
          message, noise, passed, crc, calculated, wCRC, unpacked,
          l_pc, r, m_tx_status, m_tx_buf, baud, torn, line, wire,
          f_pc, m_pbuf, size, m_info, served, hold, input, slave, request, before,
          k_next, k_prev, content, beg_index_, end_index_, size_, data_, kept, out,
          msg_queue_head, msg_queue_tail, msg_queue_free, entry, next, body, q_pc, msg, buffer,
          rt, order, q_due

DV == INSTANCE Device WITH pc <- s_pc
ME == INSTANCE MeasureDrive WITH pc <- m_pc, active <- m_active
AF == INSTANCE AdcFilter
BA == INSTANCE BasisProofs WITH pc <- c_pc, pending <- requested, active <- running
LS == INSTANCE LineSetup WITH pc <- l_pc
MF == INSTANCE ModbusFrame WITH pc <- f_pc

\* Every byte by itself, so that every entry of the tables is used; and two messages.
CR == INSTANCE Crc16
        WITH sent <- passed,
             Cases <- [message : {<<b>> : b \in 0 .. 255}, noisy : {FALSE}] \cup
                      [message : {<<17, 6, 0, 1, 0, 3>>, <<1, 3, 255>>}, noisy : {TRUE}]

ASSUME DV!StartUpAssumption /\ AF!AdcFilterAssumption /\ BA!VectorsAssumption
ASSUME BA!EB!EventBufferAssumption /\ CR!Crc16Assumption /\ LS!LineSetupAssumption
ASSUME MF!ModbusFrameAssumption /\ BA!LL!LinkedListAssumption /\ BA!RB!RingBufferAssumption
ASSUME BA!MQ!MessageQueueAssumption /\ ME!MeasureDriveAssumption

startvars   == <<s_pc, at, table, openFlag, done, handle, installed, irq, loopSet, channels,
                 callbacks, active, readable, pending, frames, sent, fault,
                 s_DeviceErrorInfo, m_offline_cnt, waiting, read_>>
measurevars == <<adc_stat, m_ioc, conv, meas_on, heat_high, ucSensorRunMode, ucADC1RunStus,
                 m_ucCalibRecordTimes, m_stuSensorData, due, m_active, m_pc, got, round, pwm,
                 adc, raised, single>>
filtervars  == <<fADCRHS, cRLPFRatioChangeNum, value, combined, previous, window>>
corevars    == <<c_pc, primask, prio, enabled, requested, running, levels, ISER, IP,
                 SHP, LOAD, TICKINT>>
datavars    == <<b_param, readerIndex_, writerIndex_, data>>
crcvars     == <<message, noise, passed, crc, calculated, wCRC, unpacked>>
linevars    == <<l_pc, r, m_tx_status, m_tx_buf, baud, torn, line, wire>>
framevars   == <<f_pc, m_pbuf, size, m_info, served, hold, input, slave, request, before>>
listvars    == <<k_next, k_prev, content>>
ringvars    == <<beg_index_, end_index_, size_, data_, kept, out>>
mailvars    == <<msg_queue_head, msg_queue_tail, msg_queue_free, entry, next, body, q_pc, msg,
                 buffer, rt, order, q_due>>

MCInit ==
    /\ part \in {"loop", "start", "measure", "filter", "core", "data", "crc", "line", "frame",
                "list", "ring", "mail"}
    /\ CR!Init   /\ (part # "crc"  => message = <<0>>)
    /\ BA!EB!Init   /\ (part # "data" => b_param["slot"][0] = 0)
    /\ LS!LineInit /\ (part # "line" => r = CHOOSE g \in LS!Resets : TRUE)
    /\ Init /\ DV!DeviceInit /\ ME!DriveInit /\ AF!Init /\ BA!VectorsInit
    /\ MF!Init /\ BA!LL!Init /\ BA!RB!Init /\ BA!MQ!Init

MCNext ==
    /\ UNCHANGED part
    /\ \/ part = "loop"    /\ Next
       \/ part = "start"   /\ DV!DeviceNext
       \/ part = "measure" /\ ME!DriveNext
       \/ part = "filter"  /\ AF!Next
       \/ part = "core"    /\ BA!VectorsNext
       \/ part = "data"    /\ BA!EB!Next
       \/ part = "crc"     /\ CR!Next
       \/ part = "line"    /\ LS!LineNext
       \/ part = "frame"   /\ MF!Next
       \/ part = "list"    /\ BA!LL!Next
       \/ part = "ring"    /\ BA!RB!Next
       \/ part = "mail"    /\ BA!MQ!Next
    /\ part # "loop"    => UNCHANGED vars
    /\ part # "start"   => UNCHANGED startvars
    /\ part # "measure" => UNCHANGED measurevars
    /\ part # "filter"  => UNCHANGED filtervars
    /\ part # "core"    => UNCHANGED corevars
    /\ part # "data"    => UNCHANGED datavars
    /\ part # "crc"     => UNCHANGED crcvars
    /\ part # "line"    => UNCHANGED linevars
    /\ part # "frame"   => UNCHANGED framevars
    /\ part # "list"    => UNCHANGED listvars
    /\ part # "ring"    => UNCHANGED ringvars
    /\ part # "mail"    => UNCHANGED mailvars

mcvars == <<part, vars, startvars, measurevars, filtervars, corevars, datavars,
            crcvars, linevars, framevars, listvars, ringvars, mailvars>>

(* The fairness of each part, while it is the one that runs.               *)
MCSpec ==
    /\ MCInit /\ [][MCNext]_mcvars
    /\ WF_vars(part = "loop" /\ Foreground)
    /\ WF_startvars(part = "start" /\ DV!DeviceForeground)
    /\ WF_startvars(part = "start" /\ DV!DevicePendSV)
    /\ WF_measurevars(part = "measure" /\ ME!Convert)
    /\ WF_measurevars(part = "measure" /\ ME!DmaDone)
    /\ WF_measurevars(part = "measure" /\ ME!DriveForeground)

\* The registers of the serial line are set, whatever the baud rate, so that lines leave whole.
LineSound == part = "line" => LS!LineTypeOK /\ LS!LineSet /\ LS!LineLeaves

(* A frame's check sum is that of Modbus, damage to it is seen, and a      *)
(* reply that is built over its request answers it.  Of the filters the    *)
(* sum is the trimmed one, and the low-pass does not overshoot.  The       *)
(* registers of the serial line are set, whatever the baud rate, so that   *)
(* lines leave whole; and the devices keep their types.                    *)
DevicesSound ==
    /\ part = "start" => DV!DeviceTypeOK
    /\ LineSound
    /\ part = "crc"   => CR!TypeOK /\ CR!IsReference /\ CR!DamageSeen
    /\ part = "frame" => MF!TypeOK /\ MF!RepliesAnswer
    /\ part = "filter" => AF!TypeOK /\ AF!IsTrimmed /\ AF!NoOvershoot

(* The devices, from reset on: requests are never left lying, PendSV never *)
(* waits for one, no device counts the timeouts of another, what a channel *)
(* reads fits its buffer, and the calls that the program makes are served. *)
RequestsServed ==
    part = "start" => /\ DV!QuietServed /\ DV!NeverWaits /\ DV!OwnErrors
                      /\ DV!ReadsFit /\ DV!CallsServed

(* The invariants of the data: an event keeps what it carries, and lists,  *)
(* ring and message queue hand on what they were given, in order.          *)
PoolSound ==
    /\ part = "data" => BA!EB!TypeOK /\ BA!EB!DataKept
    /\ part = "list" => BA!LL!TypeOK /\ BA!LL!ListsHold
    /\ part = "ring" => BA!RB!TypeOK /\ BA!RB!InOrder
    /\ part = "mail" => BA!MQ!TypeOK /\ BA!MQ!QueueKeeps

(* The invariants of preemption: the contexts are what the atomic steps of *)
(* all the other modules take them to be, and what is enabled is handled.  *)
PreemptionSound == BA!VectorsTypeOK /\ BA!PreemptionSound /\ BA!Handled

(* The invariants of the measurement: samples are clean and of one round,  *)
(* the pins are as the handlers take them to be, and every value was       *)
(* converted as its channel asks.                                          *)
MeasureSound ==
    part = "measure" => ME!DriveTypeOK /\ ME!SamplesSound /\ ME!PinsFollow /\ ME!BlockSound

(* The liveness of the parts: devices are heard, a self-calibration ends,  *)
(* and before the first one the measurement goes on.                       *)
Heard           == DV!Heard
CalibrationEnds == ME!CalibrationEnds
KeepsMeasuring  == part = "measure" => ME!KeepsMeasuring
================================================================================
