------------------------------- MODULE MCStorage --------------------------------
(***************************************************************************)
(* The configuration, the transfers it is stored by, its registers as a    *)
(* master sees them and as they lie in memory, for TLC.  part says which   *)
(* of them a behaviour is about; the variables of the others stay as they  *)
(* were.  Transfers come twice: where the stop after a missing acknowledge *)
(* comes with it, and, for one byte, where it may come late, as an         *)
(* interrupt of its own.                                                   *)
(***************************************************************************)
EXTENDS Config, TLC

CONSTANTS N, Vals, MaxFaults,
          Radix, SplitHold1, SplitHold2, SplitHold3, SplitInput1, SplitInput2,
          Readings, Sent, MaxRegNo

Erased == CHOOSE v \in Vals : TRUE

VARIABLES part,
          i_pc, i_access, t, rt, timer, c, bus, stopping, mem, i_page, need, programming,
          faults, nacked, late,
          m_para, data, m_slave, m_info, reply, m_event,
          y_para, y_eeprom, y_pc, y_recover, pos, to, y_crc, shadow, held, whole, writes, y_faults

T == INSTANCE I2cProofs WITH pc <- i_pc, access <- i_access, page <- i_page, StopLate <- FALSE
L == INSTANCE I2cProofs WITH pc <- i_pc, access <- i_access, page <- i_page, StopLate <- TRUE,
                               N <- 1, Vals <- {Erased}

(* Bytes of two values, so that a short has four and a long sixteen.  As   *)
(* with 1 .. 247, there are values below and above the link address.       *)
MB == INSTANCE ModbusProofs WITH para <- m_para, slave <- m_slave, event <- m_event,
        Least <- (0 :> 1) @@ (1 :> 0), Most <- (0 :> 1) @@ (1 :> 1),
        Default <- [c |-> (0 :> 1) @@ (1 :> 0), s |-> (2 :> 0), l |-> (0 :> 0) @@ (1 :> 9)]

(* A byte register, the last short, the halves of a long.                  *)
Y == INSTANCE Layout WITH para <- y_para, eeprom <- y_eeprom, pc <- y_pc, recover <- y_recover,
        crc <- y_crc, faults <- y_faults,
        Regs <- {0, 30, 31, 32}, Words <- {2, 515}, MaxWrites <- 1, MaxFaults <- 1

ASSUME StorageAssumption ==
    T!I2cAssumption /\ L!I2cAssumption /\ MB!ModbusAssumption /\ Y!LayoutAssumption

transfervars == <<i_pc, i_access, t, rt, timer, c, bus, stopping, mem, i_page, need, programming,
                  faults, nacked, late>>
registervars == <<m_para, data, m_slave, m_info, reply, m_event>>
layoutvars   == <<y_para, y_eeprom, y_pc, y_recover, pos, to, y_crc, shadow, held, whole, writes, y_faults>>

AtRest         == Init /\ e_para = Defaults /\ e_chksum = Corrupt
TransferAtRest == T!Init /\ mem = [i \in 1 .. N |-> Erased] /\ t.buf = mem

\* Not looked at in the other parts, and too large to be carried along.
LayoutAside ==
    /\ y_para = <<>> /\ y_eeprom = <<>> /\ y_pc = "run" /\ y_recover = FALSE /\ pos = 0 /\ to = "run"
    /\ y_crc = <<>> /\ shadow = <<>> /\ held = {} /\ whole = FALSE /\ writes = 0 /\ y_faults = 0

MCInit ==
    /\ MB!Init
    /\ \/ part = "config"    /\ Init /\ TransferAtRest /\ LayoutAside
       \/ part = "transfer"  /\ T!Init /\ AtRest /\ LayoutAside
       \/ part = "late"      /\ L!Init /\ AtRest /\ LayoutAside
       \/ part = "registers" /\ TransferAtRest /\ AtRest /\ LayoutAside
       \/ part = "layout"    /\ TransferAtRest /\ AtRest /\ Y!Init

MCNext ==
    /\ UNCHANGED part
    /\ \/ part = "config"    /\ Next    /\ UNCHANGED <<transfervars, registervars, layoutvars>>
       \/ part = "transfer"  /\ T!Next  /\ UNCHANGED <<vars, registervars, layoutvars>>
       \/ part = "late"      /\ L!Next  /\ UNCHANGED <<vars, registervars, layoutvars>>
       \/ part = "registers" /\ MB!Next /\ UNCHANGED <<vars, transfervars, layoutvars>>
       \/ part = "layout"    /\ Y!Next  /\ UNCHANGED <<vars, transfervars, registervars>>

mcvars == <<part, vars, transfervars, registervars, layoutvars>>

(* The fairness of each part, while it is the one that runs.               *)
MCSpec ==
    /\ MCInit /\ [][MCNext]_mcvars
    /\ WF_vars(part = "config" /\ Foreground)
    /\ WF_transfervars(part = "transfer" /\ T!Foreground)
    /\ WF_transfervars(part = "transfer" /\ T!SysTick)
    /\ WF_transfervars(part = "transfer" /\ T!Handler)
    /\ WF_transfervars(part = "late" /\ L!Foreground)
    /\ WF_transfervars(part = "late" /\ L!SysTick)
    /\ WF_transfervars(part = "late" /\ L!Handler)

(* Every access to the configuration comes to an end, and so does every    *)
(* transfer it consists of.                                                *)
AccessesEnd == (part = "config" => AccessEnds) /\ T!TransferEnds

(* What a transfer leaves behind and what it reports, up to a stop that    *)
(* comes late: after one the handler takes a transfer for finished that is *)
(* not, until a timeout has disabled the bus.                              *)
TransferSound ==
    [][/\ part = "late" => L!TypeOK' /\ L!Done /\ L!Front /\ L!NackFails
       /\ part = "transfer" => T!TypeOK' /\ T!Done /\ T!Front /\ T!NackFails]_transfervars

(* Registers keep to their widths and to the ranges of the table.          *)
RangesSound == part = "registers" => MB!TypeOK /\ MB!RangesKept

(* Each has its own bytes in memory and gets them back from the EEPROM,    *)
(* and nothing else is written there.                                      *)
RegistersSound ==
    part = "layout" =>
        Y!TypeOK /\ Y!RegistersApart /\ Y!NeverMixed /\ Y!Recovered /\ Y!NothingBeside

(* They are to a master the array of RegisterBank, and what a request      *)
(* changes it queues to be saved.                                          *)
BankSpec        == MB!BankSpec
ChangesAreSaved == MB!ChangesAreSaved
================================================================================
