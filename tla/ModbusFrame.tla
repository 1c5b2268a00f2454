------------------------------ MODULE ModbusFrame ------------------------------
(***************************************************************************)
(* A Modbus frame, byte by byte: protocol_modbus_rtu and modbus_reply      *)
(* (app/modbus.cpp), the registers' way into and out of it                 *)
(* (package_event_handler, app/main.cpp) and device_commu (app/commu.cpp), *)
(* which has the reply built over the request, in the same buffer.         *)
(*                                                                         *)
(* A step here is what reads or writes the buffer at one place, so that    *)
(* what is overwritten before it has been read would show.  Modbus has the *)
(* registers as they lie in memory, and what is saved.                     *)
(***************************************************************************)
EXTENDS Integers, Sequences, FiniteSetsExt, SequencesExt

CONSTANTS hold_reg_max_no, input_reg_max_no,   \* reg_max_no_set
          Regs,                                \* the registers that are asked for
          Words,                               \* and what is written
          Reading,                             \* what is measured
          MaxRegs                              \* bound: registers in a request

Half == 0 .. 65535
Byte == 0 .. 255

ModbusFrameAssumption ==
    /\ hold_reg_max_no \in Nat \ {0} /\ input_reg_max_no \in Nat \ {0}
    /\ Regs \subseteq Half /\ Words \subseteq Half /\ Reading \in Half /\ MaxRegs \in 1 .. 127

VARIABLES pc,        \* in package_recv_handle, which runs in PendSV
          m_pbuf,    \* the buffer: request, then reply
          size,      \* bytes of it that count
          m_info,    \* modbus_rtu_info
          served,    \* registers package_event_handler has been through
          hold, input,
          slave,     \* m_modbus.slave
          request,   \* history: the frame as it came
          before     \* history: the holding registers then

frame == <<m_pbuf, size, request, before>>
vars  == <<pc, m_pbuf, size, m_info, served, hold, input, slave, request, before>>

READ_HOLDING   == 3
READ_INPUT     == 4
WRITE_SINGLE   == 6
WRITE_MULTIPLE == 16
REPORT_SLAVE   == 17
Reads          == {READ_HOLDING, READ_INPUT}
OfRegisters    == Reads \cup {WRITE_SINGLE, WRITE_MULTIPLE}

ILLEGAL_FUNCTION == 1
ILLEGAL_ADDRESS  == 2
BROADCAST        == 0

\* "LMB" and LIBMODBUS_VERSION_STRING
Version == <<76, 77, 66, 109, 111, 100, 98, 117, 115, 45, 49, 46, 48>>

Room == 5 + Len(Version) + 2
At   == 0 .. Room - 1

C == INSTANCE Crc16 WITH Cases <- {}, message <- <<>>, noise <- {}, sent <- 0, crc <- 0,
                         calculated <- 0, wCRC <- 0, unpacked <- "no"

crc16(bytes) == FoldLeft(LAMBDA c, b : C!Step(c, b), C!Start, bytes)

TypeOK ==
    /\ pc \in {"idle", "unpack", "info", "head", "registers", "tail", "illegal", "other",
               "crc", "sent"}
    /\ m_pbuf \in [At -> Byte] /\ size \in 0 .. Room
    /\ m_info \in [function : Byte, reg : Half, reg_no : Half, param : {0, 3, 4, 5, 6}]
    /\ served \in 0 .. MaxRegs
    /\ hold \in [0 .. hold_reg_max_no - 1 -> Half] /\ before \in [DOMAIN hold -> Half]
    /\ input \in [0 .. input_reg_max_no - 1 -> Half] /\ slave \in 1 .. 247

Init ==
    /\ pc = "idle" /\ m_pbuf = [k \in At |-> 0] /\ size = 0 /\ served = 0
    /\ m_info = [function |-> 0, reg |-> 0, reg_no |-> 0, param |-> 0]
    /\ hold = [r \in 0 .. hold_reg_max_no - 1 |-> IF r = 0 THEN 1 ELSE 0] /\ before = hold
    /\ input = [r \in 0 .. input_reg_max_no - 1 |-> 0]
    /\ slave = 1 /\ request = <<>>

Hi(half) == half \div 256
Lo(half) == half % 256
Pair(k)  == 256 * m_pbuf[k] + m_pbuf[k + 1]

\* The first n bytes of the buffer.
Buffered(n) == [k \in 1 .. n |-> m_pbuf[k - 1]]

\* bytes, put into the buffer from k on
Put(k, bytes) == [j \in At |-> IF j \in k .. k + Len(bytes) - 1 THEN bytes[j - k + 1] ELSE m_pbuf[j]]

Sealed(bytes) == bytes \o <<crc16(bytes).hi, crc16(bytes).lo>>

--------------------------------------------------------------------------------
(* The master.                                                             *)

Bodies ==
         {<<f, Hi(r), Lo(r), 0, n>> : f \in Reads, r \in Regs, n \in 0 .. MaxRegs}
    \cup {<<WRITE_SINGLE, Hi(r), Lo(r), Hi(w), Lo(w)>> : r \in Regs, w \in Words}
    \cup UNION {{<<WRITE_MULTIPLE, Hi(r), Lo(r), 0, n, 2 * n>>
                   \o [k \in 1 .. 2 * n |->
                         LET w == ws[(k + 1) \div 2] IN IF k % 2 = 1 THEN Hi(w) ELSE Lo(w)] :
                   r \in Regs, ws \in [1 .. n -> Words]} : n \in 1 .. MaxRegs}
    \cup {<<REPORT_SLAVE>>, <<5, 0, 0, 255, 0>>}

\* A frame for this device, for another or for all of them; a bit of it may flip.
Receive ==
    /\ pc = "idle"
    /\ \E to \in {slave, slave + 1, BROADCAST}, body \in Bodies :
         LET sent == Sealed(<<to>> \o body)
         IN /\ request' = sent /\ size' = Len(sent)
            /\ \/ m_pbuf' = Put(0, sent)
               \/ to = slave /\ m_pbuf' = Put(0, [sent EXCEPT ![2] = IF @ % 2 = 0 THEN @ + 1 ELSE @ - 1])
    /\ pc' = "unpack" /\ before' = hold
    /\ UNCHANGED <<m_info, served, hold, input, slave>>

--------------------------------------------------------------------------------
(* protocol_modbus_rtu and package_event_handler.                          *)

Goes(to)  == pc' = to
NoChange  == UNCHANGED <<hold, input, slave, request, before>>

\* The buffer is one of package_recv_handle's own.
Leaves == m_pbuf' = [k \in At |-> 0] /\ size' = 0 /\ request' = <<>> /\ before' = hold

\* (mutant) the address is not looked at
Accepted_any == Sealed(Buffered(size - 2)) = Buffered(size)

Accepted ==
    /\ m_pbuf[0] \in {slave, BROADCAST}
    /\ Sealed(Buffered(size - 2)) = Buffered(size)

unpack ==
    /\ pc = "unpack"
    /\ IF Accepted THEN Goes("info") /\ UNCHANGED frame ELSE Goes("idle") /\ Leaves
    /\ UNCHANGED <<m_info, served, hold, input, slave>>

(* info: the registers asked for, and where their values are.  Of a single *)
(* write they are the value itself; of a multiple one they start a byte    *)
(* early, at the byte count.  The two bytes of the check sum come off.     *)
info ==
    /\ pc = "info"
    /\ IF m_pbuf[1] \in OfRegisters
       THEN /\ m_info' = [function |-> m_pbuf[1], reg |-> Pair(2),
                          reg_no |-> IF m_pbuf[1] = WRITE_SINGLE THEN 1 ELSE Pair(4),
                          param  |-> IF m_pbuf[1] = WRITE_SINGLE THEN 4 ELSE 6]
            /\ Goes("head")
       ELSE Goes("other") /\ UNCHANGED m_info
    /\ size' = size - 2 /\ served' = 0
    /\ NoChange /\ UNCHANGED m_pbuf

\* The test is strict, so that the last register cannot be reached.
Addressed ==
    m_info.reg + m_info.reg_no <
        (IF m_info.function = READ_INPUT THEN input_reg_max_no ELSE hold_reg_max_no)

\* build_response_basis, and for a read the byte count and where the values go
head ==
    /\ pc = "head"
    /\ IF m_info.function \in Reads
       THEN /\ m_pbuf' = Put(2, <<(2 * m_info.reg_no) % 256>>)
            /\ m_info' = [m_info EXCEPT !.param = 3]
       ELSE UNCHANGED <<m_pbuf, m_info>>
    /\ IF Addressed THEN Goes("registers") ELSE Goes("illegal")
    /\ NoChange /\ UNCHANGED <<size, served>>

Here(k) == m_info.param + 2 * served + k
Reg     == m_info.reg + served

\* (mutant) the low byte goes first
Give_little ==
    LET value == IF m_info.function = READ_HOLDING THEN hold[Reg] ELSE input[Reg]
    IN  m_pbuf' = Put(Here(0), <<Lo(value), Hi(value)>>)

\* A register into the reply, its high byte first (out16).
Give ==
    LET value == IF m_info.function = READ_HOLDING THEN hold[Reg] ELSE input[Reg]
    IN  m_pbuf' = Put(Here(0), <<Hi(value), Lo(value)>>)

\* What hold_reg_set makes of a value: register 0 is the link address.
Taken(value) == Reg = 0 => value \in 1 .. 247

ReadNext ==
    /\ pc = "registers" /\ m_info.function \in Reads /\ served < m_info.reg_no
    /\ Give /\ served' = served + 1
    /\ NoChange /\ UNCHANGED <<pc, size, m_info>>

WriteNext ==
    /\ pc = "registers" /\ m_info.function \notin Reads /\ served < m_info.reg_no
    /\ IF Taken(Pair(Here(0)))
       THEN hold' = [hold EXCEPT ![Reg] = Pair(Here(0))] /\ served' = served + 1 /\ UNCHANGED pc
       ELSE Goes("illegal") /\ UNCHANGED <<hold, served>>
    /\ UNCHANGED <<m_pbuf, size, m_info, input, slave, request, before>>

AllServed ==
    /\ pc = "registers" /\ served = m_info.reg_no
    /\ Goes("tail")
    /\ NoChange /\ UNCHANGED <<m_pbuf, size, m_info, served>>

(* The length of the reply: of a read what has been filled in; a single    *)
(* write goes back as it came, of a multiple one the first six bytes do.   *)
tail ==
    /\ pc = "tail"
    /\ size' = CASE m_info.function \in Reads        -> 3 + 2 * m_info.reg_no
                 [] m_info.function = WRITE_SINGLE   -> size
                 [] m_info.function = WRITE_MULTIPLE -> 6
    /\ Goes("crc")
    /\ NoChange /\ UNCHANGED <<m_pbuf, m_info, served>>

\* response_exception
Exception(function, code) == m_pbuf' = Put(1, <<(function + 128) % 256, code>>) /\ size' = 3

illegal ==
    /\ pc = "illegal" /\ Exception(m_info.function, ILLEGAL_ADDRESS) /\ Goes("crc")
    /\ NoChange /\ UNCHANGED <<m_info, served>>

\* The slave id, with its length behind the function; or no such function.
other ==
    /\ pc = "other"
    /\ \/ /\ m_pbuf[1] = REPORT_SLAVE
          /\ m_pbuf' = Put(2, <<2 + Len(Version), 180, 255>> \o Version)
          /\ size' = 5 + Len(Version)
       \/ m_pbuf[1] # REPORT_SLAVE /\ Exception(m_pbuf[1], ILLEGAL_FUNCTION)
    /\ Goes("crc")
    /\ NoChange /\ UNCHANGED <<m_info, served>>

\* _modbus_rtu_send_msg_pre
send_msg_pre ==
    /\ pc = "crc"
    /\ m_pbuf' = Put(0, Sealed(Buffered(size))) /\ size' = size + 2
    /\ Goes("sent")
    /\ NoChange /\ UNCHANGED <<m_info, served>>

\* The reply goes out, and the protocol is told that it is done.
write ==
    /\ pc = "sent" /\ Goes("idle")
    /\ Leaves /\ served' = 0 /\ UNCHANGED <<m_info, hold, input, slave>>

--------------------------------------------------------------------------------
(* The foreground, while no frame is in hand.                              *)

Measure ==
    /\ pc = "idle"
    /\ input' = [r \in DOMAIN input |-> Reading]
    /\ UNCHANGED <<pc, m_pbuf, size, m_info, served, hold, slave, request, before>>

\* slave_set, when a new link address has been saved
slave_set ==
    /\ pc = "idle" /\ hold[0] \in 0 .. 247 /\ slave' = hold[0]
    /\ UNCHANGED <<pc, m_pbuf, size, m_info, served, hold, input, request, before>>

modbus_reply ==
    \/ info \/ head \/ ReadNext \/ WriteNext \/ AllServed \/ tail
    \/ illegal \/ other \/ send_msg_pre

Next == Receive \/ unpack \/ modbus_reply \/ write \/ Measure \/ slave_set

Spec == Init /\ [][Next]_vars

--------------------------------------------------------------------------------
(* Properties.                                                             *)

\* What the request says, as it came.
Asked(k) == 256 * request[k] + request[k + 1]
Function == request[2]
From     == Asked(3)
Number   == IF Function = WRITE_SINGLE THEN 1 ELSE Asked(5)
Table    == IF Function = READ_INPUT THEN input ELSE hold

Granted ==
    CASE Function \in Reads ->
           /\ size = 5 + 2 * Number /\ m_pbuf[2] = 2 * Number
           /\ \A n \in 1 .. Number : Pair(1 + 2 * n) = Table[From + n - 1]
      [] Function = WRITE_SINGLE ->
           Buffered(size) = request /\ hold = [before EXCEPT ![From] = Asked(5)]
      [] Function = WRITE_MULTIPLE ->
           /\ size = 8 /\ Buffered(6) = SubSeq(request, 1, 6)
           /\ hold = [r \in DOMAIN hold |->
                        IF r \in From .. From + Number - 1 THEN Asked(7 + 2 * (r - From))
                        ELSE before[r]]
      [] OTHER -> Function = REPORT_SLAVE /\ m_pbuf[2] = size - 5

Refused ==
    /\ size = 5 /\ m_pbuf[1] = (Function + 128) % 256
    /\ m_pbuf[2] = IF Function \in OfRegisters THEN ILLEGAL_ADDRESS ELSE ILLEGAL_FUNCTION
    /\ Function \in Reads => From + Number >= Cardinality(DOMAIN Table)
    /\ Function \in Reads \cup {WRITE_SINGLE} => hold = before

(* What is built over the request answers the request as it was: a read    *)
(* has the registers it asked for, an acknowledged write comes back as it  *)
(* was and is in the registers, and the check sum is of what is sent.  A   *)
(* frame that is damaged, or for another, has none.                        *)
RepliesAnswer ==
    /\ pc = "sent" =>
         /\ m_pbuf[0] = request[1]
         /\ Sealed(Buffered(size - 2)) = Buffered(size)
         /\ IF m_pbuf[1] = Function THEN Granted ELSE Refused
    /\ pc \notin {"idle", "unpack"} => request[1] \in {slave, BROADCAST}
================================================================================
