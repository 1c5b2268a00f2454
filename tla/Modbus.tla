--------------------------------- MODULE Modbus ---------------------------------
(***************************************************************************)
(* The Modbus server: modbus_reply (app/modbus.cpp), the registers of      *)
(* model_datum (app/datum.cpp) and package_event_handler (app/main.cpp).   *)
(*                                                                         *)
(* A request is handled from the first byte to the last in PendSV, which   *)
(* the foreground cannot interrupt; the foreground stores its measurements *)
(* and, after a save, gives the protocol a new address.  The registers lie *)
(* in memory as bytes, shorts and longs, and a long is two registers.      *)
(***************************************************************************)
EXTENDS Naturals, Sequences, FiniteSetsExt, SequencesExt

CONSTANTS Radix,             \* values of a byte
          SplitHold1,        \* _def_SPLIT_HOLD_R_INDEX_1: registers below are bytes,
          SplitHold2,        \* _def_SPLIT_HOLD_R_INDEX_2: below are shorts,
          SplitHold3,        \* _def_SPLIT_HOLD_R_INDEX_3: below are halves of longs
          SplitInput1,       \* _def_SPLIT_INPUT_R_INDEX_1
          SplitInput2,       \* _def_SPLIT_INPUT_R_INDEX_2
          Least, Most,       \* t_hold_reg_0_6: the range of each byte register
          Default,           \* modbus_hold_reg_def_init
          Readings,          \* what the measurement may come to
          Sent,              \* values a master writes
          MaxRegNo           \* registers in a request

H    == Radix * Radix
Byte == 0 .. Radix - 1
Half == 0 .. H - 1
Word == 0 .. H * H - 1

Chars  == 0 .. SplitHold1 - 1
Shorts == SplitHold1 .. SplitHold2 - 1
Longs  == 0 .. (SplitHold3 - SplitHold2) \div 2 - 1
Hold   == 0 .. SplitHold3 - 1
InputShorts == 0 .. SplitInput1 - 1
InputLongs  == 0 .. (SplitInput2 - SplitInput1) \div 2 - 1

SensorPara == [c : [Chars -> Byte], s : [Shorts -> Half], l : [Longs -> Word]]
SensorData == [s : [InputShorts -> Half], l : [InputLongs -> Word]]

\* What the properties take of the constants.
ModbusAssumption ==
    /\ Radix \in Nat \ {0, 1} /\ MaxRegNo \in Nat \ {0}
    /\ SplitHold1 \in Nat /\ SplitHold2 \in Nat /\ SplitHold3 \in Nat
    /\ 0 < SplitHold1 /\ SplitHold1 <= SplitHold2 /\ SplitHold2 <= SplitHold3
    /\ SplitHold2 % 2 = 1 /\ (SplitHold3 - SplitHold2) % 2 = 0
    /\ SplitInput1 \in Nat /\ SplitInput2 \in Nat /\ SplitInput1 <= SplitInput2
    /\ SplitInput1 % 2 = 0 /\ SplitInput2 % 2 = 0
    /\ Least \in [Chars -> Byte] /\ Most \in [Chars -> Byte]
    /\ Default \in SensorPara
    /\ \A r \in Chars : Least[r] <= Default.c[r] /\ Default.c[r] <= Most[r]
    /\ Readings \subseteq Half /\ Sent \subseteq Half

VARIABLES para,      \* m_stuSensorPara, the holding registers
          data,      \* m_stuSensorData, the input registers
          slave,     \* m_modbus.slave
          m_info,    \* the request last parsed, if it was a write
          reply,     \* the last reply, with the registers it is about
          event      \* the save the last request queued

vars == <<para, data, slave, m_info, reply, event>>

None   == <<>>
Ranges == [reg : Hold, reg_no : 0 .. MaxRegNo]

TypeOK ==
    /\ para \in SensorPara /\ data \in SensorData /\ slave \in Byte
    /\ m_info \in Ranges \cup {None} /\ event \in Ranges \cup {None}
    /\ reply.fn \in {"none", "read_hold", "read_input", "write_one", "write_many",
                    "exception", "other"}
    /\ reply.fn \in {"read_hold", "read_input"} =>
         \A i \in DOMAIN reply.data : reply.data[i] \in Half

Init ==
    /\ para = Default
    /\ data = [s |-> [i \in InputShorts |-> 0], l |-> [i \in InputLongs |-> 0]]
    /\ slave = Default.c[0]
    /\ m_info = None /\ event = None
    /\ reply = [fn |-> "none"]

--------------------------------------------------------------------------------
(* model_datum: registers in memory.                                       *)

\* reg_operate on the two halves of a long
High(word) == word \div H
Low(word)  == word % H

\* (mutant) the other half is lost
SetHigh_alone(word, value) == value * H

SetHigh(word, value) == value * H + Low(word)

\* (mutant) the old low half is not masked out
SetLow_unmasked(word, value) == word + value

SetLow(word, value)  == High(word) * H + value

LongOf(reg) == (reg - SplitHold2) \div 2

\* hold_reg_get
hold_reg_get(p, reg) ==
    CASE reg \in Chars  -> p.c[reg]
      [] reg \in Shorts -> p.s[reg]
      [] OTHER -> IF reg % 2 = 1 THEN High(p.l[LongOf(reg)]) ELSE Low(p.l[LongOf(reg)])

\* hold_reg_set, of a value that is not refused
hold_reg_set(p, reg, value) ==
    CASE reg \in Chars  -> [p EXCEPT !.c[reg] = value % Radix]
      [] reg \in Shorts -> [p EXCEPT !.s[reg] = value]
      [] OTHER -> [p EXCEPT !.l[LongOf(reg)] =
                      IF reg % 2 = 1 THEN SetHigh(@, value) ELSE SetLow(@, value)]

\* (mutant) the range of the next register
InRange_next(reg, value) ==
    LET r == IF reg + 1 \in Chars THEN reg + 1 ELSE reg
    IN reg \in Chars => Least[r] <= value /\ value <= Most[r]

\* reg_operate refuses a byte that is out of its range.
InRange(reg, value) == reg \in Chars => Least[reg] <= value /\ value <= Most[reg]

(* input_reg_get: a short is read with the access meant for bytes, so that *)
(* its low byte is all there is.                                           *)
input_reg_get(d, reg) ==
    IF reg \in InputShorts THEN d.s[reg] % Radix
    ELSE LET word == d.l[(reg - SplitInput1) \div 2]
         IN IF reg % 2 = 0 THEN High(word) ELSE Low(word)

--------------------------------------------------------------------------------
(* modbus_reply.                                                           *)

\* (mutant) the number of registers is left as it was at the start
AskedOne_no_number(reg) == [reg |-> reg, reg_no |-> 0]

\* protocol_modbus_rtu::info, for a single write
AskedOne(reg) == [reg |-> reg, reg_no |-> 1]

\* The test of the registers against the number of them, which is strict.
Addressed(reg, reg_no, max_reg_no) == reg + reg_no < max_reg_no

Exception == [fn |-> "exception"]
Refusal(reg, reg_no) == [fn |-> "exception", reg |-> reg, no |-> reg_no]

(* package_event_handler, enum_PROTOCOL_DONE, which follows every reply:   *)
(* if the request last parsed is a write, a save is queued for its range.  *)
Done(info) == m_info' = info /\ event' = info /\ UNCHANGED <<data, slave>>

ReadHold(reg, reg_no) ==
    /\ Done(None)
    /\ \/ /\ Addressed(reg, reg_no, SplitHold3)
          /\ reply' = [fn |-> "read_hold", reg |-> reg,
                       data |-> [i \in 1 .. reg_no |-> hold_reg_get(para, reg + i - 1)]]
       \/ /\ ~Addressed(reg, reg_no, SplitHold3)
          /\ reply' = Exception
    /\ UNCHANGED para

ReadInput(reg, reg_no) ==
    /\ Done(None)
    /\ \/ /\ Addressed(reg, reg_no, SplitInput2)
          /\ reply' = [fn |-> "read_input", reg |-> reg,
                       data |-> [i \in 1 .. reg_no |-> input_reg_get(data, reg + i - 1)]]
       \/ /\ ~Addressed(reg, reg_no, SplitInput2)
          /\ reply' = Exception
    /\ UNCHANGED para

WriteOne(reg, value) ==
    /\ Done(AskedOne(reg))
    /\ \/ /\ Addressed(reg, 1, SplitHold3) /\ InRange(reg, value)
          /\ para' = hold_reg_set(para, reg, value)
          /\ reply' = [fn |-> "write_one", reg |-> reg, data |-> <<value>>]
       \/ /\ ~(Addressed(reg, 1, SplitHold3) /\ InRange(reg, value))
          /\ reply' = Exception
          /\ UNCHANGED para

(* The values of a multiple write are taken from the byte count on, so     *)
(* that each has the low byte of the value before it for its high byte.    *)
Params(byte_count, values) ==
    [i \in DOMAIN values |->
        Radix * (IF i = 1 THEN byte_count ELSE values[i - 1] % Radix) + values[i] \div Radix]

\* How many are written before the first that is refused.
Written(reg, params) ==
    Max({n \in 0 .. Len(params) : \A i \in 1 .. n : InRange(reg + i - 1, params[i])})

\* The registers after the first, the first two, ... of params.
Storing(reg, params) ==
    LET after[n \in 0 .. Len(params)] ==
          IF n = 0 THEN para ELSE hold_reg_set(after[n - 1], reg + n - 1, params[n])
    IN  after

WriteMany(reg, byte_count, values) ==
    LET params == Params(byte_count, values)
        n == Written(reg, params)
        reg_no == Len(values)
    IN /\ Done([reg |-> reg, reg_no |-> reg_no])
       /\ \/ /\ Addressed(reg, reg_no, SplitHold3)
             /\ para' = Storing(reg, params)[n]
             /\ reply' = IF n = reg_no THEN [fn |-> "write_many", reg |-> reg, no |-> reg_no]
                         ELSE Refusal(reg, reg_no)
          \/ /\ ~Addressed(reg, reg_no, SplitHold3)
             /\ reply' = Refusal(reg, reg_no)
             /\ UNCHANGED para

(* Another function: the slave id, or an exception.  m_info stays what it  *)
(* was, so that after a write there is one more save.                      *)
OtherFunction ==
    /\ Done(m_info)
    /\ reply' = [fn |-> "other"]
    /\ UNCHANGED para

\* The foreground: a measurement is stored ...
Measure ==
    /\ data' \in {[data EXCEPT !.s[i] = v] : i \in InputShorts, v \in Readings}
              \cup {[data EXCEPT !.l[i] = v] : i \in InputLongs, v \in Readings}
    /\ UNCHANGED <<para, slave, m_info, reply, event>>

\* ... or a save that took in the link address is done.
SlaveSet == slave' = para.c[0] /\ UNCHANGED <<para, data, m_info, reply, event>>

(* A frame for another address, or damaged, gets no further than unpack,   *)
(* and changes nothing.                                                    *)
Request ==
    \E reg \in Hold :
      \/ \E reg_no \in 0 .. MaxRegNo : ReadHold(reg, reg_no) \/ ReadInput(reg, reg_no)
      \/ \E value \in Sent : WriteOne(reg, value)
      \/ \E byte_count \in Byte, values \in SeqOf(Sent, MaxRegNo) :
           WriteMany(reg, byte_count, values)

Next == Request \/ OtherFunction \/ Measure \/ SlaveSet

Spec == Init /\ [][Next]_vars

--------------------------------------------------------------------------------
(* Properties.                                                             *)

(* The holding registers are an array: what lies where in memory, and the  *)
(* sharing of a long by two of them, does not show.                        *)
Bank == INSTANCE RegisterBank
          WITH Regs <- Hold, Values <- Half,
               bank <- [r \in Hold |-> hold_reg_get(para, r)], reply <- reply
BankSpec == Bank!Spec

(* No sequence of writes gets a value into the link address, the baud rate *)
(* or another byte register that the table excludes: the device stays at   *)
(* an address a master can use, at a baud rate that baud_array has.        *)
RangesKept ==
    /\ \A r \in Chars : Least[r] <= para.c[r] /\ para.c[r] <= Most[r]
    /\ Least[0] <= slave /\ slave <= Most[0]

(* Whatever a request changes, acknowledged or refused half-way, it queues *)
(* a save whose range has it: a new link address is never saved without    *)
(* being applied.                                                          *)
ChangesAreSaved ==
    [][para' # para =>
         \A r \in Hold : hold_reg_get(para, r) # hold_reg_get(para', r) =>
           event' # None /\ event'.reg <= r /\ r < event'.reg + event'.reg_no]_vars
================================================================================
