--------------------------------- MODULE Layout ---------------------------------
(***************************************************************************)
(* The holding registers as bytes: where SENSOR_PARA has them (datum.h),   *)
(* how hold_reg_operate finds them (datum.cpp), at which addresses of the  *)
(* EEPROM the storage driver puts them (drv_storage.cpp), and what is left *)
(* of them when a save is torn and the device starts again (main.cpp).     *)
(*                                                                         *)
(* Config has the order of these calls with the content of a page as one   *)
(* value and with writes that come in between; here a page is its bytes,   *)
(* the check sum is the real one, and a save runs undisturbed.             *)
(***************************************************************************)
EXTENDS Integers, FiniteSetsExt, SequencesExt, TLC

CONSTANTS Regs,       \* the registers that are written
          Words,      \* with these values
          MaxWrites,  \* bound: writes
          MaxFaults   \* bound: transfers that fail, and restarts in the middle of an access

LayoutAssumption ==
    /\ Regs \subseteq 0 .. 56 /\ Words \subseteq 0 .. 65535 /\ MaxWrites \in Nat /\ MaxFaults \in Nat

VARIABLES para,     \* m_stuSensorPara, by its bytes
          eeprom,   \* the EEPROM, by its bytes
          pc,       \* datum_load and datum_save
          recover,  \* ctrl is RECOVER
          pos,      \* bytes of the access that are done
          to, crc,  \* the check sum, and what follows when it is complete
          shadow,   \* history: what the registers were set to
          held,     \* history: settings the EEPROM may hold
          whole,    \* history: it holds all of the last ones, and no access has failed since
          writes, faults    \* bounds

vars == <<para, eeprom, pc, recover, pos, to, crc, shadow, held, whole, writes, faults>>

--------------------------------------------------------------------------------
(* The structure, as the compiler lays it out.                             *)

ROUND_UP(x, y) == ((x + y - 1) \div y) * y

\* SENSOR_PARA: at which byte each of its fields begins.
chksum         == 0
ucLinkAddr     == chksum + 2
usWashPowerSet == ROUND_UP(ucLinkAddr + 7, 2)
usPValue       == usWashPowerSet + 2 * 3
usPADC         == usPValue + 2 * 4
usRH           == usPADC + 2 * 4
ulHumiADC      == ROUND_UP(usRH + 2 * 13, 4)
SizeOf         == ulHumiADC + 4 * 13

At   == 0 .. SizeOf - 1
Byte == 0 .. 255
Half == 0 .. 65535

\* _def_SPLIT_HOLD_R_INDEX_1 and the two that follow it
Split1 == 7
Split2 == 31
Split3 == 57
Hold   == 0 .. Split3 - 1

Access(first, size) == [first |-> first, size |-> size]

\* (mutant) the shorts are counted from register 0
hold_reg_operate_unshifted(reg) ==
    IF reg < Split1 THEN Access(ucLinkAddr + reg, 1)
    ELSE IF reg < Split2 THEN Access(usWashPowerSet + 2 * reg, 2)
    ELSE Access(ulHumiADC + 4 * ((reg - Split2) \div 2) + 2 * (reg % 2), 2)

\* Which bytes are a register's: an odd one has the upper half of its long.
hold_reg_operate(reg) ==
    IF reg < Split1 THEN Access(ucLinkAddr + reg, 1)
    ELSE IF reg < Split2 THEN Access(usWashPowerSet + 2 * (reg - Split1), 2)
    ELSE Access(ulHumiADC + 4 * ((reg - Split2) \div 2) + 2 * (reg % 2), 2)

modbus_reg_get(p, reg) ==
    LET a == hold_reg_operate(reg)
    IN  p[a.first] + (IF a.size = 2 THEN 256 * p[a.first + 1] ELSE 0)

Put(p, a, value) ==
    IF a.size = 1 THEN [p EXCEPT ![a.first] = value % 256]
    ELSE [p EXCEPT ![a.first] = value % 256, ![a.first + 1] = value \div 256]

t_hold_reg_0_6 == [m_min |-> <<1, 0, 0, 0, 0, 0, 0>>, m_max |-> <<247, 4, 100, 255, 255, 255, 255>>]

Refused(reg, value) ==
    reg < Split1 /\ (value < t_hold_reg_0_6.m_min[reg + 1] \/ value > t_hold_reg_0_6.m_max[reg + 1])

modbus_reg_set(p, reg, value) ==
    IF Refused(reg, value) THEN p ELSE Put(p, hold_reg_operate(reg), value)

\* modbus_hold_reg_def_init
Shorts(first, values) ==
    [i \in DOMAIN values |-> <<Access(first + 2 * (i - 1), 2), values[i]>>]

Defaults ==
    FoldLeft(LAMBDA p, s : Put(p, s[1], s[2]), [k \in At |-> 0],
             <<<<Access(ucLinkAddr, 1), 1>>, <<Access(ucLinkAddr + 1, 1), 2>>>>
             \o Shorts(usPADC, <<1120, 14140, 27000, 39770>>)
             \o Shorts(usPValue, <<1000, 3500, 6000, 8500>>))

Registers(p) == [r \in Hold |-> modbus_reg_get(p, r)]

--------------------------------------------------------------------------------
(* The check sum: of all that follows it, whatever the compiler fills in.  *)

C == INSTANCE Crc16 WITH Cases <- {}, message <- <<>>, noise <- {}, sent <- 0, crc <- 0,
                         calculated <- 0, wCRC <- 0, unpacked <- "no"

\* storage_param_chksum
Sealed(p, sum) == Put(p, Access(chksum, 2), 256 * sum.hi + sum.lo)
Matches(p, sum) == Sealed(p, sum) = p

--------------------------------------------------------------------------------
(* The EEPROM.                                                             *)

\* t_storage_geometry
DevAddr       == 160
BytesPerPage  == 16
PagesPerDev   == 128
capacity      == PagesPerDev * BytesPerPage

\* "magic setup string", from address 0 on, is never written.
Magic       == 18
StorageAddr == ROUND_UP(Magic, 16)

subAddr == StorageAddr + pos

\* (mutant) accesses are not cut at the pages
accessBytes_whole == IF SizeOf - pos > 32 THEN 32 ELSE SizeOf - pos

accessBytes ==
    LET offset == subAddr % BytesPerPage
    IN  IF offset + (SizeOf - pos) > BytesPerPage THEN BytesPerPage - offset ELSE SizeOf - pos

\* The upper bits of the address are in the address of the device.
t_iic_transfer == [m_slaAddr |-> DevAddr + 2 * ((subAddr \div 256) % 8), m_subAddr |-> subAddr % 256]

\* The part of the EEPROM that is looked at, and what it is in when it is new.
Cells  == 0 .. StorageAddr + SizeOf + BytesPerPage - 1
Erased == 255

Addressed == 256 * ((t_iic_transfer.m_slaAddr - DevAddr) \div 2) + t_iic_transfer.m_subAddr

\* Written are the cells of one page, around its end; read are the ones that follow.
Written(i) == Addressed - (Addressed % BytesPerPage) + ((Addressed + i) % BytesPerPage)
Read(i)    == Addressed + i

Chunk     == 0 .. accessBytes - 1
LastChunk == pos + accessBytes = SizeOf

--------------------------------------------------------------------------------
Init ==
    /\ para = Defaults /\ eeprom = [a \in Cells |-> Erased]
    /\ pc = "load" /\ recover = TRUE /\ pos = 0 /\ to = "run" /\ crc = C!Start
    /\ shadow = Registers(Defaults) /\ held = {} /\ whole = FALSE /\ writes = 0 /\ faults = 0

Ends(there) == pc' = there /\ pos' = 0
Goes(there) == IF LastChunk THEN Ends(there) ELSE pc' = pc /\ pos' = pos + accessBytes

LoadChunk ==
    /\ pc = "load" /\ Goes("verify")
    /\ para' = [k \in pos .. pos + accessBytes - 1 |-> eeprom[Read(k - pos)]] @@ para
    /\ crc' = C!Start
    /\ UNCHANGED <<eeprom, recover, to, shadow, held, whole, writes, faults>>

\* crc16, which is cut here where the pages are.  (The CHOOSE has TLC evaluate c once.)
Taken(c, byte) == CHOOSE s \in {C!Step(d, byte) : d \in {c}} : TRUE

Summed == FoldLeft(LAMBDA c, k : IF k < ucLinkAddr THEN c ELSE Taken(c, para[k]), crc,
                   [i \in 1 .. accessBytes |-> pos + i - 1])

Verify ==
    /\ pc = "verify"
    /\ IF ~LastChunk THEN Goes("verify") /\ crc' = Summed /\ UNCHANGED <<para, to, shadow>>
       ELSE /\ IF Matches(para, Summed) THEN Ends("accepted") /\ UNCHANGED <<para, to>>
               ELSE Ends("sum") /\ to' = (IF recover THEN "rewrite" ELSE "run") /\ para' = Defaults
            /\ crc' = C!Start
            /\ shadow' = Registers(para')
    /\ UNCHANGED <<eeprom, recover, held, whole, writes, faults>>

Accepted ==
    /\ pc = "accepted" /\ Ends("run")
    /\ UNCHANGED <<para, eeprom, recover, to, crc, shadow, held, whole, writes, faults>>

Sum ==
    /\ pc = "sum" /\ Goes(to) /\ crc' = Summed
    /\ para' = IF LastChunk THEN Sealed(para, Summed) ELSE para
    /\ held' = IF LastChunk /\ to # "run" THEN held \cup {shadow} ELSE held
    /\ UNCHANGED <<eeprom, recover, to, shadow, whole, writes, faults>>

\* A master writes a register.
WriteRegister ==
    /\ pc = "run" /\ writes < MaxWrites /\ writes' = writes + 1
    /\ \E reg \in Regs, value \in Words :
          /\ para' = modbus_reg_set(para, reg, value)
          /\ shadow' = IF Refused(reg, value) THEN shadow ELSE [shadow EXCEPT ![reg] = value]
    /\ UNCHANGED <<eeprom, pc, recover, pos, to, crc, held, whole, faults>>

SaveBegin ==
    /\ pc = "run" /\ Ends("sum") /\ to' = "save" /\ crc' = C!Start
    /\ UNCHANGED <<para, eeprom, recover, shadow, held, whole, writes, faults>>

\* What was written by default is read once more; what was saved is not.
AfterSave == IF pc = "save" THEN "run" ELSE "load"

SaveChunk ==
    /\ pc \in {"save", "rewrite"} /\ Goes(AfterSave)
    /\ eeprom' = [a \in {Written(i) : i \in Chunk} |->
                    para[pos + Max({i \in Chunk : Written(i) = a})]] @@ eeprom
    /\ held' = IF LastChunk THEN {shadow} ELSE held
    /\ whole' = LastChunk
    /\ recover' = (recover /\ pc = "save")
    /\ UNCHANGED <<para, to, crc, shadow, writes, faults>>

(* A transfer fails: the access is taken for done if it was the last, and  *)
(* else starts over or, after four times, is given up.  The registers are  *)
(* then what they have become, and the program goes on with them.          *)
Fail ==
    /\ pc \in {"load", "save", "rewrite"} /\ faults < MaxFaults /\ faults' = faults + 1
    /\ \/ ~LastChunk /\ pos' = 0 /\ UNCHANGED <<pc, shadow>>
       \/ ~LastChunk /\ Ends("run")
          /\ shadow' = IF pc = "load" THEN Registers(para) ELSE shadow
       \/ LastChunk /\ Ends(IF pc = "load" THEN "verify" ELSE AfterSave) /\ UNCHANGED shadow
    /\ recover' = (recover /\ pc # "rewrite")
    /\ crc' = C!Start /\ whole' = FALSE
    /\ UNCHANGED <<para, eeprom, to, held, writes>>

\* The device starts again, while nothing goes on or in the middle of an access.
Restart ==
    /\ faults' = IF pc = "run" THEN faults ELSE faults + 1
    /\ faults' <= MaxFaults
    /\ Ends("load") /\ recover' = TRUE /\ crc' = C!Start /\ to' = "run"
    /\ para' = Defaults /\ shadow' = Registers(Defaults)
    /\ UNCHANGED <<eeprom, held, whole, writes>>

Next ==
    \/ LoadChunk \/ Verify \/ Accepted \/ Sum \/ WriteRegister \/ SaveBegin \/ SaveChunk \/ Fail
    \/ Restart

Spec == Init /\ [][Next]_vars

--------------------------------------------------------------------------------
TypeOK ==
    /\ para \in [At -> Byte] /\ eeprom \in [Cells -> Byte]
    /\ pc \in {"load", "verify", "accepted", "sum", "run", "save", "rewrite"}
    /\ to \in {"run", "save", "rewrite"} /\ crc \in [hi : Byte, lo : Byte]
    /\ recover \in BOOLEAN /\ pos \in At
    /\ shadow \in [Hold -> Half] /\ held \subseteq [Hold -> Half] /\ whole \in BOOLEAN
    /\ writes \in 0 .. MaxWrites /\ faults \in 0 .. MaxFaults

(* A register reads as what was last written to it: no two of them share a *)
(* byte, and neither the check sum nor what is stored reaches into one.    *)
RegistersApart == pc \notin {"load", "verify"} => Registers(para) = shadow

(* A check sum that matches stands for settings that were saved as they    *)
(* are, never for pages of two of them: a torn save is found out.          *)
NeverMixed == pc = "accepted" => shadow \in held

(* What was saved, page by page and each within its page, is not refused.  *)
Recovered == pc = "sum" /\ to # "save" => ~whole

(* Nothing beside the settings is written, the magic string least of all.  *)
NothingBeside ==
    \A a \in Cells : a \notin StorageAddr .. StorageAddr + SizeOf - 1 => eeprom[a] = Erased
================================================================================
