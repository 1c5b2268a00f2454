--------------------------------- MODULE Config ---------------------------------
(***************************************************************************)
(* The configuration registers and their copy in the EEPROM: datum_load    *)
(* and datum_save (app/main.cpp), the check sum of model_datum             *)
(* (app/datum.cpp) and the page-wise, retrying access of the storage       *)
(* driver (bsp/driver/storage/drv_storage.cpp).                            *)
(*                                                                         *)
(* At power-up the image is read, verified, and replaced by the defaults   *)
(* if its check sum is wrong.  Later a Modbus write changes the registers  *)
(* in PendSV and queues a save; the foreground computes the check sum and  *)
(* writes the pages from the live image while further writes may come in.  *)
(* Any page transfer may fail and the power may go at any moment.          *)
(*                                                                         *)
(* The registers are cut by EEPROM page: page 0 holds the check sum and    *)
(* the link address, with what else is on that page.  The check sum is the *)
(* content it was computed from: the CRC is taken to be free of collisions.*)
(***************************************************************************)
EXTENDS Naturals, Sequences

CONSTANTS NPages,      \* pages the image takes: seven in this build
          Values,      \* what the registers of a page may hold
          Default,     \* what they hold by default
          MaxEvents    \* saves queued at a time (def_EVENT_NR at the most)

ASSUME ConfigAssumption ==
    /\ NPages \in Nat \ {0} /\ MaxEvents \in Nat
    /\ Default \in Values

Pages    == 0 .. NPages - 1
Last     == NPages - 1
Contents == [Pages -> Values]
Corrupt  == <<>>                   \* a check sum that matches no content
Sums     == Contents \cup {Corrupt}
Retries  == 3                      \* retry_numb

VARIABLES para, chksum,        \* m_stuSensorPara: the live image
          e_para, e_chksum,    \* the EEPROM
          slave,               \* the address the protocol answers to
          m_status,
          events,              \* queued saves, by whether they start at register 0
          pc,                  \* the foreground; "run" in its event loop
          recover,             \* _datum_load: ctrl is RECOVER
          page, retry_numb,    \* the page in transfer, the retries left
          crc,                 \* the values the check sum has taken in
          apply,               \* the save in progress starts at register 0
          failed,              \* history: the last EEPROM access did not succeed
          addressed            \* history: register 0 written, no save given up since

image  == <<para, chksum>>
eeprom == <<e_para, e_chksum>>
access == <<page, retry_numb>>
vars   == <<image, eeprom, slave, m_status, events, pc, recover, access, crc, apply,
            failed, addressed>>

Transfers == {"load", "rewrite", "save"}

TypeOK ==
    /\ para \in Contents /\ chksum \in Sums
    /\ e_para \in Contents /\ e_chksum \in Sums
    /\ slave \in Values
    /\ m_status \in {"OK", "DATUM_FAILED"}
    /\ events \in [BOOLEAN -> 0 .. MaxEvents]
    /\ pc \in Transfers \cup {"verify", "run", "sum"}
    /\ recover \in BOOLEAN /\ apply \in BOOLEAN
    /\ page \in Pages /\ retry_numb \in 0 .. Retries
    /\ crc \in Seq(Values) /\ Len(crc) <= NPages
    /\ failed \in BOOLEAN /\ addressed \in BOOLEAN

\* model_datum::modbus_hold_reg_def_init
Defaults == [p \in Pages |-> Default]

\* A transfer of the whole image begins.
Begin == page' = 0 /\ retry_numb' = Retries /\ failed' = FALSE

(* main and application::init, up to datum_load.  The constructor has set  *)
(* the defaults, and with them the protocol is given its address.          *)
PowerUp ==
    /\ para' = Defaults /\ chksum' = Corrupt
    /\ slave' = Default
    /\ m_status' = "OK"
    /\ events' = [c \in BOOLEAN |-> 0]
    /\ pc' = "load" /\ recover' = TRUE /\ Begin
    /\ crc' = <<>> /\ apply' = FALSE /\ addressed' = FALSE

Init ==
    /\ para = Defaults /\ chksum = Corrupt
    /\ e_para \in Contents /\ e_chksum \in Sums
    /\ slave = Default
    /\ m_status = "OK"
    /\ events = [c \in BOOLEAN |-> 0]
    /\ pc = "load" /\ recover = TRUE /\ page = 0 /\ retry_numb = Retries /\ failed = FALSE
    /\ crc = <<>> /\ apply = FALSE /\ addressed = FALSE

--------------------------------------------------------------------------------
(* One page over I2C, and what _i2c_access and its retry make of it.       *)

\* The bytes that have come through before the transfer broke off.
MayLoad(p) ==
    /\ \E v \in {para[p], e_para[p]} : para' = [para EXCEPT ![p] = v]
    /\ IF p = 0 THEN chksum' \in {chksum, e_chksum, Corrupt} ELSE UNCHANGED chksum

MayStore(p) ==
    /\ \E v \in {para[p], e_para[p]} : e_para' = [e_para EXCEPT ![p] = v]
    /\ IF p = 0 THEN e_chksum' \in {chksum, e_chksum, Corrupt} ELSE UNCHANGED e_chksum

Load(p) ==
    /\ para' = [para EXCEPT ![p] = e_para[p]]
    /\ chksum' = IF p = 0 THEN e_chksum ELSE chksum

Store(p) ==
    /\ e_para' = [e_para EXCEPT ![p] = para[p]]
    /\ e_chksum' = IF p = 0 THEN chksum ELSE e_chksum

\* The page went through and is not the last one.
NextPage == page # Last /\ page' = page + 1 /\ UNCHANGED <<pc, retry_numb, failed>>

\* (mutant) the retries are not counted
TryAgain_for_ever ==
    /\ page # Last
    /\ page' = 0 /\ failed' = FALSE
    /\ UNCHANGED <<pc, retry_numb>>

\* (mutant) one retry too many: the count is tested after it has gone down
TryAgain_once_more ==
    /\ page # Last
    /\ page' = 0 /\ retry_numb' = retry_numb - 1 /\ failed' = FALSE
    /\ UNCHANGED pc

\* The page failed: -1 ends the pass, which is short and done once more.
TryAgain ==
    /\ page # Last /\ retry_numb > 0
    /\ page' = 0 /\ retry_numb' = retry_numb - 1 /\ failed' = FALSE
    /\ UNCHANGED pc

GivesUp == page # Last /\ retry_numb = 0

(* The last page ends a pass that counts as complete, if it failed too:    *)
(* its bytes are taken off numbBytes before they are transferred.          *)
Complete(ok) == page = Last /\ failed' = ~ok /\ page' = 0 /\ retry_numb' = 0

\* The access ends in failure and the foreground is in its loop (again).
Abandon == pc' = "run" /\ failed' = TRUE /\ page' = 0 /\ retry_numb' = 0

--------------------------------------------------------------------------------
(* datum_load, before the event loop and its events exist.                 *)

BootFrame == UNCHANGED <<events, slave, crc, apply, addressed>>

LoadPage ==
    /\ pc = "load" /\ Load(page)
    /\ \/ NextPage
       \/ Complete(TRUE) /\ pc' = "verify"
    /\ UNCHANGED <<eeprom, recover, m_status>> /\ BootFrame

LoadFails ==
    /\ pc = "load" /\ MayLoad(page)
    /\ \/ TryAgain /\ UNCHANGED m_status
       \/ Complete(FALSE) /\ pc' = "verify" /\ UNCHANGED m_status
       \/ GivesUp /\ Abandon /\ m_status' = "DATUM_FAILED"
    /\ UNCHANGED <<eeprom, recover>> /\ BootFrame

\* (mutant) an image with the right link address will do
Verified_address_only == chksum # Corrupt /\ chksum[0] = para[0]

\* storage_param_verify
Verified == chksum = para

\* The image is good.  Only the first look at it makes datum_load a success.
Accept ==
    /\ pc = "verify" /\ Verified
    /\ pc' = "run"
    /\ m_status' = IF recover THEN "OK" ELSE "DATUM_FAILED"
    /\ UNCHANGED <<image, eeprom, recover, access, failed>> /\ BootFrame

\* The image is bad: the defaults instead, which are written once.
FallBack ==
    /\ pc = "verify" /\ ~Verified
    /\ para' = Defaults /\ chksum' = Defaults
    /\ \/ recover /\ pc' = "rewrite" /\ Begin /\ UNCHANGED m_status
       \/ ~recover /\ Abandon /\ m_status' = "DATUM_FAILED"
    /\ UNCHANGED <<eeprom, recover>> /\ BootFrame

\* The defaults are written, then read back to be sure.
ReadBack == page = Last /\ pc' = "load" /\ recover' = FALSE /\ Begin

RewritePage ==
    /\ pc = "rewrite" /\ Store(page)
    /\ \/ NextPage /\ UNCHANGED recover
       \/ ReadBack
    /\ UNCHANGED <<image, m_status>> /\ BootFrame

RewriteFails ==
    /\ pc = "rewrite" /\ MayStore(page)
    /\ \/ TryAgain /\ UNCHANGED <<recover, m_status>>
       \/ ReadBack /\ UNCHANGED m_status
       \/ GivesUp /\ Abandon /\ m_status' = "DATUM_FAILED" /\ UNCHANGED recover
    /\ UNCHANGED image /\ BootFrame

--------------------------------------------------------------------------------
(* Modbus writes, in PendSV.                                               *)

\* (mutant) no save for a request that ends in an exception
WriteRegs_ok_only(from, to, content, start) ==
    /\ pc \in {"run", "sum", "save"}
    /\ from = 0 /\ to > 0 => start
    /\ para' = [p \in Pages |-> IF from <= p /\ p < to THEN content[p] ELSE para[p]]
    /\ events[start] < MaxEvents
    /\ events' = IF to = NPages THEN [events EXCEPT ![start] = @ + 1] ELSE events
    /\ addressed' = (addressed \/ (from = 0 /\ to > 0))
    /\ UNCHANGED <<chksum, eeprom, slave, m_status, pc, recover, access, crc, apply, failed>>

(* The registers accepted before the first one that is refused are written *)
(* and, whatever the reply was, a save is queued.  A request that changes  *)
(* no register may queue one too: one that is refused at once, and one of  *)
(* another function, which finds the last write still in m_info.           *)
WriteRegs(from, to, content, start) ==
    /\ pc \in {"run", "sum", "save"}
    /\ from = 0 /\ to > 0 => start
    /\ para' = [p \in Pages |-> IF from <= p /\ p < to THEN content[p] ELSE para[p]]
    /\ events[start] < MaxEvents
    /\ events' = [events EXCEPT ![start] = @ + 1]
    /\ addressed' = (addressed \/ (from = 0 /\ to > 0))
    /\ UNCHANGED <<chksum, eeprom, slave, m_status, pc, recover, access, crc, apply, failed>>

--------------------------------------------------------------------------------
(* datum_save, in the foreground.                                          *)

SaveFrame == UNCHANGED <<para, m_status, recover>>

SaveBegin(start) ==
    /\ pc = "run" /\ events[start] > 0
    /\ events' = [events EXCEPT ![start] = @ - 1]
    /\ apply' = start
    /\ pc' = "sum"
    /\ UNCHANGED <<chksum, eeprom, slave, access, crc, failed, addressed>> /\ SaveFrame

\* crc16 runs over the image, which may change under it ...
SumPage ==
    /\ pc = "sum" /\ Len(crc) < NPages
    /\ crc' = Append(crc, para[Len(crc)])
    /\ UNCHANGED <<chksum, eeprom, slave, events, pc, access, apply, failed, addressed>>
    /\ SaveFrame

\* ... and the check sum is set.
SumDone ==
    /\ pc = "sum" /\ Len(crc) = NPages
    /\ chksum' = [p \in Pages |-> crc[p + 1]]
    /\ crc' = <<>>
    /\ pc' = "save" /\ Begin
    /\ UNCHANGED <<eeprom, slave, events, apply, addressed>> /\ SaveFrame

\* (mutant) the test of the range the wrong way round
Applied_swapped == IF apply THEN slave ELSE para[0]

\* _def_MODIFY_VALID_IMMEDIATELY: the address the image holds by now.
Applied == IF apply THEN para[0] ELSE slave

\* The save counts as done.
SaveDone(ok) == Complete(ok) /\ pc' = "run" /\ slave' = Applied /\ apply' = FALSE

SavePage ==
    /\ pc = "save" /\ Store(page)
    /\ \/ NextPage /\ UNCHANGED <<slave, apply>>
       \/ SaveDone(TRUE)
    /\ UNCHANGED <<chksum, events, crc, addressed>> /\ SaveFrame

SaveFails ==
    /\ pc = "save" /\ MayStore(page)
    /\ \/ TryAgain /\ UNCHANGED <<slave, apply, addressed>>
       \/ SaveDone(FALSE) /\ UNCHANGED addressed
       \/ GivesUp /\ Abandon /\ apply' = FALSE /\ addressed' = FALSE /\ UNCHANGED slave
    /\ UNCHANGED <<chksum, events, crc>> /\ SaveFrame

--------------------------------------------------------------------------------
\* The power goes, maybe in the middle of a page.
PowerCut ==
    /\ IF pc \in {"rewrite", "save"} THEN MayStore(page) ELSE UNCHANGED eeprom
    /\ PowerUp

Boot == LoadPage \/ LoadFails \/ Accept \/ FallBack \/ RewritePage \/ RewriteFails
Save == \/ \E start \in BOOLEAN : SaveBegin(start)
        \/ SumPage \/ SumDone \/ SavePage \/ SaveFails
Foreground == Boot \/ Save

Next == \/ Foreground
        \/ \E from \in Pages, to \in 0 .. NPages, start \in BOOLEAN :
             \E content \in [from .. to - 1 -> Values] : WriteRegs(from, to, content, start)
        \/ PowerCut

Spec == Init /\ [][Next]_vars

(* main and eventloop::loop go on; I2C transfers end, at the latest by     *)
(* their timeout of 800 ms, well or not.                                   *)
FairSpec == Spec /\ WF_vars(Foreground)

--------------------------------------------------------------------------------
(* Properties.                                                             *)

Idle == events = [c \in BOOLEAN |-> 0]
Quiet == pc = "run" /\ Idle

(* Once the loop has run all the saves, and the last EEPROM access had no  *)
(* error, the EEPROM holds the live image and the check sum of just that:  *)
(* writes that came in under a check sum or between two pages are caught   *)
(* up with by the saves they queued themselves.                            *)
SavedWhenQuiet == Quiet /\ ~failed => e_para = para /\ e_chksum = para

(* A new link address is in force once the loop has run all the saves,     *)
(* whichever of several writes came last and in which order they ran.      *)
AddressApplied == Quiet /\ addressed => slave = para[0]

(* Once the loop has run all the saves, EEPROM and link have caught up     *)
(* with the registers, in whatever order writes, saves and pages came.     *)
CaughtUp == SavedWhenQuiet /\ AddressApplied

(* A boot that reports enum_STAT_OK runs on an image that was meant to be  *)
(* saved, whole, whatever failed on the way: nothing of the defaults, of   *)
(* an earlier pass or of a torn save is left in it.                        *)
BootWhole == [][pc = "verify" /\ pc' = "run" /\ m_status' = "OK" => para' = e_chksum]_vars

(* Neither boot nor save goes on for ever, however the EEPROM fails.       *)
AccessEnds == []<>(pc = "run") \/ []<><<PowerCut>>_vars

(* The inductive invariant behind the first three.  As long as no save is  *)
(* queued, what has been summed, stored or loaded so far agrees with the   *)
(* live image; page is the first page still to be transferred.             *)
SaveSound ==
    Idle =>
      /\ pc = "run" /\ ~failed => e_para = para /\ e_chksum = para
      /\ pc = "sum" => \A p \in Pages : p < Len(crc) => crc[p + 1] = para[p]
      /\ pc = "save" => chksum = para
      /\ pc = "save" => \A p \in Pages : p < page => e_para[p] = para[p]
      /\ pc = "save" /\ page > 0 => e_chksum = para

BootSound ==
    /\ pc \in {"load", "verify", "rewrite"} => Idle /\ ~addressed
    /\ pc = "load" => \A p \in Pages : p < page => para[p] = e_para[p]
    /\ pc = "load" /\ page > 0 => chksum = e_chksum
    /\ pc = "verify" /\ ~failed => para = e_para /\ chksum = e_chksum
    /\ pc \in {"load", "verify"} /\ recover => chksum \in {e_chksum, Corrupt}

AddressSound ==
    /\ addressed => slave = para[0] \/ events[TRUE] > 0 \/ apply
    /\ apply => pc \in {"sum", "save"}
    /\ pc # "sum" => crc = <<>>

IInv == TypeOK /\ SaveSound /\ BootSound /\ AddressSound

(* datum.h:7: register enum_REG_MODBUS_ADDR is the device address.         *)
AddressIsRegister == Quiet /\ m_status = "OK" => slave = para[0]
================================================================================
