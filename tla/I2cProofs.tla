------------------------------- MODULE I2cProofs -------------------------------
(***************************************************************************)
(* Proofs about I2cTransfer: a transfer that is reported as done was done, *)
(* only a front part of what is written ever gets into the EEPROM, and a   *)
(* missing acknowledge is reported, for accesses of any length, of any     *)
(* bytes, with any number of missing acknowledges, until a stop comes late *)
(* and again when a timeout has disabled the bus.                          *)
(***************************************************************************)
EXTENDS I2cTransfer, SequenceTheorems, TLAPS

--------------------------------------------------------------------------------
(* The inductive invariant, as long as no stop comes late.  A transfer is  *)
(* under way from the start of the bus until the handler has told its end; *)
(* the rest of the time nothing is left over for the next one.             *)

UnderWay == pc = "wait" /\ t.finished = NotYet
Quiet    == bus = "off" /\ c.fifo = <<>> /\ c.sta = {} /\ page = <<>>

\* Bytes of the sub-address that are in the FIFO; data come after them.
Subs == need - t.subAddrCnt

(* What has been sent: the sub-address, then the data in their order, the  *)
(* first of them in the page and the rest in the FIFO; none was lost.      *)
InOrder ==
    /\ Subs \in 0 .. Len(c.fifo)
    /\ \A i \in 1 .. Len(c.fifo) : c.fifo[i] = IF i <= Subs THEN Sub ELSE t.buf[Len(page) + i - Subs]
    /\ t.index = Len(page) + Len(c.fifo) - Subs
    /\ \A i \in 1 .. Len(page) : page[i] = t.buf[i]
    /\ need > 0 => page = <<>>
    /\ t.subAddrCnt > 0 => Len(c.fifo) = Subs

\* What the handler goes by.
Asked ==
    /\ access = WRITE => t.ctrl = (IF t.subAddrCnt = 0 THEN NONE ELSE WRITE) /\ ~c.restart
    /\ access = READ  => /\ t.ctrl = READ /\ page = <<>> /\ t.index = 0 /\ c.ien = "all"
                         /\ t.lock = 1 => c.restart /\ c.count = N
                         /\ t.lock = 0 => ~c.restart
    /\ c.ien # "none"
    /\ c.ien = "noTX" => t.index = N /\ t.subAddrCnt = 0

Sending ==
    /\ InOrder /\ Asked
    /\ c.sta \subseteq {"TXREQ"} /\ ("TXREQ" \in c.sta => Len(c.fifo) <= 1)
    /\ bus = "addrW" => c.sta = {} /\ Len(c.fifo) = 1 /\ page = <<>> /\ c.ien = "all" /\ t.lock = 0
    /\ bus = "write" /\ "TXREQ" \notin c.sta =>
         /\ access = READ  => t.lock = 1 /\ (c.fifo = <<>> => t.subAddrCnt = 0)
         /\ access = WRITE => (c.fifo = <<>> => c.ien = "noTX")

\* Bytes received are those of the EEPROM, the last one perhaps still in rx.
Reading ==
    /\ access = READ /\ c.fifo = <<>> /\ page = <<>> /\ t.ctrl = READ /\ c.ien # "none"
    /\ t.lock = 1 /\ t.subAddrCnt = 0 /\ ~c.restart
    /\ c.sta \subseteq {"RXREQ", "TCOMP"}
    /\ LET got == IF "RXREQ" \in c.sta THEN N - c.count - 1 ELSE N - c.count
       IN  /\ got >= 0
           /\ t.index = IF got = N THEN 0 ELSE got
           /\ \A i \in 1 .. got : t.buf[i] = mem[i]
           /\ "RXREQ" \in c.sta => c.rx = mem[got + 1]

Written == access = WRITE /\ t.buf = mem /\ t.ctrl = NONE /\ t.index = N
           /\ c.sta \subseteq {"TXREQ", "TCOMP"}

\* The bus has stopped, and the handler is still to come.
Ended ==
    /\ "TCOMP" \in c.sta /\ c.fifo = <<>> /\ page = <<>>
    /\ nacked <=> "NACK" \in c.sta
    /\ ~nacked => (Reading /\ c.count = 0) \/ Written

WhileUnderWay ==
    /\ bus \in {"addrW", "write"} => Sending
    /\ bus = "addrR" => Reading /\ c.count = N /\ c.sta = {}
    /\ bus = "read"  => Reading /\ "TCOMP" \notin c.sta
    /\ bus = "off"   => Ended
    /\ nacked        => bus = "off"

\* What has been asked for, when the bus is started.
Prepared == t.finished = NotYet /\ t.ctrl = access /\ t.subAddrCnt > 0

\* What the end of the transfer stands for.
Told ==
    /\ t.finished = Finished => t.buf = mem /\ ~nacked
    /\ t.finished = TIMEOUT  => pc = "left" /\ rt = -1
    /\ pc = "left" => t.finished # NotYet

TransferInv ==
    /\ ~stopping
    /\ IF UnderWay THEN WhileUnderWay ELSE Quiet
    /\ pc = "start" => Prepared
    /\ pc \in {"wait", "left"} => Told

IInv == TypeOK /\ (late \/ TransferInv)

--------------------------------------------------------------------------------
(* Types.                                                                  *)

LEMMA Sizes == ASSUME I2cAssumption PROVE N \in Nat /\ N >= 1 /\ MaxFaults \in Nat
BY DEF I2cAssumption

\* The record and the registers, with one field changed.
LEMMA CtrlSet == ASSUME NEW r \in iic_transfer, NEW x \in {NONE, READ, WRITE}
               PROVE  [r EXCEPT !.ctrl = x] \in iic_transfer
BY DEF iic_transfer

LEMMA CntSet == ASSUME NEW r \in iic_transfer, NEW x \in 0 .. 2
               PROVE  [r EXCEPT !.subAddrCnt = x] \in iic_transfer
BY DEF iic_transfer

LEMMA IndexSet == ASSUME NEW r \in iic_transfer, NEW x \in 0 .. N
               PROVE  [r EXCEPT !.index = x] \in iic_transfer
BY DEF iic_transfer

LEMMA LockSet == ASSUME NEW r \in iic_transfer, NEW x \in {0, 1}
               PROVE  [r EXCEPT !.lock = x] \in iic_transfer
BY DEF iic_transfer

LEMMA FinishedSet == ASSUME NEW r \in iic_transfer, NEW x \in {NotYet, Finished, ABNORMAL, TIMEOUT}
               PROVE  [r EXCEPT !.finished = x] \in iic_transfer
BY DEF iic_transfer

LEMMA BufSet == ASSUME NEW r \in iic_transfer, NEW x \in [Index -> Bytes]
               PROVE  [r EXCEPT !.buf = x] \in iic_transfer
BY DEF iic_transfer

Bits    == {"TXREQ", "RXREQ", "NACK", "TCOMP"}
Sources == {"all", "noTX", "none"}

LEMMA FifoSet == ASSUME NEW r \in controller, NEW x \in Seq(Bytes)
               PROVE  [r EXCEPT !.fifo = x] \in controller
BY DEF controller

LEMMA RestartSet == ASSUME NEW r \in controller, NEW x \in BOOLEAN
               PROVE  [r EXCEPT !.restart = x] \in controller
BY DEF controller

LEMMA CountSet == ASSUME NEW r \in controller, NEW x \in 0 .. N
               PROVE  [r EXCEPT !.count = x] \in controller
BY DEF controller

LEMMA RxSet == ASSUME NEW r \in controller, NEW x \in Bytes
               PROVE  [r EXCEPT !.rx = x] \in controller
BY DEF controller

LEMMA StaSet == ASSUME NEW r \in controller, NEW x \in SUBSET Bits
               PROVE  [r EXCEPT !.sta = x] \in controller
BY DEF controller, Bits

LEMMA IenSet == ASSUME NEW r \in controller, NEW x \in Sources
               PROVE  [r EXCEPT !.ien = x] \in controller
BY DEF controller, Sources

\* The fields by themselves.
LEMMA RecordFields ==
    ASSUME NEW r \in iic_transfer
    PROVE  /\ r.ctrl \in {NONE, READ, WRITE} /\ r.subAddrCnt \in 0 .. 2 /\ r.index \in 0 .. N
           /\ r.lock \in {0, 1} /\ r.finished \in {NotYet, Finished, ABNORMAL, TIMEOUT}
           /\ r.buf \in [Index -> Bytes]
BY DEF iic_transfer

LEMMA RegisterFields ==
    ASSUME NEW r \in controller
    PROVE  /\ r.fifo \in Seq(Bytes) /\ r.restart \in BOOLEAN /\ r.count \in 0 .. N /\ r.rx \in Bytes
           /\ r.sta \subseteq Bits /\ r.ien \in Sources
BY DEF controller, Bits, Sources

LEMMA Empty == <<>> \in Seq(Bytes) /\ Len(<<>>) = 0
OBVIOUS

LEMMA InitType == ASSUME I2cAssumption, Init PROVE TypeOK
<1>1. PICK b \in [Index -> Vals] :
        t = [ctrl |-> NONE, subAddrCnt |-> 0, index |-> 0, lock |-> 0, finished |-> NotYet, buf |-> b]
  BY DEF Init
<1>2. N \in Nat /\ N >= 1 /\ MaxFaults \in Nat
  BY Sizes
<1>3. mem \in [Index -> Vals] /\ 1 \in Index
  BY <1>2 DEF Init, Index
<1>4. (CHOOSE v \in Vals : TRUE) \in Bytes
  <2>1. \E v \in Vals : TRUE
    BY <1>3
  <2>2. QED
    BY <2>1 DEF Bytes
<1>5. t \in iic_transfer
  BY <1>1, <1>2 DEF iic_transfer, Bytes, NONE, NotYet
<1>6. c \in controller /\ Len(c.fifo) <= 2
  BY <1>2, <1>4 DEF Init, controller
<1>7. mem \in [Index -> Bytes] /\ page = <<>> /\ need = 0 /\ faults = MaxFaults
  BY <1>3 DEF Init, Bytes
<1>8. /\ pc = "idle" /\ access = READ /\ rt = 0 /\ timer = "off" /\ bus = "off"
      /\ stopping = FALSE /\ programming = FALSE /\ nacked = FALSE /\ late = FALSE
  BY DEF Init
<1>9. stopping \in BOOLEAN /\ programming \in BOOLEAN /\ nacked \in BOOLEAN /\ late \in BOOLEAN
  BY <1>8
<1>10. QED
  BY <1>2, <1>5, <1>6, <1>7, <1>8, <1>9, Empty DEF TypeOK

\* What goes into the FIFO fits it.
LEMMA PutType ==
    ASSUME NEW fifo \in Seq(Bytes), Len(fifo) <= 2, NEW byte \in Bytes
    PROVE  Put(fifo, byte) \in Seq(Bytes) /\ Len(Put(fifo, byte)) <= 2
BY DEF Put

LEMMA SubSentType ==
    ASSUME NEW r \in iic_transfer, r.subAddrCnt > 0
    PROVE  /\ SubSent(r) \in iic_transfer /\ SubSent(r).subAddrCnt = r.subAddrCnt - 1
           /\ SubSent(r).ctrl = (IF r.subAddrCnt = 1 /\ r.ctrl = WRITE THEN NONE ELSE r.ctrl)
           /\ SubSent(r).index = r.index /\ SubSent(r).lock = r.lock
           /\ SubSent(r).finished = r.finished /\ SubSent(r).buf = r.buf
<1> DEFINE x == r.subAddrCnt - 1
           y == IF r.subAddrCnt = 1 /\ r.ctrl = WRITE THEN NONE ELSE r.ctrl
<1>1. x \in 0 .. 2 /\ y \in {NONE, READ, WRITE}
  BY RecordFields
<1>2. SubSent(r) = [r EXCEPT !.subAddrCnt = x, !.ctrl = y]
  BY DEF SubSent, iic_transfer
<1> HIDE DEF x, y
<1>3. SubSent(r) \in iic_transfer
  <2>1. [r EXCEPT !.subAddrCnt = x] \in iic_transfer
    BY <1>1, CntSet
  <2>2. [[r EXCEPT !.subAddrCnt = x] EXCEPT !.ctrl = y] \in iic_transfer
    BY <1>1, <2>1, CtrlSet
  <2>3. QED
    BY <1>2, <2>2
<1>4. /\ SubSent(r).subAddrCnt = x /\ SubSent(r).ctrl = y /\ SubSent(r).index = r.index
      /\ SubSent(r).lock = r.lock /\ SubSent(r).finished = r.finished /\ SubSent(r).buf = r.buf
  BY <1>2 DEF iic_transfer
<1>5. QED
  BY <1>3, <1>4 DEF x, y

LEMMA ForegroundType == ASSUME I2cAssumption, TypeOK, Foreground \/ SysTick PROVE TypeOK'
<1>1. N \in Nat /\ N >= 1 /\ Sub \in Bytes
  BY Sizes DEF Bytes
<1>2. t \in iic_transfer /\ c \in controller /\ Len(c.fifo) <= 2
  BY DEF TypeOK
<1>3. c.fifo \in Seq(Bytes) /\ t.subAddrCnt \in 0 .. 2 /\ t.buf \in [Index -> Bytes]
  BY <1>2, RecordFields, RegisterFields
<1>4. CASE Setup
  <2>1. PICK cnt \in {1, 2}, b \in IF access' = WRITE THEN [Index -> Vals] ELSE {t.buf} :
           t' = [t EXCEPT !.ctrl = access', !.subAddrCnt = cnt, !.finished = NotYet, !.buf = b]
    BY <1>4 DEF Setup
  <2>2. b \in [Index -> Bytes] /\ access' \in {READ, WRITE} /\ cnt \in 0 .. 2
    BY <1>3, <1>4, <2>1 DEF Setup, Bytes
  <2>3. [t EXCEPT !.ctrl = access'] \in iic_transfer
    BY <1>2, <2>2, CtrlSet
  <2>4. [t EXCEPT !.ctrl = access', !.subAddrCnt = cnt] \in iic_transfer
    BY <2>2, <2>3, CntSet
  <2>5. [t EXCEPT !.ctrl = access', !.subAddrCnt = cnt, !.finished = NotYet] \in iic_transfer
    BY <2>4, FinishedSet
  <2>6. t' \in iic_transfer
    BY <2>1, <2>2, <2>5, BufSet
  <2>7. QED
    BY <1>4, <2>2, <2>6 DEF Setup, TypeOK, eeprom
<1>5. CASE Start
  <2> DEFINE r == [t EXCEPT !.index = 0, !.lock = 0]
             f == IF t.subAddrCnt > 0 THEN Put(c.fifo, Sub) ELSE c.fifo
  <2>1. [t EXCEPT !.index = 0] \in iic_transfer
    BY <1>1, <1>2, IndexSet
  <2>2. r \in iic_transfer /\ r.subAddrCnt = t.subAddrCnt
    <3>1. r \in iic_transfer
      BY <2>1, LockSet
    <3>2. r.subAddrCnt = t.subAddrCnt
      BY <1>2 DEF iic_transfer
    <3>3. QED
      BY <3>1, <3>2
  <2>3. t' \in iic_transfer
    <3> HIDE DEF r
    <3>1. t' = IF t.subAddrCnt > 0 THEN SubSent(r) ELSE r
      BY <1>5 DEF Start, Begun, r
    <3>2. QED
      BY <2>2, <3>1, SubSentType
  <2>4. f \in Seq(Bytes) /\ Len(f) <= 2
    BY <1>1, <1>2, <1>3, PutType
  <2>5. c' = [c EXCEPT !.fifo = f, !.restart = FALSE, !.ien = "all"]
    BY <1>2, <1>5 DEF Start, Started, controller
  <2> HIDE DEF f
  <2>6. c' \in controller /\ c'.fifo = f
    <3>1. [c EXCEPT !.fifo = f] \in controller
      BY <1>2, <2>4, FifoSet
    <3>2. [c EXCEPT !.fifo = f, !.restart = FALSE] \in controller
      BY <3>1, RestartSet
    <3>3. c' \in controller
      BY <2>5, <3>2, IenSet DEF Sources
    <3>4. c'.fifo = f
      BY <1>2, <2>5 DEF controller
    <3>5. QED
      BY <3>3, <3>4
  <2>7. need' \in 0 .. 2 /\ timer' = "running" /\ page' = <<>>
    BY <1>3, <1>5 DEF Start, Armed
  <2>8. stopping' \in BOOLEAN /\ programming' \in BOOLEAN /\ nacked' \in BOOLEAN /\ late' \in BOOLEAN
    BY <1>5 DEF Start, TypeOK
  <2>9. QED
    BY <1>1, <1>5, <2>3, <2>4, <2>6, <2>7, <2>8, Empty DEF Start, TypeOK
<1>6. CASE TimesOut
  <2>1. t' \in iic_transfer
    BY <1>2, <1>6, FinishedSet DEF TimesOut
  <2>2. c' \in controller /\ c'.fifo = <<>>
    <3>1. [c EXCEPT !.ien = "none"] \in controller
      BY <1>2, IenSet DEF Sources
    <3>2. [c EXCEPT !.ien = "none", !.fifo = <<>>] \in controller
      BY <3>1, Empty, FifoSet
    <3>3. [c EXCEPT !.ien = "none", !.fifo = <<>>, !.sta = {}] \in controller
      BY <3>2, StaSet
    <3>4. c'.fifo = <<>>
      BY <1>2, <1>6 DEF TimesOut, controller
    <3>5. QED
      BY <1>6, <3>3, <3>4 DEF TimesOut
  <2>3. stopping' \in BOOLEAN /\ programming' \in BOOLEAN /\ nacked' \in BOOLEAN /\ late' \in BOOLEAN
    BY <1>6 DEF TimesOut, TypeOK
  <2>4. QED
    BY <1>1, <1>6, <2>1, <2>2, <2>3, Empty DEF TimesOut, TypeOK
<1>7. CASE Leaves
  BY <1>7 DEF Leaves, TypeOK, eeprom
<1>8. CASE Returns
  BY <1>8 DEF Returns, Result, TypeOK, eeprom
<1>9. CASE Delay
  BY <1>9 DEF Delay, TypeOK
<1>10. CASE SysTick
  BY <1>10 DEF SysTick, TypeOK, eeprom
<1>11. QED
  BY <1>4, <1>5, <1>6, <1>7, <1>8, <1>9, <1>10 DEF Foreground

\* The record and the registers, as the handler passes them on.
Both == {h \in [t : iic_transfer, c : controller] : Len(h.c.fifo) <= 2}

LEMMA BothIs ==
    /\ \A x \in iic_transfer, y \in controller : Len(y.fifo) <= 2 => [t |-> x, c |-> y] \in Both
    /\ \A h \in Both : h.t \in iic_transfer /\ h.c \in controller /\ Len(h.c.fifo) <= 2
                       /\ h = [t |-> h.t, c |-> h.c]
BY DEF Both

(* What the cases of the handler do to them, field by field.               *)

LEMMA ReceivedIs ==
    ASSUME I2cAssumption, NEW h \in Both
    PROVE  LET r == Received(h).t
           IN  /\ Received(h) \in Both /\ Received(h).c = h.c
               /\ r.buf = [i \in Index |-> IF i = h.t.index + 1 THEN h.c.rx ELSE h.t.buf[i]]
               /\ r.index = (IF h.t.index + 1 >= N THEN 0 ELSE h.t.index + 1)
               /\ r.ctrl = h.t.ctrl /\ r.subAddrCnt = h.t.subAddrCnt /\ r.lock = h.t.lock
               /\ r.finished = h.t.finished
<1> DEFINE b == [i \in Index |-> IF i = h.t.index + 1 THEN h.c.rx ELSE h.t.buf[i]]
           j == IF h.t.index + 1 >= N THEN 0 ELSE h.t.index + 1
           r == [h.t EXCEPT !.buf = b, !.index = j]
<1>1. N \in Nat /\ N >= 1
  BY Sizes
<1>2. h.t \in iic_transfer /\ h.c \in controller /\ Len(h.c.fifo) <= 2 /\ h = [t |-> h.t, c |-> h.c]
  BY BothIs
<1>3. h.t.buf \in [Index -> Bytes] /\ h.t.index \in 0 .. N /\ h.c.rx \in Bytes
  BY <1>2, RecordFields, RegisterFields
<1>4. j \in 0 .. N /\ b \in [Index -> Bytes]
  <2>1. j \in 0 .. N
    BY <1>1, <1>3
  <2>2. b \in [Index -> Bytes]
    BY <1>3
  <2>3. QED
    BY <2>1, <2>2
<1>5. Received(h) = [h EXCEPT !.t = r]
  BY <1>2 DEF Received, Both, iic_transfer
<1>6. r \in iic_transfer
  <2> HIDE DEF b, j
  <2>1. [h.t EXCEPT !.buf = b] \in iic_transfer
    BY <1>2, <1>4, BufSet
  <2>2. QED
    BY <1>4, <2>1, IndexSet
<1>7. /\ r.buf = b /\ r.index = j /\ r.ctrl = h.t.ctrl /\ r.subAddrCnt = h.t.subAddrCnt
      /\ r.lock = h.t.lock /\ r.finished = h.t.finished
  <2> HIDE DEF b, j
  <2>1. QED
    BY <1>2 DEF iic_transfer
<1> HIDE DEF r
<1>8. Received(h) \in Both /\ Received(h).c = h.c /\ Received(h).t = r
  BY <1>5, <1>6 DEF Both
<1>9. QED
  BY <1>7, <1>8

LEMMA NextByteIs ==
    ASSUME I2cAssumption, NEW h \in Both
    PROVE  LET n == NextByte(h)
           IN  /\ n \in Both
               /\ n.c.restart = h.c.restart /\ n.c.count = h.c.count /\ n.c.rx = h.c.rx /\ n.c.sta = h.c.sta
               /\ h.t.index < N =>
                    /\ n.c.fifo = Put(h.c.fifo, h.t.buf[h.t.index + 1]) /\ n.c.ien = h.c.ien
                    /\ n.t.index = h.t.index + 1 /\ n.t.ctrl = h.t.ctrl
                    /\ n.t.subAddrCnt = h.t.subAddrCnt /\ n.t.lock = h.t.lock
                    /\ n.t.finished = h.t.finished /\ n.t.buf = h.t.buf
               /\ h.t.index >= N => n.t = h.t /\ n.c.fifo = h.c.fifo /\ n.c.ien = "noTX"
<1>1. N \in Nat /\ N >= 1
  BY Sizes
<1>2. h.t \in iic_transfer /\ h.c \in controller /\ Len(h.c.fifo) <= 2 /\ h = [t |-> h.t, c |-> h.c]
  BY BothIs
<1>3. h.t.buf \in [Index -> Bytes] /\ h.t.index \in 0 .. N /\ h.c.fifo \in Seq(Bytes)
  BY <1>2, RecordFields, RegisterFields
<1>4. CASE h.t.index < N
  <2> DEFINE f == Put(h.c.fifo, h.t.buf[h.t.index + 1])
             x == [h.t EXCEPT !.index = h.t.index + 1]
             y == [h.c EXCEPT !.fifo = f]
  <2>1. h.t.index + 1 \in 0 .. N /\ h.t.buf[h.t.index + 1] \in Bytes
    BY <1>1, <1>3, <1>4 DEF Index
  <2>2. f \in Seq(Bytes) /\ Len(f) <= 2
    BY <1>2, <1>3, <2>1, PutType
  <2>3. NextByte(h) = [h EXCEPT !.t = x, !.c = y]
    BY <1>2, <1>4 DEF NextByte, Both, iic_transfer, controller
  <2>4. x \in iic_transfer
    BY <1>2, <2>1, IndexSet
  <2>5. /\ x.index = h.t.index + 1 /\ x.ctrl = h.t.ctrl
        /\ x.subAddrCnt = h.t.subAddrCnt /\ x.lock = h.t.lock
        /\ x.finished = h.t.finished /\ x.buf = h.t.buf
    BY <1>2 DEF iic_transfer
  <2> HIDE DEF f
  <2>6. y \in controller
    BY <1>2, <2>2, FifoSet
  <2>7. /\ y.fifo = f /\ y.restart = h.c.restart /\ y.count = h.c.count /\ y.rx = h.c.rx
        /\ y.sta = h.c.sta /\ y.ien = h.c.ien
    BY <1>2 DEF controller
  <2> HIDE DEF x, y
  <2>8. NextByte(h).t = x /\ NextByte(h).c = y /\ NextByte(h) = [t |-> x, c |-> y]
    BY <1>2, <2>3
  <2>9. NextByte(h) \in Both
    BY <2>2, <2>4, <2>6, <2>7, <2>8, BothIs
  <2>10. QED
    BY <1>1, <1>3, <1>4, <2>5, <2>7, <2>8, <2>9 DEF f
<1>5. CASE ~(h.t.index < N)
  <2> DEFINE y == [h.c EXCEPT !.ien = "noTX"]
  <2>1. NextByte(h) = [h EXCEPT !.c = y]
    BY <1>2, <1>5 DEF NextByte, Both
  <2>2. y \in controller
    BY <1>2, IenSet DEF Sources
  <2>3. /\ y.fifo = h.c.fifo /\ y.restart = h.c.restart /\ y.count = h.c.count /\ y.rx = h.c.rx
        /\ y.sta = h.c.sta /\ y.ien = "noTX"
    BY <1>2 DEF controller
  <2> HIDE DEF y
  <2>4. NextByte(h).t = h.t /\ NextByte(h).c = y /\ NextByte(h) = [t |-> h.t, c |-> y]
    BY <1>2, <2>1
  <2>5. NextByte(h) \in Both
    BY <1>2, <2>2, <2>3, <2>4, BothIs
  <2>6. QED
    BY <1>1, <1>3, <1>5, <2>3, <2>4, <2>5
<1>6. QED
  BY <1>4, <1>5

\* A byte of the sub-address is put and counted.
SubAnswer(h) == [h EXCEPT !.c.fifo = Put(@, Sub), !.t = SubSent(@)]

LEMMA SubPut ==
    ASSUME NEW h \in Both, h.t.subAddrCnt > 0
    PROVE  LET n == SubAnswer(h)
           IN  /\ n \in Both /\ n.t = SubSent(h.t) /\ n.c.fifo = Put(h.c.fifo, Sub)
               /\ n.c.restart = h.c.restart /\ n.c.count = h.c.count /\ n.c.rx = h.c.rx
               /\ n.c.sta = h.c.sta /\ n.c.ien = h.c.ien
<1> DEFINE f == Put(h.c.fifo, Sub)
           y == [h.c EXCEPT !.fifo = f]
<1>1. h.t \in iic_transfer /\ h.c \in controller /\ Len(h.c.fifo) <= 2 /\ h = [t |-> h.t, c |-> h.c]
  BY BothIs
<1>2. Sub \in Bytes /\ h.c.fifo \in Seq(Bytes)
  BY <1>1, RegisterFields DEF Bytes
<1>3. f \in Seq(Bytes) /\ Len(f) <= 2
  BY <1>1, <1>2, PutType
<1>4. SubAnswer(h) = [h EXCEPT !.c = y, !.t = SubSent(h.t)]
  BY <1>1 DEF SubAnswer, controller
<1> HIDE DEF f
<1>5. y \in controller
  BY <1>1, <1>3, FifoSet
<1>6. /\ y.fifo = f /\ y.restart = h.c.restart /\ y.count = h.c.count /\ y.rx = h.c.rx
      /\ y.sta = h.c.sta /\ y.ien = h.c.ien
  BY <1>1 DEF controller
<1> HIDE DEF y
<1>7. SubAnswer(h) = [t |-> SubSent(h.t), c |-> y] /\ SubAnswer(h).t = SubSent(h.t) /\ SubAnswer(h).c = y
  BY <1>1, <1>4
<1>8. SubSent(h.t) \in iic_transfer
  BY <1>1, SubSentType
<1>9. SubAnswer(h) \in Both
  BY <1>3, <1>5, <1>6, <1>7, <1>8, BothIs
<1>10. QED
  BY <1>6, <1>7, <1>9 DEF f

\* A read turns the bus round first.
LEMMA Turned ==
    ASSUME I2cAssumption, NEW y \in controller
    PROVE  LET z == [y EXCEPT !.restart = TRUE, !.count = N]
           IN  /\ z \in controller /\ z.restart /\ z.count = N
               /\ z.fifo = y.fifo /\ z.rx = y.rx /\ z.sta = y.sta /\ z.ien = y.ien
<1>1. N \in 0 .. N
  BY Sizes
<1>2. [y EXCEPT !.restart = TRUE] \in controller
  BY RestartSet
<1>3. [y EXCEPT !.restart = TRUE, !.count = N] \in controller
  BY <1>1, <1>2, CountSet
<1>4. QED
  BY <1>3 DEF controller

\* What a request is answered with.
Answer(h, n) ==
    /\ n \in Both
    /\ h.t.ctrl = NONE => n = NextByte(h)
    /\ h.t.ctrl = WRITE /\ h.t.subAddrCnt = 0 => n = h
    /\ h.t.ctrl = WRITE /\ h.t.subAddrCnt > 0 =>
         /\ n.t = SubSent(h.t) /\ n.c.fifo = Put(h.c.fifo, Sub)
         /\ n.c.restart = h.c.restart /\ n.c.count = h.c.count
    /\ h.t.ctrl = READ =>
         /\ n.t.lock = 1 /\ n.t.ctrl = READ /\ n.t.index = h.t.index
         /\ n.t.finished = h.t.finished /\ n.t.buf = h.t.buf
         /\ n.t.subAddrCnt = (IF h.t.subAddrCnt > 0 THEN h.t.subAddrCnt - 1 ELSE 0)
         /\ n.c.fifo = (IF h.t.subAddrCnt > 0 THEN Put(h.c.fifo, Sub) ELSE h.c.fifo)
         /\ h.t.lock = 0 => n.c.restart /\ n.c.count = N
         /\ h.t.lock # 0 => n.c.restart = h.c.restart /\ n.c.count = h.c.count
    /\ h.t.ctrl # NONE => n.c.rx = h.c.rx /\ n.c.sta = h.c.sta /\ n.c.ien = h.c.ien

LEMMA RequestedIs == ASSUME I2cAssumption, NEW h \in Both PROVE Answer(h, Requested(h))
<1> DEFINE r == IF h.t.lock = 0 /\ h.t.ctrl = READ
                THEN [h EXCEPT !.c.restart = TRUE, !.c.count = N, !.t.lock = 1] ELSE h
           n == Requested(h)
<1>1. NONE # READ /\ NONE # WRITE /\ READ # WRITE
  BY DEF NONE, READ, WRITE
<1>2. h.t \in iic_transfer /\ h.c \in controller /\ Len(h.c.fifo) <= 2 /\ h = [t |-> h.t, c |-> h.c]
  BY BothIs
<1>3. h.t.ctrl \in {NONE, READ, WRITE} /\ h.t.subAddrCnt \in 0 .. 2 /\ h.t.lock \in {0, 1}
  BY <1>2, RecordFields
<1>4. n = IF r.t.ctrl = NONE THEN NextByte(r)
          ELSE IF r.t.subAddrCnt > 0 THEN [r EXCEPT !.c.fifo = Put(@, Sub), !.t = SubSent(@)]
          ELSE r
  BY DEF Requested
<1>5. ~(h.t.lock = 0 /\ h.t.ctrl = READ) => r = h
  OBVIOUS
<1>6. /\ r \in Both
      /\ r.t.ctrl = h.t.ctrl /\ r.t.subAddrCnt = h.t.subAddrCnt /\ r.t.index = h.t.index
      /\ r.t.finished = h.t.finished /\ r.t.buf = h.t.buf
      /\ h.t.ctrl = READ => r.t.lock = 1
      /\ r.c.fifo = h.c.fifo /\ r.c.rx = h.c.rx /\ r.c.sta = h.c.sta /\ r.c.ien = h.c.ien
      /\ h.t.ctrl = READ /\ h.t.lock = 0 => r.c.restart /\ r.c.count = N
  <2>1. CASE h.t.lock = 0 /\ h.t.ctrl = READ
    <3> DEFINE x == [h.t EXCEPT !.lock = 1]
               y == [h.c EXCEPT !.restart = TRUE, !.count = N]
    <3>1. r = [t |-> x, c |-> y] /\ r.t = x /\ r.c = y
      BY <1>2, <2>1 DEF iic_transfer, controller
    <3>2. x \in iic_transfer
      BY <1>2, LockSet
    <3>3. /\ x.ctrl = h.t.ctrl /\ x.subAddrCnt = h.t.subAddrCnt /\ x.index = h.t.index
          /\ x.finished = h.t.finished /\ x.buf = h.t.buf /\ x.lock = 1
      BY <1>2 DEF iic_transfer
    <3>4. /\ y \in controller /\ y.restart /\ y.count = N
          /\ y.fifo = h.c.fifo /\ y.rx = h.c.rx /\ y.sta = h.c.sta /\ y.ien = h.c.ien
      BY <1>2, Turned
    <3> HIDE DEF x, y, r
    <3>5. r \in Both
      BY <1>2, <3>1, <3>2, <3>4, BothIs
    <3>6. QED
      BY <3>1, <3>3, <3>4, <3>5
  <2>2. CASE ~(h.t.lock = 0 /\ h.t.ctrl = READ)
    <3> HIDE DEF r
    <3>1. QED
      BY <1>3, <1>5, <2>2
  <2>3. QED
    BY <2>1, <2>2
<1> HIDE DEF r
<1>7. CASE h.t.ctrl = NONE
  <2>1. n = NextByte(h)
    BY <1>1, <1>4, <1>5, <1>7
  <2>2. n \in Both
    BY <2>1, NextByteIs
  <2> HIDE DEF n
  <2>3. Answer(h, n)
    BY <1>1, <1>7, <2>1, <2>2 DEF Answer
  <2>4. QED
    BY <2>3 DEF n
<1>8. CASE h.t.ctrl # NONE /\ h.t.subAddrCnt = 0
  <2>1. n = r
    BY <1>4, <1>6, <1>8
  <2> HIDE DEF n
  <2>2. CASE h.t.ctrl = READ
    <3>1. h.t.lock # 0 => r.c.restart = h.c.restart /\ r.c.count = h.c.count
      BY <1>5
    <3>2. Answer(h, n)
      BY <1>1, <1>6, <1>8, <2>1, <2>2, <3>1 DEF Answer
    <3>3. QED
      BY <3>2 DEF n
  <2>3. CASE h.t.ctrl # READ
    <3>1. Answer(h, n)
      BY <1>1, <1>5, <1>8, <2>1, <2>3 DEF Answer
    <3>2. QED
      BY <3>1 DEF n
  <2>4. QED
    BY <2>2, <2>3
<1>9. CASE h.t.ctrl # NONE /\ h.t.subAddrCnt > 0
  <2>1. n = SubAnswer(r)
    BY <1>4, <1>6, <1>9 DEF SubAnswer
  <2> HIDE DEF n
  <2>2. r.t \in iic_transfer /\ r.c \in controller /\ Len(r.c.fifo) <= 2 /\ r = [t |-> r.t, c |-> r.c]
    BY <1>6, BothIs
  <2>3. /\ n \in Both /\ n.t = SubSent(r.t) /\ n.c.fifo = Put(r.c.fifo, Sub)
        /\ n.c.restart = r.c.restart /\ n.c.count = r.c.count /\ n.c.rx = r.c.rx
        /\ n.c.sta = r.c.sta /\ n.c.ien = r.c.ien
    BY <1>6, <1>9, <2>1, <2>2, SubPut
  <2>4. /\ SubSent(r.t).subAddrCnt = r.t.subAddrCnt - 1
        /\ SubSent(r.t).ctrl = (IF r.t.subAddrCnt = 1 /\ r.t.ctrl = WRITE THEN NONE ELSE r.t.ctrl)
        /\ SubSent(r.t).index = r.t.index /\ SubSent(r.t).lock = r.t.lock
        /\ SubSent(r.t).finished = r.t.finished /\ SubSent(r.t).buf = r.t.buf
    BY <1>6, <1>9, <2>2, SubSentType
  <2>5. CASE h.t.ctrl = READ
    <3>1. h.t.lock # 0 => r.c.restart = h.c.restart /\ r.c.count = h.c.count
      BY <1>5
    <3>2. Answer(h, n)
      BY <1>1, <1>6, <1>9, <2>3, <2>4, <2>5, <3>1 DEF Answer
    <3>3. QED
      BY <3>2 DEF n
  <2>6. CASE h.t.ctrl = WRITE
    <3>1. Answer(h, n)
      BY <1>1, <1>5, <1>9, <2>3, <2>6 DEF Answer
    <3>2. QED
      BY <3>1 DEF n
  <2>7. QED
    BY <1>3, <1>9, <2>5, <2>6
<1>10. QED
  BY <1>3, <1>7, <1>8, <1>9

LEMMA CompletedIs ==
    ASSUME NEW h \in Both
    PROVE  LET n == Completed(h)
           IN  /\ n \in Both
               /\ n.t.finished = Finished /\ n.t.ctrl = h.t.ctrl /\ n.t.subAddrCnt = h.t.subAddrCnt
               /\ n.t.index = h.t.index /\ n.t.lock = h.t.lock /\ n.t.buf = h.t.buf
               /\ n.c.fifo = h.c.fifo /\ n.c.sta = h.c.sta
<1> DEFINE x == [h.t EXCEPT !.finished = Finished]
           y == [h.c EXCEPT !.ien = "all"]
<1>1. h.t \in iic_transfer /\ h.c \in controller /\ Len(h.c.fifo) <= 2 /\ h = [t |-> h.t, c |-> h.c]
  BY BothIs
<1>2. Completed(h) = [h EXCEPT !.c = y, !.t = x]
  BY <1>1 DEF Completed, Both, iic_transfer, controller
<1>3. /\ x.finished = Finished /\ x.ctrl = h.t.ctrl /\ x.subAddrCnt = h.t.subAddrCnt
      /\ x.index = h.t.index /\ x.lock = h.t.lock /\ x.buf = h.t.buf
  BY <1>1 DEF iic_transfer
<1>4. y.fifo = h.c.fifo /\ y.sta = h.c.sta
  BY <1>1 DEF controller
<1>5. x \in iic_transfer /\ y \in controller
  BY <1>1, FinishedSet, IenSet DEF Sources
<1> HIDE DEF x, y
<1>6. Completed(h) = [t |-> x, c |-> y] /\ Completed(h).t = x /\ Completed(h).c = y
  BY <1>1, <1>2
<1>7. Completed(h) \in Both
  BY <1>1, <1>4, <1>5, <1>6, BothIs
<1>8. QED
  BY <1>3, <1>4, <1>6, <1>7

LEMMA AbnormalIs ==
    ASSUME NEW h \in Both
    PROVE  LET n == [h EXCEPT !.t.finished = ABNORMAL]
           IN  n \in Both /\ n.t.finished = ABNORMAL /\ n.c = h.c
<1> DEFINE x == [h.t EXCEPT !.finished = ABNORMAL]
           n == [h EXCEPT !.t.finished = ABNORMAL]
<1>1. h.t \in iic_transfer /\ h.c \in controller /\ Len(h.c.fifo) <= 2 /\ h = [t |-> h.t, c |-> h.c]
  BY BothIs
<1>2. n = [h EXCEPT !.t = x]
  BY <1>1 DEF iic_transfer
<1>3. x.finished = ABNORMAL
  BY <1>1 DEF iic_transfer
<1>4. x \in iic_transfer
  BY <1>1, FinishedSet
<1> HIDE DEF x, n
<1>5. n = [t |-> x, c |-> h.c] /\ n.t = x /\ n.c = h.c
  BY <1>1, <1>2
<1>6. QED
  BY <1>1, <1>3, <1>4, <1>5, BothIs DEF n

\* What the handler leaves, with the status cleared.
LEMMA HandlerIs ==
    ASSUME I2cAssumption, TypeOK, Handler
    PROVE  LET b == [t |-> t, c |-> c]
               h == Handled(b)
           IN  /\ b \in Both /\ h \in Both
               /\ t' = h.t /\ c' \in controller /\ c'.sta = {}
               /\ c'.fifo = h.c.fifo /\ c'.restart = h.c.restart /\ c'.count = h.c.count
               /\ c'.rx = h.c.rx /\ c'.ien = h.c.ien
<1> DEFINE b == [t |-> t, c |-> c]
           h == Handled(b)
           r == IF "RXREQ" \in b.c.sta THEN Received(b) ELSE b
           w == IF "TXREQ" \in b.c.sta THEN Requested(r) ELSE r
<1>1. b \in Both
  BY BothIs DEF TypeOK
<1>2. r \in Both
  BY <1>1, ReceivedIs
<1>3. w \in Both
  BY <1>2, RequestedIs DEF Answer
<1>4. h = IF "NACK" \in b.c.sta THEN [b EXCEPT !.t.finished = ABNORMAL]
          ELSE IF "TCOMP" \in b.c.sta THEN Completed(w) ELSE w
  BY DEF Handled
<1> HIDE DEF b, w, r
<1>5. h \in Both
  BY <1>1, <1>3, <1>4, AbnormalIs, CompletedIs
<1>6. t' = h.t /\ c' = [h.c EXCEPT !.sta = {}]
  BY DEF Handler, b
<1> HIDE DEF h
<1>7. h.c \in controller
  BY <1>5, BothIs
<1>8. c' \in controller
  BY <1>6, <1>7, StaSet DEF Bits
<1>9. /\ c'.sta = {} /\ c'.fifo = h.c.fifo /\ c'.restart = h.c.restart /\ c'.count = h.c.count
      /\ c'.rx = h.c.rx /\ c'.ien = h.c.ien
  BY <1>6, <1>7 DEF controller
<1>10. QED
  BY <1>1, <1>5, <1>6, <1>8, <1>9 DEF h, b

LEMMA HandlerType == ASSUME I2cAssumption, TypeOK, Handler PROVE TypeOK'
<1> DEFINE h == Handled([t |-> t, c |-> c])
<1>1. h \in Both /\ t' = h.t /\ c' \in controller /\ c'.fifo = h.c.fifo
  BY HandlerIs
<1> HIDE DEF h
<1>2. t' \in iic_transfer /\ Len(c'.fifo) <= 2
  BY <1>1, BothIs
<1>3. QED
  BY <1>1, <1>2 DEF Handler, TypeOK, eeprom

(* What the steps of the controller do to its registers, field by field.   *)

LEMMA NackIs ==
    ASSUME c \in controller, Nack
    PROVE  /\ c' \in controller /\ c'.fifo = <<>> /\ ~c'.restart
           /\ c'.sta = c.sta \cup IF stopping' THEN {"NACK"} ELSE {"NACK", "TCOMP"}
           /\ c'.count = c.count /\ c'.rx = c.rx /\ c'.ien = c.ien
<1> DEFINE s == c.sta \cup IF stopping' THEN {"NACK"} ELSE {"NACK", "TCOMP"}
<1>1. c' = [c EXCEPT !.fifo = <<>>, !.restart = FALSE, !.sta = s]
  BY DEF Nack, Over, controller
<1>2. s \in SUBSET Bits
  BY RegisterFields DEF Bits
<1> HIDE DEF s
<1>3. [c EXCEPT !.fifo = <<>>] \in controller
  BY Empty, FifoSet
<1>4. [c EXCEPT !.fifo = <<>>, !.restart = FALSE] \in controller
  BY <1>3, RestartSet
<1>5. c' \in controller
  BY <1>1, <1>2, <1>4, StaSet
<1>6. /\ c'.fifo = <<>> /\ ~c'.restart /\ c'.sta = s
      /\ c'.count = c.count /\ c'.rx = c.rx /\ c'.ien = c.ien
  BY <1>1 DEF controller
<1>7. QED
  BY <1>5, <1>6 DEF s

\* A bit is set.
LEMMA StatusIs ==
    ASSUME c \in controller, NEW s \in SUBSET Bits, c' = [c EXCEPT !.sta = @ \cup s]
    PROVE  /\ c' \in controller /\ c'.sta = c.sta \cup s
           /\ c'.fifo = c.fifo /\ c'.restart = c.restart
           /\ c'.count = c.count /\ c'.rx = c.rx /\ c'.ien = c.ien
<1>1. c.sta \cup s \in SUBSET Bits
  BY RegisterFields
<1>2. c' = [c EXCEPT !.sta = c.sta \cup s]
  BY DEF controller
<1>3. c' \in controller
  BY <1>1, <1>2, StaSet
<1>4. QED
  BY <1>2, <1>3 DEF controller

LEMMA AddressIs ==
    ASSUME c \in controller, c' = [c EXCEPT !.sta = IF bus = "addrW" THEN @ \cup {"TXREQ"} ELSE @]
    PROVE  /\ c' \in controller
           /\ c'.sta = IF bus = "addrW" THEN c.sta \cup {"TXREQ"} ELSE c.sta
           /\ c'.fifo = c.fifo /\ c'.restart = c.restart
           /\ c'.count = c.count /\ c'.rx = c.rx /\ c'.ien = c.ien
<1> DEFINE s == IF bus = "addrW" THEN c.sta \cup {"TXREQ"} ELSE c.sta
<1>1. s \in SUBSET Bits
  BY RegisterFields DEF Bits
<1>2. c' = [c EXCEPT !.sta = s]
  BY DEF controller
<1> HIDE DEF s
<1>3. c' \in controller
  BY <1>1, <1>2, StaSet
<1>4. /\ c'.sta = s /\ c'.fifo = c.fifo /\ c'.restart = c.restart
      /\ c'.count = c.count /\ c'.rx = c.rx /\ c'.ien = c.ien
  BY <1>2 DEF controller
<1>5. QED
  BY <1>3, <1>4 DEF s

LEMMA ShiftedIs ==
    ASSUME c \in controller, c.fifo # <<>>,
           c' = [c EXCEPT !.fifo = Tail(@), !.sta = @ \cup {"TXREQ"}]
    PROVE  /\ c' \in controller /\ c'.fifo = Tail(c.fifo) /\ c'.sta = c.sta \cup {"TXREQ"}
           /\ c'.restart = c.restart /\ c'.count = c.count /\ c'.rx = c.rx /\ c'.ien = c.ien
<1> DEFINE s == c.sta \cup {"TXREQ"}
           f == Tail(c.fifo)
<1>1. s \in SUBSET Bits /\ c.fifo \in Seq(Bytes)
  BY RegisterFields DEF Bits
<1>2. f \in Seq(Bytes)
  BY <1>1
<1>3. c' = [c EXCEPT !.fifo = f, !.sta = s]
  BY DEF controller
<1> HIDE DEF s, f
<1>4. [c EXCEPT !.fifo = f] \in controller
  BY <1>2, FifoSet
<1>5. c' \in controller
  BY <1>1, <1>3, <1>4, StaSet
<1>6. /\ c'.fifo = f /\ c'.sta = s
      /\ c'.restart = c.restart /\ c'.count = c.count /\ c'.rx = c.rx /\ c'.ien = c.ien
  BY <1>3 DEF controller
<1>7. QED
  BY <1>5, <1>6 DEF f, s

LEMMA TurnedRoundIs ==
    ASSUME c \in controller, c' = [c EXCEPT !.restart = FALSE]
    PROVE  /\ c' \in controller /\ ~c'.restart /\ c'.fifo = c.fifo /\ c'.sta = c.sta
           /\ c'.count = c.count /\ c'.rx = c.rx /\ c'.ien = c.ien
<1>1. c' \in controller
  BY RestartSet
<1>2. QED
  BY <1>1 DEF controller

LEMMA ShiftedInIs ==
    ASSUME I2cAssumption, TypeOK, ShiftIn
    PROVE  /\ c' \in controller /\ c'.rx = mem[N - c.count + 1] /\ c'.count = c.count - 1
           /\ c'.sta = c.sta \cup {"RXREQ"}
           /\ c'.fifo = c.fifo /\ c'.restart = c.restart /\ c'.ien = c.ien
<1> DEFINE s == c.sta \cup {"RXREQ"}
           x == mem[N - c.count + 1]
           n == c.count - 1
<1>1. N \in Nat /\ N >= 1
  BY Sizes
<1>2. c \in controller /\ mem \in [Index -> Bytes] /\ c.count > 0
  BY DEF TypeOK, ShiftIn
<1>3. s \in SUBSET Bits /\ c.count \in 0 .. N
  BY <1>2, RegisterFields DEF Bits
<1>4. x \in Bytes /\ n \in 0 .. N
  BY <1>1, <1>2, <1>3 DEF Index
<1>5. c' = [c EXCEPT !.rx = x, !.count = n, !.sta = s]
  BY <1>2 DEF ShiftIn, controller
<1> HIDE DEF s, x, n
<1>6. [c EXCEPT !.rx = x] \in controller
  BY <1>2, <1>4, RxSet
<1>7. [c EXCEPT !.rx = x, !.count = n] \in controller
  BY <1>4, <1>6, CountSet
<1>8. c' \in controller
  BY <1>3, <1>5, <1>7, StaSet
<1>9. /\ c'.rx = x /\ c'.count = n /\ c'.sta = s
      /\ c'.fifo = c.fifo /\ c'.restart = c.restart /\ c'.ien = c.ien
  BY <1>2, <1>5 DEF controller
<1>10. QED
  BY <1>8, <1>9 DEF x, n, s

LEMMA CommitType ==
    ASSUME I2cAssumption, TypeOK, Commit
    PROVE  mem' \in [Index -> Bytes] /\ page' = <<>> /\ programming' \in BOOLEAN
<1>1. mem \in [Index -> Bytes] /\ page \in Seq(Bytes)
  BY DEF TypeOK
<1>2. mem' \in [Index -> Bytes]
  <2> SUFFICES ASSUME NEW i \in Index PROVE (IF i <= Len(page) THEN page[i] ELSE mem[i]) \in Bytes
    BY DEF Commit
  <2>1. i \in Nat /\ i >= 1
    BY Sizes DEF Index
  <2>2. QED
    BY <1>1, <2>1
<1>3. QED
  BY <1>2 DEF Commit

LEMMA TakenType ==
    ASSUME I2cAssumption, TypeOK, NEW byte \in Bytes
    PROVE  Taken(byte) \in Seq(Bytes) /\ Len(Taken(byte)) <= N
<1>1. N \in Nat /\ N >= 1 /\ page \in Seq(Bytes) /\ Len(page) <= N
  BY Sizes DEF TypeOK
<1>2. CASE Len(page) < N
  BY <1>1, <1>2 DEF Taken
<1>3. CASE ~(Len(page) < N)
  <2>1. 1 \in 1 .. Len(page)
    BY <1>1, <1>3
  <2>2. [page EXCEPT ![1] = byte] \in Seq(Bytes) /\ Len([page EXCEPT ![1] = byte]) = Len(page)
    BY <1>1, <2>1, ExceptSeq
  <2>3. QED
    BY <1>1, <1>3, <2>2 DEF Taken
<1>4. QED
  BY <1>2, <1>3

LEMMA ControllerType == ASSUME I2cAssumption, TypeOK, Controller PROVE TypeOK'
<1>1. N \in Nat /\ N >= 1 /\ MaxFaults \in Nat
  BY Sizes
<1>2. c \in controller /\ Len(c.fifo) <= 2 /\ c.fifo \in Seq(Bytes) /\ StopLate \in BOOLEAN
  BY RegisterFields DEF TypeOK, I2cAssumption
<1>3. Nack => /\ c' \in controller /\ Len(c'.fifo) <= 2 /\ bus' = "off"
              /\ stopping' \in BOOLEAN /\ nacked' \in BOOLEAN /\ late' \in BOOLEAN
  <2> SUFFICES ASSUME Nack PROVE /\ c' \in controller /\ Len(c'.fifo) <= 2 /\ bus' = "off"
                                 /\ stopping' \in BOOLEAN /\ nacked' \in BOOLEAN /\ late' \in BOOLEAN
    OBVIOUS
  <2>1. c' \in controller /\ c'.fifo = <<>>
    BY <1>2, NackIs
  <2>2. late' \in BOOLEAN /\ stopping' \in BOOLEAN
    BY <1>2 DEF Nack, TypeOK
  <2>3. QED
    BY <1>2, <2>1, <2>2, Empty DEF Nack
<1>4. CASE Address
  <2>1. CASE Nack /\ faults' \in 0 .. MaxFaults
    BY <1>1, <1>3, <1>4, <2>1 DEF Address, TypeOK, eeprom
  <2>2. CASE /\ bus' = IF bus = "addrW" THEN "write" ELSE "read"
             /\ c' = [c EXCEPT !.sta = IF bus = "addrW" THEN @ \cup {"TXREQ"} ELSE @]
             /\ UNCHANGED <<stopping, faults, nacked, late>>
    <3>1. c' \in controller /\ c'.fifo = c.fifo
      BY <1>2, <2>2, AddressIs
    <3>2. QED
      BY <1>1, <1>2, <1>4, <2>2, <3>1 DEF Address, TypeOK, eeprom
  <2>3. faults \in 0 .. MaxFaults
    BY DEF TypeOK
  <2>4. QED
    BY <1>1, <1>4, <2>1, <2>2, <2>3 DEF Address
<1>5. CASE ShiftOut
  <2>1. CASE /\ c' = [c EXCEPT !.fifo = Tail(@), !.sta = @ \cup {"TXREQ"}]
             /\ IF need > 0 THEN need' = need - 1 /\ UNCHANGED page
                            ELSE page' = Taken(Head(c.fifo)) /\ UNCHANGED need
             /\ UNCHANGED <<bus, stopping, mem, programming, faults, nacked, late>>
    <3>1. c.fifo # <<>>
      BY <1>5 DEF ShiftOut
    <3>2. c' \in controller /\ c'.fifo = Tail(c.fifo)
      BY <1>2, <2>1, <3>1, ShiftedIs
    <3>3. Len(c'.fifo) <= 2 /\ Head(c.fifo) \in Bytes
      BY <1>2, <3>1, <3>2
    <3>4. need' \in 0 .. 2 /\ page' \in Seq(Bytes) /\ Len(page') <= N
      BY <2>1, <3>3, TakenType DEF TypeOK
    <3>5. QED
      BY <1>5, <2>1, <3>2, <3>3, <3>4 DEF ShiftOut, TypeOK
  <2>2. CASE faults > 0 /\ faults' = faults - 1 /\ Nack /\ Commit /\ UNCHANGED need
    <3>1. mem' \in [Index -> Bytes] /\ page' = <<>> /\ programming' \in BOOLEAN
      BY <2>2, CommitType
    <3>2. faults' \in 0 .. MaxFaults
      BY <1>1, <2>2 DEF TypeOK
    <3>3. QED
      BY <1>1, <1>3, <1>5, <2>2, <3>1, <3>2, Empty DEF ShiftOut, TypeOK
  <2>3. QED
    BY <1>5, <2>1, <2>2 DEF ShiftOut
<1>6. Stop => /\ c' \in controller /\ Len(c'.fifo) <= 2 /\ bus' = "off"
              /\ mem' \in [Index -> Bytes] /\ page' = <<>> /\ programming' \in BOOLEAN
  <2> SUFFICES ASSUME Stop PROVE /\ c' \in controller /\ Len(c'.fifo) <= 2 /\ bus' = "off"
                                 /\ mem' \in [Index -> Bytes] /\ page' = <<>> /\ programming' \in BOOLEAN
    OBVIOUS
  <2>1. c' \in controller /\ c'.fifo = c.fifo
    <3>1. {"TCOMP"} \in SUBSET Bits
      BY DEF Bits
    <3>2. QED
      BY <1>2, <3>1, StatusIs DEF Stop
  <2>2. QED
    BY <1>2, <2>1, CommitType DEF Stop
<1>7. CASE Drained
  <2>1. CASE Stop
    BY <1>1, <1>6, <1>7, <2>1, Empty DEF Drained, TypeOK
  <2>2. CASE bus' = "addrR" /\ c' = [c EXCEPT !.restart = FALSE] /\ UNCHANGED <<mem, page, programming>>
    <3>1. c' \in controller /\ c'.fifo = c.fifo
      BY <1>2, <2>2, TurnedRoundIs
    <3>2. QED
      BY <1>2, <1>7, <2>2, <3>1 DEF Drained, TypeOK
  <2>3. QED
    BY <1>7, <2>1, <2>2 DEF Drained
<1>8. CASE ShiftIn
  <2>1. c' \in controller /\ c'.fifo = c.fifo
    BY <1>8, ShiftedInIs
  <2>2. QED
    BY <1>2, <1>8, <2>1 DEF ShiftIn, TypeOK, eeprom
<1>9. CASE ReadStop
  BY <1>1, <1>6, <1>9, Empty DEF ReadStop, TypeOK
<1>10. CASE LateStop
  <2>1. c' \in controller /\ c'.fifo = c.fifo
    <3>1. {"TCOMP"} \in SUBSET Bits
      BY DEF Bits
    <3>2. QED
      BY <1>2, <1>10, <3>1, StatusIs DEF LateStop
  <2>2. QED
    BY <1>2, <1>10, <2>1 DEF LateStop, TypeOK, eeprom
<1>11. CASE Programmed
  BY <1>11 DEF Programmed, TypeOK
<1>12. QED
  BY <1>4, <1>5, <1>7, <1>8, <1>9, <1>10, <1>11 DEF Controller

LEMMA NextType == ASSUME I2cAssumption, TypeOK, [Next]_vars PROVE TypeOK'
<1>1. CASE Next
  BY <1>1, ForegroundType, HandlerType, ControllerType DEF Next
<1>2. CASE UNCHANGED vars
  BY <1>2 DEF vars, eeprom, TypeOK
<1>3. QED
  BY <1>1, <1>2

--------------------------------------------------------------------------------
(* Every step keeps the invariant.                                         *)

LEMMA InitInv == ASSUME I2cAssumption, Init PROVE TransferInv
<1>1. c.fifo = <<>> /\ c.sta = {}
  BY DEF Init
<1>2. pc = "idle" /\ bus = "off" /\ page = <<>> /\ ~stopping
  BY DEF Init
<1>3. QED
  BY <1>1, <1>2 DEF TransferInv, UnderWay, Quiet

\* What the start leaves in the record and the registers.
LEMMA StartIs ==
    ASSUME I2cAssumption, TypeOK, Start, t.subAddrCnt > 0, c.fifo = <<>>
    PROVE  /\ t'.ctrl = (IF t.subAddrCnt = 1 /\ t.ctrl = WRITE THEN NONE ELSE t.ctrl)
           /\ t'.subAddrCnt = t.subAddrCnt - 1 /\ t'.index = 0 /\ t'.lock = 0
           /\ t'.finished = t.finished /\ t'.buf = t.buf
           /\ c'.fifo = <<Sub>> /\ ~c'.restart /\ c'.sta = c.sta /\ c'.ien = "all"
<1> DEFINE r == [t EXCEPT !.index = 0, !.lock = 0]
<1>1. t \in iic_transfer /\ c \in controller /\ 0 \in 0 .. N
  BY Sizes DEF TypeOK
<1>2. [t EXCEPT !.index = 0] \in iic_transfer
  BY <1>1, IndexSet
<1>3. r \in iic_transfer
  BY <1>2, LockSet
<1>4. /\ r.ctrl = t.ctrl /\ r.subAddrCnt = t.subAddrCnt /\ r.index = 0 /\ r.lock = 0
      /\ r.finished = t.finished /\ r.buf = t.buf
  BY <1>1 DEF iic_transfer
<1>5. t' = SubSent(r)
  BY DEF Start, Begun
<1> HIDE DEF r
<1>6. /\ t'.ctrl = (IF t.subAddrCnt = 1 /\ t.ctrl = WRITE THEN NONE ELSE t.ctrl)
      /\ t'.subAddrCnt = t.subAddrCnt - 1 /\ t'.index = 0 /\ t'.lock = 0
      /\ t'.finished = t.finished /\ t'.buf = t.buf
  BY <1>3, <1>4, <1>5, SubSentType
<1>7. Put(c.fifo, Sub) = <<Sub>>
  BY DEF Put
<1>8. c' = [c EXCEPT !.fifo = Put(c.fifo, Sub), !.restart = FALSE, !.ien = "all"]
  BY <1>1 DEF Start, Started, controller
<1>9. c'.fifo = Put(c.fifo, Sub) /\ ~c'.restart /\ c'.sta = c.sta /\ c'.ien = "all"
  BY <1>1, <1>8 DEF controller
<1>10. QED
  BY <1>6, <1>7, <1>9

LEMMA StartInv ==
    ASSUME I2cAssumption, TypeOK, TransferInv, Start
    PROVE  TransferInv'
<1>1. pc = "start" /\ pc' = "wait" /\ Quiet /\ Prepared /\ ~stopping
  BY DEF Start, Runs, TransferInv, UnderWay
<1>2. /\ bus' = "addrW" /\ need' = t.subAddrCnt /\ ~nacked' /\ page' = <<>>
      /\ access' = access /\ stopping' = stopping
  BY DEF Start
<1>3. /\ t.finished = NotYet /\ t.ctrl = access /\ t.subAddrCnt > 0 /\ t.subAddrCnt \in 0 .. 2
      /\ c.fifo = <<>> /\ c.sta = {} /\ access \in {READ, WRITE}
  BY <1>1, RecordFields DEF Prepared, Quiet, TypeOK
<1>4. /\ t'.ctrl = (IF t.subAddrCnt = 1 /\ t.ctrl = WRITE THEN NONE ELSE t.ctrl)
      /\ t'.subAddrCnt = t.subAddrCnt - 1 /\ t'.index = 0 /\ t'.lock = 0
      /\ t'.finished = t.finished /\ t'.buf = t.buf
      /\ c'.fifo = <<Sub>> /\ ~c'.restart /\ c'.sta = c.sta /\ c'.ien = "all"
  BY <1>3, StartIs
<1>5. InOrder'
  BY <1>2, <1>3, <1>4 DEF InOrder, Subs
<1>6. Asked'
  BY <1>2, <1>3, <1>4 DEF Asked, READ, WRITE, NONE
<1>7. Sending'
  BY <1>2, <1>3, <1>4, <1>5, <1>6 DEF Sending
<1>8. WhileUnderWay' /\ UnderWay'
  BY <1>1, <1>2, <1>3, <1>4, <1>7 DEF WhileUnderWay, UnderWay
<1>9. Told'
  BY <1>1, <1>3, <1>4 DEF Told, NotYet, Finished, TIMEOUT
<1>10. QED
  BY <1>1, <1>2, <1>8, <1>9 DEF TransferInv

LEMMA SetupInv == ASSUME TypeOK, TransferInv, Setup PROVE TransferInv'
<1>1. pc = "idle" /\ pc' = "start" /\ ~stopping /\ Quiet
  BY DEF Setup, Runs, TransferInv, UnderWay
<1>2. t \in iic_transfer
  BY DEF TypeOK
<1>3. PICK cnt \in {1, 2}, b \in IF access' = WRITE THEN [Index -> Vals] ELSE {t.buf} :
         t' = [t EXCEPT !.ctrl = access', !.subAddrCnt = cnt, !.finished = NotYet, !.buf = b]
  BY DEF Setup
<1>4. t'.ctrl = access' /\ t'.subAddrCnt = cnt /\ t'.finished = NotYet
  BY <1>2, <1>3 DEF iic_transfer
<1>5. Prepared'
  BY <1>3, <1>4 DEF Prepared
<1>6. Quiet' /\ ~stopping'
  BY <1>1 DEF Setup, Quiet, eeprom
<1>7. QED
  BY <1>1, <1>5, <1>6 DEF TransferInv, UnderWay

LEMMA TimesOutInv == ASSUME TypeOK, TimesOut PROVE TransferInv'
<1>1. t \in iic_transfer /\ c \in controller
  BY DEF TypeOK
<1>2. t'.finished = TIMEOUT
  BY <1>1 DEF TimesOut, iic_transfer
<1>3. c'.fifo = <<>> /\ c'.sta = {}
  BY <1>1 DEF TimesOut, controller
<1>4. pc' = "left" /\ rt' = -1 /\ bus' = "off" /\ ~stopping' /\ page' = <<>>
  BY DEF TimesOut
<1>5. Told'
  BY <1>2, <1>4 DEF Told, NotYet, Finished, TIMEOUT
<1>6. QED
  BY <1>3, <1>4, <1>5 DEF TransferInv, UnderWay, Quiet

LEMMA OthersInv ==
    ASSUME TypeOK, TransferInv, Leaves \/ Returns \/ Delay \/ SysTick \/ UNCHANGED vars
    PROVE  TransferInv'
<1>1. UNCHANGED <<access, t, c, bus, stopping, mem, page, need, nacked>>
  BY DEF Leaves, Returns, Delay, SysTick, vars, eeprom
<1>2. CASE Leaves
  <2>1. pc = "wait" /\ pc' = "left" /\ t.finished # NotYet
    BY <1>2 DEF Leaves, Runs
  <2>2. Quiet /\ Told /\ ~stopping
    BY <2>1 DEF TransferInv, UnderWay
  <2>3. Quiet'
    BY <1>1, <2>2 DEF Quiet
  <2>4. Told'
    BY <1>1, <2>1, <2>2 DEF Told
  <2>5. QED
    BY <1>1, <2>1, <2>2, <2>3, <2>4 DEF TransferInv, UnderWay
<1>3. CASE Returns \/ Delay
  <2>1. pc \in {"left", "delay"} /\ pc' \in {"idle", "delay"}
    BY <1>3 DEF Returns, Delay, Runs
  <2>2. Quiet /\ ~stopping
    BY <2>1 DEF TransferInv, UnderWay
  <2>3. Quiet'
    BY <1>1, <2>2 DEF Quiet
  <2>4. QED
    BY <1>1, <2>1, <2>2, <2>3 DEF TransferInv, UnderWay
<1>4. CASE SysTick \/ UNCHANGED vars
  <2>1. UNCHANGED <<pc, rt>>
    BY <1>4 DEF SysTick, vars
  <2>2. WhileUnderWay' = WhileUnderWay /\ Quiet' = Quiet /\ UnderWay' = UnderWay
    BY <1>1, <2>1 DEF WhileUnderWay, Quiet, UnderWay, Sending, InOrder, Asked, Subs, Reading, Ended, Written
  <2>3. Told' = Told /\ Prepared' = Prepared
    BY <1>1, <2>1 DEF Told, Prepared
  <2>4. QED
    BY <1>1, <2>1, <2>2, <2>3 DEF TransferInv
<1>5. QED
  BY <1>2, <1>3, <1>4

\* What was sent stays so while nothing of it is touched.
LEMMA InOrderStays ==
    ASSUME InOrder, UNCHANGED <<page, need>>, t'.buf = t.buf, t'.index = t.index,
           t'.subAddrCnt = t.subAddrCnt, c'.fifo = c.fifo
    PROVE  InOrder'
<1>1. Subs' = Subs
  BY DEF Subs
<1>2. QED
  BY <1>1 DEF InOrder

\* A byte is added at the end of the FIFO: a byte of the sub-address, or the next byte of data.
LEMMA InOrderAppend ==
    ASSUME I2cAssumption, TypeOK, InOrder, UNCHANGED <<page, need>>, t'.buf = t.buf,
           NEW byte \in Bytes, c'.fifo = Append(c.fifo, byte),
           \/ /\ t.subAddrCnt > 0 /\ t'.subAddrCnt = t.subAddrCnt - 1 /\ t'.index = t.index /\ byte = Sub
           \/ /\ t.subAddrCnt = 0 /\ t'.subAddrCnt = 0 /\ t'.index = t.index + 1
              /\ byte = t.buf[t.index + 1]
    PROVE  InOrder'
<1> DEFINE f == c.fifo
           l == Len(c.fifo)
           s == need - t.subAddrCnt
           p == Len(page)
<1>1. t \in iic_transfer /\ c \in controller /\ p \in Nat /\ need \in 0 .. 2
  BY DEF TypeOK
<1>2. t.subAddrCnt \in 0 .. 2 /\ t.index \in 0 .. N /\ f \in Seq(Bytes) /\ l \in Nat
  BY <1>1, RecordFields, RegisterFields
<1>3. /\ Len(c'.fifo) = l + 1 /\ c'.fifo[l + 1] = byte
      /\ \A i \in 1 .. l : c'.fifo[i] = f[i]
  BY <1>2
<1>4. /\ s \in 0 .. l /\ t.index = p + l - s
      /\ \A i \in 1 .. l : f[i] = IF i <= s THEN Sub ELSE t.buf[p + i - s]
      /\ \A i \in 1 .. p : page[i] = t.buf[i]
      /\ need > 0 => page = <<>>
      /\ t.subAddrCnt > 0 => l = s
  BY DEF InOrder, Subs
<1>5. Subs' = need - t'.subAddrCnt
  BY DEF Subs
<1> HIDE DEF f, l, s, p
<1>6. need - t'.subAddrCnt = (IF t.subAddrCnt > 0 THEN s + 1 ELSE s)
  BY <1>1, <1>2 DEF s
<1>7. \A i \in 1 .. l + 1 :
         c'.fifo[i] = IF i <= need - t'.subAddrCnt THEN Sub ELSE t.buf[p + i - (need - t'.subAddrCnt)]
  <2> SUFFICES ASSUME NEW i \in 1 .. l + 1
               PROVE  c'.fifo[i] = IF i <= need - t'.subAddrCnt THEN Sub
                                   ELSE t.buf[p + i - (need - t'.subAddrCnt)]
    OBVIOUS
  <2>1. CASE i \in 1 .. l
    <3>1. c'.fifo[i] = IF i <= s THEN Sub ELSE t.buf[p + i - s]
      BY <1>3, <1>4, <2>1
    <3>2. QED
      BY <1>2, <1>4, <1>6, <2>1, <3>1
  <2>2. CASE i = l + 1
    <3>1. c'.fifo[i] = byte
      BY <1>3, <2>2
    <3>2. CASE t.subAddrCnt > 0
      BY <1>2, <1>4, <1>6, <2>2, <3>1, <3>2
    <3>3. CASE t.subAddrCnt = 0
      <4>1. t.index + 1 = p + i - s
        BY <1>1, <1>2, <1>4, <2>2
      <4>2. byte = t.buf[p + i - s]
        BY <3>3, <4>1
      <4>3. ~(i <= s)
        BY <1>2, <1>4, <2>2
      <4>4. QED
        BY <1>6, <3>1, <3>3, <4>2, <4>3
    <3>4. QED
      BY <1>2, <3>2, <3>3
  <2>3. i \in 1 .. l \/ i = l + 1
    BY <1>2
  <2>4. QED
    BY <2>1, <2>2, <2>3
<1>8. /\ need - t'.subAddrCnt \in 0 .. l + 1
      /\ t'.index = p + (l + 1) - (need - t'.subAddrCnt)
      /\ t'.subAddrCnt > 0 => l + 1 = need - t'.subAddrCnt
  <2>1. s \in 0 .. l /\ t.index = p + l - s /\ (t.subAddrCnt > 0 => l = s)
    BY <1>4
  <2>2. CASE t.subAddrCnt > 0
    <3>1. t'.index = t.index /\ need - t'.subAddrCnt = s + 1 /\ l = s
      BY <1>2, <1>6, <2>1, <2>2
    <3>2. QED
      BY <1>1, <1>2, <2>1, <3>1
  <2>3. CASE t.subAddrCnt = 0
    <3>1. t'.index = t.index + 1 /\ need - t'.subAddrCnt = s /\ t'.subAddrCnt = 0
      BY <1>2, <1>6, <2>3
    <3>2. QED
      BY <1>1, <1>2, <2>1, <3>1
  <2>4. QED
    BY <1>2, <2>2, <2>3
<1>9. QED
  BY <1>3, <1>4, <1>5, <1>7, <1>8 DEF InOrder, p

\* The handler, asked for the next byte to be sent.
LEMMA SendingStep ==
    ASSUME I2cAssumption, TypeOK, TransferInv, Handler, UnderWay, bus = "write"
    PROVE  TransferInv'
<1> DEFINE b == [t |-> t, c |-> c]
           h == Handled(b)
<1>1. /\ b \in Both /\ h \in Both
      /\ t' = h.t /\ c' \in controller /\ c'.sta = {}
      /\ c'.fifo = h.c.fifo /\ c'.restart = h.c.restart /\ c'.count = h.c.count
      /\ c'.rx = h.c.rx /\ c'.ien = h.c.ien
  BY HandlerIs
<1>2. Sending /\ Told /\ ~stopping /\ ~nacked /\ pc = "wait" /\ t.finished = NotYet
  BY DEF TransferInv, UnderWay, WhileUnderWay
<1>3. UNCHANGED <<pc, access, rt, timer, bus, stopping, mem, page, need, nacked>>
  BY DEF Handler, eeprom
<1>4. /\ N \in Nat /\ N >= 1 /\ t \in iic_transfer /\ c \in controller /\ access \in {READ, WRITE}
      /\ page \in Seq(Bytes) /\ Len(page) <= N /\ need \in 0 .. 2
  BY Sizes DEF TypeOK
<1>5. /\ t.ctrl \in {NONE, READ, WRITE} /\ t.subAddrCnt \in 0 .. 2 /\ t.index \in 0 .. N
      /\ t.lock \in {0, 1} /\ t.buf \in [Index -> Bytes] /\ c.fifo \in Seq(Bytes)
  BY <1>4, RecordFields, RegisterFields
<1>6. c.sta = {"TXREQ"} /\ c.ien = "all" /\ Len(c.fifo) <= 1
  <2>1. c.sta \subseteq {"TXREQ"} /\ c.sta # {}
    BY <1>2 DEF Sending, Handler, Pending
  <2>2. c.ien # "none" /\ c.ien # "noTX"
    BY <2>1 DEF Handler, Pending
  <2>3. c.ien \in Sources
    BY <1>4, RegisterFields
  <2>4. QED
    BY <1>2, <2>1, <2>2, <2>3 DEF Sending, Sources
<1>7. h = Requested(b)
  BY <1>6 DEF Handled
<1>8. Answer(b, h)
  BY <1>1, <1>7, RequestedIs
<1>9. b.t = t /\ b.c = c
  OBVIOUS
<1>10. NONE # READ /\ NONE # WRITE /\ READ # WRITE /\ "all" # "noTX" /\ "none" # "noTX"
  BY DEF NONE, READ, WRITE
<1>11. InOrder /\ Asked
  BY <1>2 DEF Sending
<1>12. Len(Put(c.fifo, Sub)) = Len(c.fifo) + 1 /\ Put(c.fifo, Sub) = Append(c.fifo, Sub)
  BY <1>5, <1>6 DEF Put
<1> HIDE DEF b, h
<1>13. CASE access = WRITE /\ t.subAddrCnt = 0
  <2>1. t.ctrl = NONE /\ ~c.restart
    BY <1>11, <1>13 DEF Asked
  <2>2. h = NextByte(b)
    BY <1>8, <1>9, <2>1 DEF Answer
  <2>3. CASE t.index < N
    <3>1. /\ c'.fifo = Put(c.fifo, t.buf[t.index + 1]) /\ c'.ien = "all" /\ c'.restart = c.restart
          /\ t'.index = t.index + 1 /\ t'.ctrl = NONE /\ t'.subAddrCnt = 0 /\ t'.lock = t.lock
          /\ t'.finished = NotYet /\ t'.buf = t.buf
      BY <1>1, <1>2, <1>6, <1>9, <1>13, <2>1, <2>2, <2>3, NextByteIs
    <3>2. c'.fifo = Append(c.fifo, t.buf[t.index + 1])
      BY <1>6, <3>1 DEF Put
    <3>3. t.buf[t.index + 1] \in Bytes
      BY <1>4, <1>5, <2>3 DEF Index
    <3>4. InOrder'
      BY <1>3, <1>11, <1>13, <3>1, <3>2, <3>3, InOrderAppend
    <3>5. Asked'
      BY <1>3, <1>10, <1>13, <2>1, <3>1 DEF Asked
    <3>6. c'.fifo # <<>>
      BY <1>5, <3>2, <3>3
    <3>7. Sending'
      BY <1>1, <1>2, <1>3, <1>10, <1>13, <3>1, <3>4, <3>5, <3>6 DEF Sending
    <3>8. UnderWay' /\ WhileUnderWay'
      BY <1>2, <1>3, <3>1, <3>7 DEF UnderWay, WhileUnderWay
    <3>9. Told'
      BY <1>2, <1>3, <3>1 DEF Told, NotYet, Finished, TIMEOUT
    <3>10. QED
      BY <1>2, <1>3, <3>8, <3>9 DEF TransferInv
  <2>4. CASE t.index >= N
    <3>1. t' = t /\ c'.fifo = c.fifo /\ c'.ien = "noTX" /\ c'.restart = c.restart
      BY <1>1, <1>9, <2>2, <2>4, NextByteIs
    <3>2. t.index = N
      BY <1>4, <1>5, <2>4
    <3>3. InOrder'
      BY <1>3, <1>11, <3>1 DEF InOrder, Subs
    <3>4. Asked'
      BY <1>3, <1>10, <1>13, <2>1, <3>1, <3>2 DEF Asked
    <3>5. Sending'
      BY <1>1, <1>2, <1>3, <1>10, <1>13, <3>1, <3>3, <3>4 DEF Sending
    <3>6. UnderWay' /\ WhileUnderWay'
      BY <1>2, <1>3, <3>1, <3>5 DEF UnderWay, WhileUnderWay
    <3>7. Told'
      BY <1>2, <1>3, <3>1 DEF Told
    <3>8. QED
      BY <1>2, <1>3, <3>6, <3>7 DEF TransferInv
  <2>5. QED
    BY <1>4, <1>5, <2>3, <2>4
<1>14. CASE access = WRITE /\ t.subAddrCnt > 0
  <2>1. t.ctrl = WRITE /\ ~c.restart
    BY <1>11, <1>14 DEF Asked
  <2>2. /\ t' = SubSent(t) /\ c'.fifo = Append(c.fifo, Sub) /\ c'.restart = c.restart /\ c'.ien = "all"
    BY <1>1, <1>6, <1>8, <1>9, <1>10, <1>12, <1>14, <2>1 DEF Answer
  <2>3. /\ t'.subAddrCnt = t.subAddrCnt - 1 /\ t'.ctrl = (IF t.subAddrCnt = 1 THEN NONE ELSE WRITE)
        /\ t'.index = t.index /\ t'.lock = t.lock /\ t'.finished = NotYet /\ t'.buf = t.buf
    BY <1>2, <1>4, <1>14, <2>1, <2>2, SubSentType
  <2>4. Sub \in Bytes
    BY DEF Bytes
  <2>5. InOrder'
    BY <1>3, <1>11, <1>14, <2>2, <2>3, <2>4, InOrderAppend
  <2>6. Asked'
    BY <1>3, <1>5, <1>10, <1>14, <2>1, <2>2, <2>3 DEF Asked
  <2>7. c'.fifo # <<>>
    BY <1>5, <2>2, <2>4
  <2>8. Sending'
    BY <1>1, <1>2, <1>3, <1>10, <1>14, <2>5, <2>6, <2>7 DEF Sending
  <2>9. UnderWay' /\ WhileUnderWay'
    BY <1>2, <1>3, <2>3, <2>8 DEF UnderWay, WhileUnderWay
  <2>10. Told'
    BY <1>2, <1>3, <2>3 DEF Told, NotYet, Finished, TIMEOUT
  <2>11. QED
    BY <1>2, <1>3, <2>9, <2>10 DEF TransferInv
<1>15. CASE access = READ
  <2>1. /\ t.ctrl = READ /\ page = <<>> /\ t.index = 0
        /\ (t.lock = 1 => c.restart /\ c.count = N) /\ (t.lock = 0 => ~c.restart)
    BY <1>11, <1>15 DEF Asked
  <2>2. /\ t'.lock = 1 /\ t'.ctrl = READ /\ t'.index = 0 /\ t'.finished = NotYet /\ t'.buf = t.buf
        /\ t'.subAddrCnt = (IF t.subAddrCnt > 0 THEN t.subAddrCnt - 1 ELSE 0)
        /\ c'.fifo = (IF t.subAddrCnt > 0 THEN Append(c.fifo, Sub) ELSE c.fifo)
        /\ c'.ien = "all"
    BY <1>1, <1>2, <1>6, <1>8, <1>9, <1>10, <1>12, <2>1 DEF Answer
  <2>3. c'.restart /\ c'.count = N
    BY <1>1, <1>5, <1>8, <1>9, <2>1 DEF Answer
  <2>4. Sub \in Bytes
    BY DEF Bytes
  <2>5. InOrder'
    <3>1. CASE t.subAddrCnt > 0
      BY <1>3, <1>11, <2>1, <2>2, <2>4, <3>1, InOrderAppend
    <3>2. CASE t.subAddrCnt = 0
      <4>1. t'.subAddrCnt = t.subAddrCnt /\ c'.fifo = c.fifo /\ t'.index = t.index
        BY <2>1, <2>2, <3>2
      <4>2. QED
        BY <1>3, <1>11, <2>2, <4>1, InOrderStays
    <3>3. QED
      BY <1>5, <3>1, <3>2
  <2>6. Asked'
    BY <1>3, <1>10, <1>15, <2>1, <2>2, <2>3 DEF Asked
  <2>7. c'.fifo = <<>> => t'.subAddrCnt = 0
    <3>1. Append(c.fifo, Sub) # <<>>
      BY <1>5, <2>4
    <3>2. QED
      BY <1>5, <2>2, <3>1
  <2>8. Sending'
    BY <1>1, <1>2, <1>3, <1>10, <1>15, <2>2, <2>5, <2>6, <2>7 DEF Sending
  <2>9. UnderWay' /\ WhileUnderWay'
    BY <1>2, <1>3, <2>2, <2>8 DEF UnderWay, WhileUnderWay
  <2>10. Told'
    BY <1>2, <1>3, <2>2 DEF Told, NotYet, Finished, TIMEOUT
  <2>11. QED
    BY <1>2, <1>3, <2>9, <2>10 DEF TransferInv
<1>16. QED
  BY <1>4, <1>5, <1>13, <1>14, <1>15

\* What has been received, with one byte more.
LEMMA OneMore ==
    ASSUME I2cAssumption, TypeOK, Reading, "RXREQ" \in c.sta, NEW b \in Both, b.t = t, b.c = c
    PROVE  LET r == Received(b).t
               got == N - c.count
           IN  /\ got \in 0 .. N /\ r.index = (IF got = N THEN 0 ELSE got)
               /\ \A i \in 1 .. got : r.buf[i] = mem[i]
               /\ r.ctrl = t.ctrl /\ r.subAddrCnt = t.subAddrCnt /\ r.lock = t.lock
               /\ r.finished = t.finished /\ Received(b).c = c /\ Received(b) \in Both
<1> DEFINE r == Received(b).t
           had == N - c.count - 1
<1>1. /\ r.buf = [i \in Index |-> IF i = t.index + 1 THEN c.rx ELSE t.buf[i]]
      /\ r.index = (IF t.index + 1 >= N THEN 0 ELSE t.index + 1)
      /\ r.ctrl = t.ctrl /\ r.subAddrCnt = t.subAddrCnt /\ r.lock = t.lock
      /\ r.finished = t.finished /\ Received(b).c = c /\ Received(b) \in Both
  BY ReceivedIs
<1>2. N \in Nat /\ N >= 1 /\ t \in iic_transfer /\ c \in controller
  BY Sizes DEF TypeOK
<1>3. c.count \in 0 .. N /\ t.index \in 0 .. N /\ t.buf \in [Index -> Bytes]
  BY <1>2, RecordFields, RegisterFields
<1>4. /\ had >= 0 /\ t.index = had /\ c.rx = mem[had + 1]
      /\ \A i \in 1 .. had : t.buf[i] = mem[i]
  BY <1>2, <1>3 DEF Reading
<1>5. r.index = (IF had + 1 = N THEN 0 ELSE had + 1)
  <2>1. had + 1 \in 1 .. N
    BY <1>2, <1>3, <1>4
  <2>2. QED
    BY <1>1, <1>2, <1>4, <2>1
<1>6. \A i \in 1 .. had + 1 : r.buf[i] = mem[i]
  <2> SUFFICES ASSUME NEW i \in 1 .. had + 1 PROVE r.buf[i] = mem[i]
    OBVIOUS
  <2>1. i \in Index /\ i \in 1 .. N
    BY <1>2, <1>3, <1>4 DEF Index
  <2>2. r.buf[i] = IF i = had + 1 THEN c.rx ELSE t.buf[i]
    BY <1>1, <1>3, <1>4, <2>1
  <2>3. QED
    BY <1>2, <1>3, <1>4, <2>1, <2>2
<1>7. had + 1 = N - c.count /\ N - c.count \in 0 .. N
  BY <1>2, <1>3, <1>4
<1> HIDE DEF had, r
<1>8. r.index = (IF N - c.count = N THEN 0 ELSE N - c.count) /\ \A i \in 1 .. N - c.count : r.buf[i] = mem[i]
  BY <1>5, <1>6, <1>7
<1>9. QED
  BY <1>1, <1>7, <1>8 DEF r

LEMMA SameBytes ==
    ASSUME NEW f \in [Index -> Bytes], NEW g \in [Index -> Bytes], \A i \in Index : f[i] = g[i]
    PROVE  f = g
OBVIOUS

\* The handler, asked to take a byte that has come in.
LEMMA ReadingStep ==
    ASSUME I2cAssumption, TypeOK, TransferInv, Handler, UnderWay, bus = "read"
    PROVE  TransferInv'
<1> DEFINE b == [t |-> t, c |-> c]
           h == Handled(b)
<1>1. /\ b \in Both /\ h \in Both
      /\ t' = h.t /\ c' \in controller /\ c'.sta = {}
      /\ c'.fifo = h.c.fifo /\ c'.restart = h.c.restart /\ c'.count = h.c.count
      /\ c'.rx = h.c.rx /\ c'.ien = h.c.ien
  BY HandlerIs
<1>2. Reading /\ "TCOMP" \notin c.sta /\ Told /\ ~stopping /\ ~nacked /\ pc = "wait" /\ t.finished = NotYet
  BY DEF TransferInv, UnderWay, WhileUnderWay
<1>3. UNCHANGED <<pc, access, rt, timer, bus, stopping, mem, page, need, nacked>>
  BY DEF Handler, eeprom
<1>4. c.sta = {"RXREQ"}
  BY <1>2 DEF Reading, Handler, Pending
<1>5. h = Received(b)
  BY <1>4 DEF Handled
<1>6. b.t = t /\ b.c = c
  OBVIOUS
<1> HIDE DEF b, h
<1>7. /\ N - c.count \in 0 .. N /\ h.t.index = (IF N - c.count = N THEN 0 ELSE N - c.count)
      /\ \A i \in 1 .. N - c.count : h.t.buf[i] = mem[i]
      /\ h.t.ctrl = t.ctrl /\ h.t.subAddrCnt = t.subAddrCnt /\ h.t.lock = t.lock
      /\ h.t.finished = t.finished /\ h.c = c
  <2>1. "RXREQ" \in c.sta
    BY <1>4
  <2>2. QED
    BY <1>1, <1>2, <1>5, <1>6, <2>1, OneMore
<1>8. /\ access = READ /\ c.fifo = <<>> /\ page = <<>> /\ t.ctrl = READ /\ c.ien # "none"
      /\ t.lock = 1 /\ t.subAddrCnt = 0 /\ ~c.restart
  BY <1>2 DEF Reading
<1>9. /\ c'.fifo = c.fifo /\ c'.restart = c.restart /\ c'.count = c.count /\ c'.ien = c.ien /\ c'.sta = {}
      /\ t'.ctrl = t.ctrl /\ t'.subAddrCnt = 0 /\ t'.lock = 1 /\ t'.finished = NotYet
      /\ t'.index = (IF N - c'.count = N THEN 0 ELSE N - c'.count)
      /\ \A i \in 1 .. N - c'.count : t'.buf[i] = mem[i]
      /\ N - c'.count \in 0 .. N
  BY <1>1, <1>2, <1>7, <1>8
<1>10. Reading'
  BY <1>3, <1>8, <1>9 DEF Reading
<1>11. UnderWay' /\ WhileUnderWay'
  BY <1>2, <1>3, <1>9, <1>10 DEF UnderWay, WhileUnderWay
<1>12. Told'
  BY <1>2, <1>3, <1>9 DEF Told, NotYet, Finished, TIMEOUT
<1>13. QED
  BY <1>2, <1>3, <1>11, <1>12 DEF TransferInv

\* The handler tells the end, with the last byte taken before.
LEMMA EndedStep ==
    ASSUME I2cAssumption, TypeOK, TransferInv, Handler, UnderWay, bus = "off"
    PROVE  TransferInv'
<1> DEFINE b == [t |-> t, c |-> c]
           h == Handled(b)
           r == IF "RXREQ" \in c.sta THEN Received(b) ELSE b
           w == IF "TXREQ" \in c.sta THEN Requested(r) ELSE r
<1>1. /\ b \in Both /\ h \in Both
      /\ t' = h.t /\ c' \in controller /\ c'.sta = {}
      /\ c'.fifo = h.c.fifo /\ c'.restart = h.c.restart /\ c'.count = h.c.count
      /\ c'.rx = h.c.rx /\ c'.ien = h.c.ien
  BY HandlerIs
<1>2. Ended /\ ~stopping /\ pc = "wait" /\ t.finished = NotYet
  BY DEF TransferInv, UnderWay, WhileUnderWay
<1>3. UNCHANGED <<pc, access, rt, timer, bus, stopping, mem, page, need, nacked>>
  BY DEF Handler, eeprom
<1>4. /\ N \in Nat /\ N >= 1 /\ t \in iic_transfer /\ c \in controller /\ mem \in [Index -> Bytes]
      /\ t.buf \in [Index -> Bytes] /\ t.index \in 0 .. N
  BY Sizes, RecordFields DEF TypeOK
<1>5. b.t = t /\ b.c = c
  OBVIOUS
<1>6. h = IF "NACK" \in c.sta THEN [b EXCEPT !.t.finished = ABNORMAL]
          ELSE IF "TCOMP" \in c.sta THEN Completed(w) ELSE w
  BY DEF Handled
<1>7. "TCOMP" \in c.sta /\ c.fifo = <<>> /\ page = <<>> /\ (nacked <=> "NACK" \in c.sta)
  BY <1>2 DEF Ended
<1> HIDE DEF h, r, w, b
<1>8. CASE nacked
  <2>1. h.t.finished = ABNORMAL /\ h.c = c
    BY <1>1, <1>5, <1>6, <1>7, <1>8, AbnormalIs
  <2>2. ~UnderWay' /\ Told'
    BY <1>1, <1>2, <1>3, <2>1 DEF UnderWay, Told, NotYet, Finished, TIMEOUT, ABNORMAL
  <2>3. Quiet'
    BY <1>1, <1>3, <1>7, <2>1 DEF Quiet
  <2>4. QED
    BY <1>2, <1>3, <2>2, <2>3 DEF TransferInv
<1>9. CASE ~nacked
  <2>1. h = Completed(w)
    BY <1>6, <1>7, <1>9
  <2>2. w \in Both /\ w.t.buf = mem /\ w.c.fifo = <<>>
    <3>1. CASE Reading /\ c.count = 0
      <4>1. "TXREQ" \notin c.sta
        BY <3>1 DEF Reading
      <4>2. w = r
        BY <4>1 DEF w
      <4>3. r \in Both /\ r.c = c /\ \A i \in 1 .. N : r.t.buf[i] = mem[i]
        <5>1. CASE "RXREQ" \in c.sta
          <6>1. r = Received(b)
            BY <5>1 DEF r
          <6>2. N - c.count = N
            BY <1>4, <3>1
          <6>3. QED
            BY <1>1, <1>5, <3>1, <5>1, <6>1, <6>2, OneMore
        <5>2. CASE "RXREQ" \notin c.sta
          <6>1. r = b
            BY <5>2 DEF r
          <6>2. \A i \in 1 .. N - c.count : t.buf[i] = mem[i]
            BY <3>1, <5>2 DEF Reading
          <6>3. QED
            BY <1>1, <1>4, <1>5, <3>1, <6>1, <6>2
        <5>3. QED
          BY <5>1, <5>2
      <4>4. r.t.buf \in [Index -> Bytes]
        BY <4>3, BothIs, RecordFields
      <4>5. r.t.buf = mem
        BY <1>4, <4>3, <4>4, SameBytes DEF Index
      <4>6. QED
        BY <1>7, <4>2, <4>3, <4>5
    <3>2. CASE Written
      <4>1. "RXREQ" \notin c.sta /\ t.buf = mem /\ t.ctrl = NONE /\ t.index = N
        BY <3>2 DEF Written
      <4>2. r = b
        BY <4>1 DEF r
      <4>3. CASE "TXREQ" \in c.sta
        <5>1. w = Requested(b)
          BY <4>2, <4>3 DEF w
        <5>2. w = NextByte(b)
          BY <1>1, <1>5, <4>1, <5>1, RequestedIs DEF Answer
        <5>3. b.t.index >= N
          BY <1>4, <1>5, <4>1
        <5>4. w \in Both /\ w.t = b.t /\ w.c.fifo = b.c.fifo
          BY <1>1, <5>2, <5>3, NextByteIs
        <5>5. QED
          BY <1>5, <1>7, <4>1, <5>4
      <4>4. CASE "TXREQ" \notin c.sta
        <5>1. w = b
          BY <4>2, <4>4 DEF w
        <5>2. QED
          BY <1>1, <1>5, <1>7, <4>1, <5>1
      <4>5. QED
        BY <4>3, <4>4
    <3>3. QED
      BY <1>2, <1>9, <3>1, <3>2 DEF Ended
  <2>3. h.t.finished = Finished /\ h.t.buf = mem /\ h.c.fifo = <<>>
    BY <2>1, <2>2, CompletedIs
  <2>4. ~UnderWay' /\ Told'
    BY <1>1, <1>2, <1>3, <1>9, <2>3 DEF UnderWay, Told, NotYet, Finished, TIMEOUT
  <2>5. Quiet'
    BY <1>1, <1>3, <1>7, <2>3 DEF Quiet
  <2>6. QED
    BY <1>2, <1>3, <2>4, <2>5 DEF TransferInv
<1>10. QED
  BY <1>8, <1>9

LEMMA HandlerInv == ASSUME I2cAssumption, TypeOK, TransferInv, Handler PROVE TransferInv'
<1>1. c.sta # {}
  BY DEF Handler, Pending
<1>2. UnderWay
  BY <1>1 DEF TransferInv, Quiet
<1>3. bus \in {"off", "addrW", "write", "addrR", "read"}
  BY DEF TypeOK
<1>4. bus # "addrW" /\ bus # "addrR"
  BY <1>1, <1>2 DEF TransferInv, WhileUnderWay, Sending
<1>5. QED
  BY <1>2, <1>3, <1>4, SendingStep, ReadingStep, EndedStep

\* A missing acknowledge ends the transfer.
LEMMA NackInv ==
    ASSUME TypeOK, TransferInv, UnderWay, ~late', Nack, c.sta \subseteq {"TXREQ", "RXREQ"}, page' = <<>>,
           UNCHANGED <<pc, access, t, rt>>
    PROVE  TransferInv'
<1>1. c \in controller
  BY DEF TypeOK
<1>3. bus' = "off" /\ ~stopping' /\ nacked'
  BY DEF Nack
<1>2. c'.fifo = <<>> /\ c'.sta = c.sta \cup {"NACK", "TCOMP"}
  BY <1>1, <1>3, NackIs
<1>4. pc' = "wait" /\ t'.finished = NotYet
  BY DEF UnderWay
<1>5. "NACK" \in c'.sta /\ "TCOMP" \in c'.sta
  BY <1>2
<1>6. Ended'
  BY <1>2, <1>3, <1>5 DEF Ended
<1>7. UnderWay' /\ WhileUnderWay'
  BY <1>3, <1>4, <1>6 DEF UnderWay, WhileUnderWay
<1>8. Told'
  BY <1>4 DEF Told, NotYet, Finished, TIMEOUT
<1>9. QED
  BY <1>3, <1>4, <1>7, <1>8 DEF TransferInv

LEMMA AddressInv ==
    ASSUME I2cAssumption, ~late', TypeOK, TransferInv, Address
    PROVE  TransferInv'
<1>1. bus \in {"addrW", "addrR"} /\ UNCHANGED <<pc, access, t, rt, timer, mem, page, need, programming>>
  BY DEF Address, eeprom
<1>2. UnderWay /\ ~stopping /\ WhileUnderWay /\ ~nacked
  BY <1>1 DEF TransferInv, Quiet, WhileUnderWay
<1>3. c.sta = {} /\ page = <<>> /\ c \in controller
  BY <1>1, <1>2 DEF WhileUnderWay, Sending, Reading, TypeOK
<1>4. CASE Nack
  <2>1. c.sta \subseteq {"TXREQ", "RXREQ"}
    BY <1>3
  <2>2. QED
    BY <1>1, <1>2, <1>3, <1>4, <2>1, NackInv
<1>5. CASE /\ bus' = IF bus = "addrW" THEN "write" ELSE "read"
           /\ c' = [c EXCEPT !.sta = IF bus = "addrW" THEN @ \cup {"TXREQ"} ELSE @]
           /\ UNCHANGED <<stopping, faults, nacked, late>>
  <2>1. /\ c'.sta = IF bus = "addrW" THEN c.sta \cup {"TXREQ"} ELSE c.sta
        /\ c'.fifo = c.fifo /\ c'.restart = c.restart
        /\ c'.count = c.count /\ c'.rx = c.rx /\ c'.ien = c.ien
    BY <1>3, <1>5, AddressIs
  <2>2. UnderWay' /\ Told' /\ pc' = "wait"
    BY <1>1, <1>2, <1>5 DEF UnderWay, Told, NotYet, Finished, TIMEOUT
  <2>3. CASE bus = "addrW"
    <3>1. Sending /\ c'.sta = {"TXREQ"} /\ bus' = "write"
      BY <1>2, <1>3, <1>5, <2>1, <2>3 DEF WhileUnderWay
    <3>2. InOrder' /\ Asked'
      BY <1>1, <2>1, <3>1 DEF Sending, InOrder, Asked, Subs
    <3>3. Len(c'.fifo) <= 1
      <4>1. Len(c.fifo) = 1
        BY <2>3, <3>1 DEF Sending
      <4>2. QED
        BY <2>1, <4>1
    <3>4. Sending'
      BY <3>1, <3>2, <3>3 DEF Sending
    <3>5. WhileUnderWay'
      BY <1>2, <1>5, <3>1, <3>4 DEF WhileUnderWay
    <3>6. QED
      BY <1>2, <1>5, <2>2, <3>5 DEF TransferInv
  <2>4. CASE bus = "addrR"
    <3>1. Reading /\ c'.sta = {} /\ c.sta = {} /\ bus' = "read"
      BY <1>2, <1>3, <1>5, <2>1, <2>4 DEF WhileUnderWay
    <3>2. Reading'
      BY <1>1, <2>1, <3>1 DEF Reading
    <3>3. WhileUnderWay'
      BY <1>2, <1>5, <3>1, <3>2 DEF WhileUnderWay
    <3>4. QED
      BY <1>2, <1>5, <2>2, <3>3 DEF TransferInv
  <2>5. QED
    BY <1>1, <2>3, <2>4
<1>6. QED
  BY <1>4, <1>5 DEF Address

LEMMA ShiftOutInv ==
    ASSUME I2cAssumption, ~late', TypeOK, TransferInv, ShiftOut
    PROVE  TransferInv'
<1>1. bus = "write" /\ c.fifo # <<>> /\ UNCHANGED <<pc, access, t, rt, timer>>
  BY DEF ShiftOut
<1>2. UnderWay /\ ~stopping /\ Sending /\ ~nacked
  BY <1>1 DEF TransferInv, Quiet, WhileUnderWay
<1>3. /\ c.sta \subseteq {"TXREQ"} /\ c \in controller /\ t \in iic_transfer /\ N \in Nat
      /\ Len(c.fifo) <= 2 /\ page \in Seq(Bytes) /\ Len(page) <= N /\ need \in 0 .. 2
      /\ access \in {READ, WRITE}
  BY <1>2, Sizes DEF Sending, TypeOK
<1>4. /\ c.fifo \in Seq(Bytes) /\ t.subAddrCnt \in 0 .. 2 /\ t.index \in 0 .. N
      /\ t.buf \in [Index -> Bytes]
  BY <1>3, RecordFields, RegisterFields
<1>5. CASE /\ c' = [c EXCEPT !.fifo = Tail(@), !.sta = @ \cup {"TXREQ"}]
           /\ IF need > 0 THEN need' = need - 1 /\ UNCHANGED page
                          ELSE page' = Taken(Head(c.fifo)) /\ UNCHANGED need
           /\ UNCHANGED <<bus, stopping, mem, programming, faults, nacked, late>>
  <2>1. /\ c'.fifo = Tail(c.fifo) /\ c'.sta = {"TXREQ"}
        /\ c'.restart = c.restart /\ c'.count = c.count /\ c'.rx = c.rx /\ c'.ien = c.ien
    BY <1>1, <1>3, <1>5, ShiftedIs
  <2> DEFINE l == Len(c.fifo)
             p == Len(page)
  <2>2. /\ l \in Nat /\ l >= 1 /\ p \in Nat /\ Len(c'.fifo) = l - 1
        /\ \A i \in 1 .. l - 1 : c'.fifo[i] = c.fifo[i + 1]
        /\ Head(c.fifo) = c.fifo[1] /\ c.fifo[1] \in Bytes
    BY <1>1, <1>3, <1>4, <2>1
  <2>3. InOrder /\ Asked
    BY <1>2 DEF Sending
  <2> HIDE DEF l, p
  <2>4. /\ Subs \in 0 .. l /\ Subs = need - t.subAddrCnt
        /\ t.index = p + l - Subs
        /\ \A i \in 1 .. l : c.fifo[i] = IF i <= Subs THEN Sub ELSE t.buf[p + i - Subs]
        /\ \A i \in 1 .. p : page[i] = t.buf[i]
        /\ need > 0 => page = <<>>
        /\ t.subAddrCnt > 0 => l = Subs
    BY <2>3 DEF InOrder, Subs, l, p
  <2>5. Subs' = need' - t.subAddrCnt
    BY <1>1 DEF Subs
  <2>6. InOrder' /\ (access = READ => page' = <<>>)
    <3>1. CASE need > 0
      <4>1. need' = need - 1 /\ page' = page /\ Subs' = Subs - 1 /\ Subs >= 1
        <5>1. need' = need - 1 /\ page' = page
          BY <1>5, <3>1
        <5>2. need >= 1 /\ (t.subAddrCnt = 0 \/ l = Subs)
          BY <1>3, <1>4, <2>4, <3>1
        <5>3. Subs \in Nat /\ Subs >= 1
          BY <1>3, <1>4, <2>2, <2>4, <5>2
        <5>4. QED
          BY <1>3, <1>4, <2>4, <2>5, <5>1, <5>3
      <4>2. \A i \in 1 .. l - 1 : c'.fifo[i] = IF i <= Subs' THEN Sub ELSE t.buf[p + i - Subs']
        <5> SUFFICES ASSUME NEW i \in 1 .. l - 1
                     PROVE  c'.fifo[i] = IF i <= Subs' THEN Sub ELSE t.buf[p + i - Subs']
          OBVIOUS
        <5>1. i + 1 \in 1 .. l /\ c'.fifo[i] = c.fifo[i + 1]
          BY <2>2
        <5>2. c.fifo[i + 1] = IF i + 1 <= Subs THEN Sub ELSE t.buf[p + (i + 1) - Subs]
          BY <2>4, <5>1
        <5>3. p + (i + 1) - Subs = p + i - Subs' /\ (i + 1 <= Subs <=> i <= Subs')
          BY <2>2, <2>4, <4>1
        <5>4. QED
          BY <5>1, <5>2, <5>3
      <4>3. /\ Subs' \in 0 .. l - 1 /\ t.index = p + (l - 1) - Subs'
            /\ t.subAddrCnt > 0 => l - 1 = Subs'
        <5>1. /\ l \in Nat /\ l >= 1 /\ p \in Nat /\ Subs \in 0 .. l
              /\ t.index = p + l - Subs /\ (t.subAddrCnt > 0 => l = Subs)
          BY <2>2, <2>4
        <5>2. Subs' = Subs - 1 /\ Subs >= 1
          BY <4>1
        <5>3. QED
          BY <5>1, <5>2
      <4>4. page = <<>> /\ page' = <<>> /\ Len(page') = p /\ t' = t /\ Len(c'.fifo) = l - 1
        BY <1>1, <2>2, <2>4, <3>1, <4>1 DEF p
      <4>6. /\ Subs' \in 0 .. Len(c'.fifo)
            /\ t'.index = Len(page') + Len(c'.fifo) - Subs'
            /\ t'.subAddrCnt > 0 => Len(c'.fifo) = Subs'
        BY <4>3, <4>4
      <4>7. /\ \A i \in 1 .. Len(c'.fifo) :
                 c'.fifo[i] = IF i <= Subs' THEN Sub ELSE t'.buf[Len(page') + i - Subs']
            /\ \A i \in 1 .. Len(page') : page'[i] = t'.buf[i]
        BY <4>2, <4>4
      <4>5. QED
        BY <4>4, <4>6, <4>7 DEF InOrder
    <3>2. CASE need = 0
      <4>1. Subs = 0 /\ t.subAddrCnt = 0 /\ t.index = p + l
        <5>1. /\ Subs \in 0 .. l /\ Subs = need - t.subAddrCnt /\ t.index = p + l - Subs
              /\ l \in Nat /\ p \in Nat /\ t.subAddrCnt \in 0 .. 2
          BY <1>4, <2>2, <2>4
        <5>2. QED
          BY ONLY <5>1, <3>2
      <4>2. p < N
        BY <1>3, <1>4, <2>2, <4>1
      <4>3. page' = Append(page, c.fifo[1]) /\ need' = 0
        BY <1>5, <2>2, <3>2, <4>2 DEF Taken, p
      <4>4. /\ Len(page') = p + 1 /\ page'[p + 1] = c.fifo[1]
            /\ \A i \in 1 .. p : page'[i] = page[i]
        BY <1>3, <2>2, <4>3 DEF p
      <4>5. c.fifo[1] = t.buf[p + 1]
        BY <2>2, <2>4, <4>1
      <4>6. \A i \in 1 .. p + 1 : page'[i] = t.buf[i]
        <5> SUFFICES ASSUME NEW i \in 1 .. p + 1 PROVE page'[i] = t.buf[i]
          OBVIOUS
        <5>1. i \in 1 .. p \/ i = p + 1
          BY <2>2
        <5>2. QED
          BY <2>4, <4>4, <4>5, <5>1
      <4>7. \A i \in 1 .. l - 1 : c'.fifo[i] = t.buf[(p + 1) + i]
        <5> SUFFICES ASSUME NEW i \in 1 .. l - 1 PROVE c'.fifo[i] = t.buf[(p + 1) + i]
          OBVIOUS
        <5>1. i + 1 \in 1 .. l /\ c'.fifo[i] = c.fifo[i + 1] /\ ~(i + 1 <= 0)
          BY <2>2
        <5>2. c.fifo[i + 1] = t.buf[p + (i + 1) - 0]
          BY <2>4, <4>1, <5>1
        <5>3. p + (i + 1) - 0 = (p + 1) + i
          BY <2>2
        <5>4. QED
          BY <5>1, <5>2, <5>3
      <4>8. Subs' = 0
        BY <2>5, <4>1, <4>3
      <4>9. InOrder'
        <5>1. \A i \in 1 .. l - 1 : c'.fifo[i] = IF i <= Subs' THEN Sub ELSE t'.buf[Len(page') + i - Subs']
          <6> SUFFICES ASSUME NEW i \in 1 .. l - 1
                       PROVE  c'.fifo[i] = IF i <= Subs' THEN Sub ELSE t'.buf[Len(page') + i - Subs']
            OBVIOUS
          <6>1. ~(i <= Subs') /\ Len(page') + i - Subs' = (p + 1) + i
            BY <2>2, <4>4, <4>8
          <6>2. QED
            BY <1>1, <4>7, <6>1
        <5>2. t'.index = Len(page') + (l - 1) - Subs' /\ Subs' \in 0 .. l - 1
          BY <1>1, <2>2, <4>1, <4>4, <4>8
        <5>3. \A i \in 1 .. Len(page') : page'[i] = t'.buf[i]
          BY <1>1, <4>4, <4>6
        <5>4. ~(need' > 0) /\ ~(t'.subAddrCnt > 0)
          BY <1>1, <4>1, <4>3
        <5>5. QED
          BY <2>2, <5>1, <5>2, <5>3, <5>4 DEF InOrder
      <4>10. access = READ => FALSE
        <5>1. access = READ => page = <<>> /\ t.index = 0
          BY <2>3 DEF Asked
        <5>2. QED
          BY <2>2, <4>1, <5>1
      <4>11. QED
        BY <4>9, <4>10
    <3>3. QED
      BY <1>3, <3>1, <3>2
  <2>7. Asked'
    BY <1>1, <2>1, <2>3, <2>6 DEF Asked
  <2>8. Len(c'.fifo) <= 1
    BY <1>3, <2>2 DEF l
  <2>9. Sending'
    BY <1>1, <1>5, <2>1, <2>6, <2>7, <2>8 DEF Sending
  <2>10. UnderWay' /\ WhileUnderWay' /\ Told'
    BY <1>1, <1>2, <1>5, <2>9 DEF UnderWay, WhileUnderWay, Told, NotYet, Finished, TIMEOUT
  <2>11. QED
    BY <1>1, <1>2, <1>5, <2>10 DEF TransferInv, UnderWay
<1>6. CASE faults > 0 /\ faults' = faults - 1 /\ Nack /\ Commit /\ UNCHANGED need
  <2>1. page' = <<>>
    BY <1>6 DEF Commit
  <2>2. c.sta \subseteq {"TXREQ", "RXREQ"}
    BY <1>3
  <2>3. QED
    BY <1>1, <1>2, <1>6, <2>1, <2>2, NackInv
<1>7. QED
  BY <1>5, <1>6 DEF ShiftOut

\* The bus stops: the page takes effect, and the handler is asked to tell the end.
LEMMA StopInv ==
    ASSUME TypeOK, TransferInv, UnderWay, Stop, c.fifo = <<>>, ~nacked,
           "NACK" \notin c.sta, UNCHANGED <<pc, access, t, rt, stopping, nacked>>,
           \/ Reading /\ c.count = 0 /\ mem' = mem
           \/ /\ access = WRITE /\ t.buf = mem' /\ t.ctrl = NONE /\ t.index = N
              /\ c.sta \subseteq {"TXREQ"}
    PROVE  TransferInv'
<1>1. {"TCOMP"} \in SUBSET Bits /\ c \in controller
  BY DEF Bits, TypeOK
<1>2. /\ c'.sta = c.sta \cup {"TCOMP"} /\ c'.fifo = <<>> /\ c'.restart = c.restart
      /\ c'.count = c.count /\ c'.rx = c.rx /\ c'.ien = c.ien
  BY <1>1, StatusIs DEF Stop
<1>3. bus' = "off" /\ page' = <<>>
  BY DEF Stop, Commit
<1>4. (Reading' /\ c'.count = 0) \/ Written'
  <2>1. CASE Reading /\ c.count = 0 /\ mem' = mem
    <3>1. "RXREQ" \in c'.sta <=> "RXREQ" \in c.sta
      BY <1>2
    <3>2. c'.sta \subseteq {"RXREQ", "TCOMP"}
      BY <1>2, <2>1 DEF Reading
    <3>3. Reading'
      BY <1>2, <1>3, <2>1, <3>1, <3>2 DEF Reading
    <3>4. QED
      BY <1>2, <2>1, <3>3
  <2>2. CASE /\ access = WRITE /\ t.buf = mem' /\ t.ctrl = NONE /\ t.index = N
             /\ c.sta \subseteq {"TXREQ"}
    BY <1>2, <2>2 DEF Written
  <2>3. QED
    BY <2>1, <2>2
<1>5. "TCOMP" \in c'.sta /\ "NACK" \notin c'.sta /\ ~nacked'
  BY <1>2
<1>6. Ended'
  BY <1>2, <1>3, <1>4, <1>5 DEF Ended
<1>7. UnderWay' /\ WhileUnderWay' /\ Told'
  BY <1>3, <1>5, <1>6 DEF UnderWay, WhileUnderWay, Told, NotYet, Finished, TIMEOUT
<1>8. ~stopping'
  BY DEF TransferInv
<1>9. QED
  BY <1>7, <1>8 DEF TransferInv, UnderWay

LEMMA DrainedInv ==
    ASSUME I2cAssumption, TypeOK, TransferInv, Drained
    PROVE  TransferInv'
<1>1. /\ bus = "write" /\ c.fifo = <<>> /\ ("TXREQ" \in c.sta => c.ien = "noTX")
      /\ UNCHANGED <<pc, access, t, rt, timer, stopping, need, faults, nacked>>
  BY DEF Drained
<1>2. UnderWay /\ ~stopping /\ Sending /\ ~nacked
  BY <1>1 DEF TransferInv, Quiet, WhileUnderWay
<1>3. /\ c.sta \subseteq {"TXREQ"} /\ c \in controller /\ t \in iic_transfer /\ N \in Nat /\ N >= 1
      /\ page \in Seq(Bytes) /\ mem \in [Index -> Bytes] /\ access \in {READ, WRITE} /\ need \in 0 .. 2
  BY <1>2, Sizes DEF Sending, TypeOK
<1>4. /\ t.subAddrCnt \in 0 .. 2 /\ t.index \in 0 .. N /\ t.buf \in [Index -> Bytes]
  BY <1>3, RecordFields
<1>5. InOrder /\ Asked
  BY <1>2 DEF Sending
<1>6. NONE # READ /\ NONE # WRITE /\ READ # WRITE
  BY DEF NONE, READ, WRITE
<1>7. CASE access = READ
  <2>1. /\ t.ctrl = READ /\ page = <<>> /\ t.index = 0 /\ c.ien = "all"
        /\ t.lock = 1 => c.restart /\ c.count = N
    BY <1>5, <1>7 DEF Asked
  <2>2. c.sta = {}
    BY <1>1, <1>3, <2>1
  <2>3. t.lock = 1 /\ t.subAddrCnt = 0
    BY <1>1, <1>2, <1>7, <2>2 DEF Sending
  <2>4. bus' = "addrR" /\ c' = [c EXCEPT !.restart = FALSE] /\ UNCHANGED <<mem, page, programming>>
    BY <2>1, <2>3 DEF Drained
  <2>5. /\ ~c'.restart /\ c'.fifo = c.fifo /\ c'.sta = c.sta
        /\ c'.count = c.count /\ c'.rx = c.rx /\ c'.ien = c.ien
    BY <1>3, <2>4, TurnedRoundIs
  <2>6. Reading'
    <3>1. N - c'.count = 0 /\ "RXREQ" \notin c'.sta /\ c'.sta = {} /\ N # 0
      BY <1>3, <2>1, <2>2, <2>3, <2>5
    <3>2. t'.index = 0 /\ t'.ctrl = READ /\ t'.lock = 1 /\ t'.subAddrCnt = 0 /\ access' = READ
      BY <1>1, <1>7, <2>1, <2>3
    <3>3. c'.fifo = <<>> /\ page' = <<>> /\ c'.ien # "none"
      BY <1>1, <2>1, <2>4, <2>5
    <3>4. QED
      BY <2>5, <3>1, <3>2, <3>3 DEF Reading
  <2>7. UnderWay' /\ WhileUnderWay' /\ Told'
    BY <1>1, <1>2, <2>1, <2>2, <2>3, <2>4, <2>5, <2>6
       DEF UnderWay, WhileUnderWay, Told, NotYet, Finished, TIMEOUT
  <2>8. QED
    BY <1>1, <1>2, <2>7 DEF TransferInv, UnderWay
<1>8. CASE access = WRITE
  <2>1. ~c.restart /\ t.ctrl = (IF t.subAddrCnt = 0 THEN NONE ELSE WRITE)
    BY <1>5, <1>8 DEF Asked
  <2>2. Stop
    BY <2>1 DEF Drained
  <2>3. c.ien = "noTX"
    BY <1>1, <1>2, <1>8 DEF Sending
  <2>4. t.index = N /\ t.subAddrCnt = 0
    BY <1>5, <2>3 DEF Asked
  <2>5. Len(page) = N /\ \A i \in 1 .. N : page[i] = t.buf[i]
    <3>1. Len(c.fifo) = 0
      BY <1>1
    <3>2. Subs = 0 /\ Len(page) = N
      BY <1>3, <1>5, <2>4, <3>1 DEF InOrder, Subs
    <3>3. QED
      BY <1>5, <3>2 DEF InOrder
  <2>6. mem' = t.buf
    <3>1. mem' \in [Index -> Bytes]
      BY <2>2, CommitType DEF Stop
    <3>2. \A i \in Index : mem'[i] = t.buf[i]
      BY <1>3, <2>2, <2>5 DEF Stop, Commit, Index
    <3>3. QED
      BY <1>4, <3>1, <3>2, SameBytes
  <2>7. "NACK" \notin c.sta
    BY <1>3
  <2>8. QED
    BY <1>1, <1>2, <1>3, <1>8, <2>1, <2>2, <2>4, <2>6, <2>7, StopInv
<1>9. QED
  BY <1>3, <1>7, <1>8

LEMMA ShiftInInv == ASSUME I2cAssumption, TypeOK, TransferInv, ShiftIn PROVE TransferInv'
<1>1. /\ bus = "read" /\ "RXREQ" \notin c.sta /\ c.count > 0
      /\ UNCHANGED <<pc, access, t, rt, timer, bus, stopping, mem, page, need, programming, nacked>>
  BY DEF ShiftIn, eeprom
<1>2. UnderWay /\ ~stopping /\ Reading /\ "TCOMP" \notin c.sta /\ ~nacked
  BY <1>1 DEF TransferInv, Quiet, WhileUnderWay
<1>3. /\ c'.rx = mem[N - c.count + 1] /\ c'.count = c.count - 1 /\ c'.sta = c.sta \cup {"RXREQ"}
      /\ c'.fifo = c.fifo /\ c'.restart = c.restart /\ c'.ien = c.ien
  BY ShiftedInIs
<1>4. N \in Nat /\ c.count \in 0 .. N
  BY Sizes, RegisterFields DEF TypeOK
<1>5. N - c'.count - 1 = N - c.count
  BY <1>3, <1>4
<1>6. "RXREQ" \in c'.sta /\ c'.sta \subseteq {"RXREQ", "TCOMP"} /\ "TCOMP" \notin c'.sta
  BY <1>2, <1>3 DEF Reading
<1>7. /\ N - c.count >= 0 /\ t.index = (IF N - c.count = N THEN 0 ELSE N - c.count)
      /\ \A i \in 1 .. N - c.count : t.buf[i] = mem[i]
  BY <1>1, <1>2 DEF Reading
<1>8. Reading'
  <2>1. /\ access = READ /\ c.fifo = <<>> /\ page = <<>> /\ t.ctrl = READ /\ c.ien # "none"
        /\ t.lock = 1 /\ t.subAddrCnt = 0 /\ ~c.restart
    BY <1>2 DEF Reading
  <2> DEFINE got == N - c.count
  <2>2. got >= 0 /\ t'.index = (IF got = N THEN 0 ELSE got) /\ c'.rx = mem'[got + 1]
        /\ \A i \in 1 .. got : t'.buf[i] = mem'[i]
    BY <1>1, <1>3, <1>7
  <2>3. got = N - c'.count - 1
    BY <1>5
  <2> HIDE DEF got
  <2>4. QED
    BY <1>1, <1>3, <1>6, <2>1, <2>2, <2>3 DEF Reading
<1>9. UnderWay' /\ WhileUnderWay' /\ Told'
  BY <1>1, <1>2, <1>6, <1>8 DEF UnderWay, WhileUnderWay, Told, NotYet, Finished, TIMEOUT
<1>10. QED
  BY <1>1, <1>2, <1>9 DEF TransferInv, UnderWay

\* A stop with nothing in the page leaves the memory alone.
LEMMA EmptyPage == ASSUME I2cAssumption, TypeOK, Commit, page = <<>> PROVE mem' = mem
<1>1. mem \in [Index -> Bytes] /\ mem' \in [Index -> Bytes]
  BY CommitType DEF TypeOK
<1>2. Len(page) = 0
  OBVIOUS
<1>3. \A i \in Index : mem'[i] = mem[i]
  <2> SUFFICES ASSUME NEW i \in Index PROVE mem'[i] = mem[i]
    OBVIOUS
  <2>1. ~(i <= Len(page))
    BY <1>2, Sizes DEF Index
  <2>2. QED
    BY <2>1 DEF Commit
<1>4. QED
  BY <1>1, <1>3, SameBytes

LEMMA ReadStopInv == ASSUME I2cAssumption, TypeOK, TransferInv, ReadStop PROVE TransferInv'
<1>1. /\ bus = "read" /\ c.count = 0 /\ Stop
      /\ UNCHANGED <<pc, access, t, rt, timer, stopping, need, faults, nacked>>
  BY DEF ReadStop
<1>2. UnderWay /\ ~stopping /\ Reading /\ ~nacked
  BY <1>1 DEF TransferInv, Quiet, WhileUnderWay
<1>3. c.fifo = <<>> /\ page = <<>> /\ "NACK" \notin c.sta
  BY <1>2 DEF Reading
<1>4. mem' = mem
  BY <1>1, <1>3, EmptyPage DEF Stop
<1>5. QED
  BY <1>1, <1>2, <1>3, <1>4, StopInv

LEMMA ProgrammedInv == ASSUME TypeOK, TransferInv, Programmed PROVE TransferInv'
<1>1. UNCHANGED <<pc, access, t, rt, timer, c, bus, stopping, mem, page, need, faults, nacked>>
  BY DEF Programmed
<1>2. WhileUnderWay' = WhileUnderWay /\ Quiet' = Quiet /\ UnderWay' = UnderWay
  BY <1>1 DEF WhileUnderWay, Quiet, UnderWay, Sending, InOrder, Asked, Subs, Reading, Ended, Written
<1>3. Told' = Told /\ Prepared' = Prepared
  BY <1>1 DEF Told, Prepared
<1>4. QED
  BY <1>1, <1>2, <1>3 DEF TransferInv

\* After a late stop nothing but a timeout sets things right.
LEMMA OnlyTimeoutMends == ASSUME TypeOK, [Next]_vars, late, ~late' PROVE TimesOut
<1>1. Nack => late'
  BY DEF Nack
<1>2. QED
  BY <1>1 DEF Next, Foreground, Controller, Setup, Start, Leaves, Returns, Delay, SysTick, Handler,
         Address, ShiftOut, Drained, ShiftIn, ReadStop, LateStop, Programmed, Runs, vars

LEMMA NextInv == ASSUME I2cAssumption, IInv, [Next]_vars PROVE IInv'
<1>1. TypeOK /\ TypeOK'
  BY NextType DEF IInv
<1>2. ASSUME ~late', TransferInv PROVE TransferInv'
  <2>2. CASE Foreground
    BY <1>1, <1>2, <2>2, SetupInv, StartInv, TimesOutInv, OthersInv DEF Foreground
  <2>3. CASE SysTick \/ UNCHANGED vars
    BY <1>1, <1>2, <2>3, OthersInv
  <2>4. CASE Handler
    BY <1>1, <1>2, <2>4, HandlerInv
  <2>5. CASE Controller
    <3>1. ~LateStop
      BY <1>2 DEF LateStop, TransferInv
    <3>2. QED
      BY <1>1, <1>2, <2>5, <3>1, AddressInv, ShiftOutInv, DrainedInv, ShiftInInv, ReadStopInv,
         ProgrammedInv DEF Controller
  <2>6. QED
    BY <2>2, <2>3, <2>4, <2>5 DEF Next
<1>3. ASSUME ~late', late PROVE TransferInv'
  <2>1. TimesOut
    BY <1>1, <1>3, OnlyTimeoutMends
  <2>2. QED
    BY <1>1, <2>1, TimesOutInv
<1>4. QED
  BY <1>1, <1>2, <1>3 DEF IInv

--------------------------------------------------------------------------------
(* What a step may do.                                                     *)

\* cpu_iic_transfer returns with the end that was told.
LEMMA Returned == ASSUME [Next]_vars, Returning PROVE Returns
BY DEF Next, Foreground, Controller, Returning, Setup, Start, TimesOut, Leaves, Delay, SysTick, Handler,
       Address, ShiftOut, Drained, ShiftIn, ReadStop, LateStop, Programmed, Runs, vars

LEMMA ReturnedTold ==
    ASSUME I2cAssumption, ~late, IInv, [Next]_vars, Returning
    PROVE  rt' # -1 => t.finished = Finished
<1>1. rt' = Result /\ pc = "left" /\ Told
  BY Returned DEF Returns, Runs, IInv, TransferInv
<1>2. t.finished \in {NotYet, Finished, ABNORMAL, TIMEOUT}
  BY RecordFields DEF IInv, TypeOK
<1>3. QED
  BY <1>1, <1>2 DEF Told, Result

LEMMA DoneStep == ASSUME I2cAssumption, IInv, [Next]_vars PROVE Done
<1> SUFFICES ASSUME Returning, rt' = N, ~late PROVE t.buf = mem
  BY DEF Done
<1>1. N # -1
  BY Sizes
<1>2. t.finished = Finished
  BY <1>1, ReturnedTold
<1>3. Told
  BY DEF Returning, IInv, TransferInv
<1>4. QED
  BY <1>2, <1>3 DEF Told

LEMMA NackStep == ASSUME I2cAssumption, IInv, [Next]_vars PROVE NackFails
<1> SUFFICES ASSUME Returning, nacked, ~late, rt' # -1 PROVE FALSE
  BY DEF NackFails
<1>1. t.finished = Finished
  BY ReturnedTold
<1>2. Told
  BY DEF Returning, IInv, TransferInv
<1>3. QED
  BY <1>1, <1>2 DEF Told

\* A page in which the bytes of a write are in their places.
LEMMA FrontPart ==
    ASSUME I2cAssumption, TypeOK, Sending, Commit, mem' # mem, UNCHANGED t
    PROVE  /\ access = WRITE
           /\ \E k \in Index : mem' = [i \in Index |-> IF i <= k THEN t.buf[i] ELSE mem[i]]
<1>1. /\ N \in Nat /\ page \in Seq(Bytes) /\ Len(page) <= N /\ access \in {READ, WRITE}
      /\ page # <<>> /\ mem \in [Index -> Bytes] /\ t \in iic_transfer
  BY Sizes, EmptyPage DEF TypeOK
<1>2. Len(page) \in Index /\ t.buf \in [Index -> Bytes]
  BY <1>1, RecordFields DEF Index
<1>3. access = WRITE
  BY <1>1 DEF Sending, Asked
<1>4. \A i \in 1 .. Len(page) : page[i] = t.buf[i]
  BY DEF Sending, InOrder
<1>5. mem' = [i \in Index |-> IF i <= Len(page) THEN t.buf[i] ELSE mem[i]]
  <2>1. \A i \in Index : (IF i <= Len(page) THEN page[i] ELSE mem[i])
                           = (IF i <= Len(page) THEN t.buf[i] ELSE mem[i])
    BY <1>1, <1>2, <1>4 DEF Index
  <2>2. mem' = [i \in Index |-> IF i <= Len(page) THEN page[i] ELSE mem[i]]
    BY DEF Commit
  <2>3. QED
    BY <2>1, <2>2
<1>6. QED
  BY <1>2, <1>3, <1>5

LEMMA FrontStep == ASSUME I2cAssumption, IInv, [Next]_vars PROVE Front
<1> SUFFICES ASSUME mem' # mem, ~late
             PROVE  /\ access = WRITE
                    /\ \E k \in Index : mem' = [i \in Index |-> IF i <= k THEN t.buf[i] ELSE mem[i]]
  BY DEF Front
<1>1. TypeOK /\ TransferInv
  BY DEF IInv
<1>2. ShiftOut \/ Drained \/ ReadStop
  BY DEF Next, Foreground, Controller, Setup, Start, TimesOut, Leaves, Returns, Delay, SysTick, Handler,
         Address, ShiftIn, LateStop, Programmed, vars, eeprom
<1>3. Commit /\ UNCHANGED t
  BY <1>2 DEF ShiftOut, Drained, ReadStop, Stop
<1>4. CASE bus = "write"
  <2>1. Sending
    BY <1>1, <1>4 DEF TransferInv, Quiet, WhileUnderWay
  <2>2. QED
    BY <1>1, <1>3, <2>1, FrontPart
<1>5. CASE bus = "read"
  <2>1. Reading
    BY <1>1, <1>5 DEF TransferInv, Quiet, WhileUnderWay
  <2>2. page = <<>>
    BY <2>1 DEF Reading
  <2>3. QED
    BY <1>1, <1>3, <2>2, EmptyPage
<1>6. QED
  BY <1>2, <1>4, <1>5 DEF ShiftOut, Drained, ReadStop

--------------------------------------------------------------------------------
(* The theorems.                                                           *)

LEMMA InitIInv == ASSUME I2cAssumption, Init PROVE IInv
BY InitType, InitInv DEF IInv

(* The inductive invariant.                                                *)
THEOREM Invariance == ASSUME I2cAssumption PROVE Spec => []IInv
<1>1. Init => IInv
  BY InitIInv
<1>2. IInv /\ [Next]_vars => IInv'
  BY NextInv
<1>3. QED
  BY <1>1, <1>2, PTL DEF Spec

(* The record, the registers and the EEPROM stay what they are, whether    *)
(* the stop comes late or not: the counts of cpu_iic.cpp keep to the       *)
(* access, the FIFO holds two bytes and a page no more than was asked for. *)
THEOREM TypeCorrect == ASSUME I2cAssumption PROVE Spec => []TypeOK
<1>1. IInv => TypeOK
  BY DEF IInv
<1>2. QED
  BY <1>1, Invariance, PTL

(* A transfer that cpu_iic_transfer reports as done was done, for accesses *)
(* of any length and whatever was not acknowledged or timed out before, on *)
(* any controller: until a stop comes late, and again from the first       *)
(* timeout on, which disables the bus.                                     *)
THEOREM DoneWasDone == ASSUME I2cAssumption PROVE Spec => DoneIsDone
<1>1. IInv /\ [Next]_vars => [Done]_vars
  BY DoneStep
<1>2. QED
  BY <1>1, Invariance, PTL DEF Spec, DoneIsDone

(* Nothing but a front part of what is being written gets into the EEPROM, *)
(* likewise.                                                               *)
THEOREM NothingElseWritten == ASSUME I2cAssumption PROVE Spec => OnlyFront
<1>1. IInv /\ [Next]_vars => [Front]_vars
  BY FrontStep
<1>2. QED
  BY <1>1, Invariance, PTL DEF Spec, OnlyFront

(* A missing acknowledge is reported (cpu_iic.cpp:147), likewise.          *)
THEOREM NackReported == ASSUME I2cAssumption PROVE Spec => NackIsFailure
<1>1. IInv /\ [Next]_vars => [NackFails]_vars
  BY NackStep
<1>2. QED
  BY <1>1, Invariance, PTL DEF Spec, NackIsFailure
================================================================================
