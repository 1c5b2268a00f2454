----------------------------- MODULE I2cTransfer -----------------------------
(***************************************************************************)
(* One transfer on the I2C bus (bsp/cpu/cpu_iic.cpp): the foreground sets  *)
(* up t_iic_transfer, starts the bus and waits for m_accessFinished or for *)
(* a timer of 800 ms; the I2C interrupt feeds the bytes and tells the end. *)
(* The storage driver (drv_storage.cpp) asks for one transfer after        *)
(* another, whether the last one succeeded or not.                         *)
(*                                                                         *)
(* The bus controller and the EEPROM are external.  The controller has a   *)
(* transmit FIFO, asks for the next byte whenever one has left it, sends a *)
(* stop when the FIFO is empty, or a repeated start if I2CADR0 has been    *)
(* rewritten, and reports what happened in latched status bits, which the  *)
(* handler clears by reading them.  The EEPROM takes a page at the stop    *)
(* and does not acknowledge its address until it has programmed it.        *)
(* Interrupts come in time: the FIFO is not drained under the handler.     *)
(***************************************************************************)
EXTENDS Integers, Sequences

CONSTANTS N,         \* bytes of an access, within one page
          Vals,      \* contents of a byte
          StopLate,  \* the stop after a missing acknowledge may come late, as an interrupt of its own
          MaxFaults  \* bound: missing acknowledges of an idle EEPROM

I2cAssumption ==
    N \in Nat \ {0} /\ "sub" \notin Vals /\ StopLate \in BOOLEAN /\ MaxFaults \in Nat

Sub      == "sub"           \* a byte of the sub-address
Index    == 1 .. N
NONE     == "none"          \* m_accessCtrl
READ     == "read"
WRITE    == "write"
NotYet   == "FALSE"         \* m_accessFinished
Finished == "TRUE"
ABNORMAL == "abnormal"
TIMEOUT  == "timeout"

VARIABLES pc,           \* the foreground, in _i2c_access and cpu_iic_transfer
          access,       \* what _i2c_access has been asked for
          t,            \* t_iic_transfer, and the bytes m_paccessAddr points to
          rt,           \* result of the last transfer
          timer,        \* the one-shot timer
          c,            \* the registers of the controller
          bus,          \* what it is doing
          stopping,     \* its stop after a missing acknowledge is still to come
          mem, page, need, programming,   \* the EEPROM
          faults,       \* bound of the missing acknowledges
          nacked,       \* history: one has been missing in this transfer,
          late          \* and a stop has come late since the bus was last disabled

eeprom == <<mem, page, need, programming>>
vars   == <<pc, access, t, rt, timer, c, bus, stopping, eeprom, faults, nacked, late>>

Bytes == Vals \cup {Sub}

\* The record, with the bytes of its buffer.
iic_transfer ==
    [ctrl : {NONE, READ, WRITE}, subAddrCnt : 0 .. 2, index : 0 .. N, lock : {0, 1},
     finished : {NotYet, Finished, ABNORMAL, TIMEOUT}, buf : [Index -> Bytes]]

\* The registers that are used, and the FIFO.
controller ==
    [fifo : Seq(Bytes), restart : BOOLEAN, count : 0 .. N, rx : Bytes,
     sta : SUBSET {"TXREQ", "RXREQ", "NACK", "TCOMP"}, ien : {"all", "noTX", "none"}]

TypeOK ==
    /\ pc \in {"idle", "start", "wait", "left", "delay"} /\ access \in {READ, WRITE}
    /\ t \in iic_transfer
    /\ rt \in {-1, 0, N} /\ timer \in {"off", "running", "expired"}
    /\ c \in controller /\ Len(c.fifo) <= 2
    /\ bus \in {"off", "addrW", "write", "addrR", "read"} /\ stopping \in BOOLEAN
    /\ mem \in [Index -> Bytes] /\ page \in Seq(Bytes) /\ Len(page) <= N
    /\ need \in 0 .. 2 /\ programming \in BOOLEAN
    /\ faults \in 0 .. MaxFaults /\ nacked \in BOOLEAN /\ late \in BOOLEAN

(* cpu_iic_init has enabled the controller and its interrupts.             *)
Init ==
    /\ pc = "idle" /\ access = READ /\ rt = 0 /\ timer = "off"
    /\ \E b \in [Index -> Vals] :
         t = [ctrl |-> NONE, subAddrCnt |-> 0, index |-> 0, lock |-> 0, finished |-> NotYet, buf |-> b]
    /\ c = [fifo |-> <<>>, restart |-> FALSE, count |-> 0, rx |-> CHOOSE v \in Vals : TRUE, sta |-> {},
            ien |-> "all"]
    /\ bus = "off" /\ stopping = FALSE
    /\ mem \in [Index -> Vals] /\ page = <<>> /\ need = 0 /\ programming = FALSE
    /\ faults = MaxFaults /\ nacked = FALSE /\ late = FALSE

--------------------------------------------------------------------------------
(* The foreground.                                                         *)

\* A status bit whose source is enabled raises the interrupt, ...
Pending == \/ c.ien = "all" /\ c.sta # {}
           \/ c.ien = "noTX" /\ c.sta \ {"TXREQ"} # {}

\* ... which preempts the foreground.
Runs(here) == pc = here /\ ~Pending

(* _i2c_access, for one page: fill in the record.  The sub-address has one *)
(* byte or two, as the geometry of the EEPROM says.                        *)
Setup ==
    /\ Runs("idle") /\ pc' = "start"
    /\ access' \in {READ, WRITE}
    /\ \E cnt \in {1, 2}, b \in IF access' = WRITE THEN [Index -> Vals] ELSE {t.buf} :
         t' = [t EXCEPT !.ctrl = access', !.subAddrCnt = cnt, !.finished = NotYet, !.buf = b]
    /\ UNCHANGED <<rt, timer, c, bus, stopping, eeprom, faults, nacked, late>>

\* One byte of the sub-address goes out; after the last, a write sends data.
SubSent(tr) ==
    [tr EXCEPT !.subAddrCnt = @ - 1,
               !.ctrl = IF tr.subAddrCnt = 1 /\ @ = WRITE THEN NONE ELSE @]

\* (mutant) m_index and m_lock are left as they are
Begun_no_reset == t' = IF t.subAddrCnt > 0 THEN SubSent(t) ELSE t

Begun == LET r == [t EXCEPT !.index = 0, !.lock = 0]
         IN  t' = IF t.subAddrCnt > 0 THEN SubSent(r) ELSE r

\* (mutant) a byte is put wherever it goes
Put_any(fifo, byte) == Append(fifo, byte)

\* I2cTx: a byte the FIFO has no room for is lost.
Put(fifo, byte) == IF Len(fifo) < 2 THEN Append(fifo, byte) ELSE fifo

\* (mutant) the interrupt sources are left as they are
Started_no_cfg ==
    c' = [c EXCEPT !.fifo = IF t.subAddrCnt > 0 THEN Put(@, Sub) ELSE @, !.restart = FALSE]

\* I2cMCfg and I2cTx.
Started ==
    c' = [c EXCEPT !.fifo = IF t.subAddrCnt > 0 THEN Put(@, Sub) ELSE @, !.restart = FALSE,
                   !.ien = "all"]

\* (mutant) the timer is registered but not started
Armed_not == UNCHANGED timer

Armed == timer' = "running"

(* cpu_iic_transfer, up to the start; one on top of another is a repeated  *)
(* start, at which the EEPROM forgets a page it has not been told to stop. *)
Start ==
    /\ Runs("start") /\ pc' = "wait"
    /\ Begun /\ Started /\ Armed /\ bus' = "addrW"
    /\ need' = t.subAddrCnt    \* the EEPROM expects as many as it is sent
    /\ nacked' = FALSE /\ page' = <<>>
    /\ UNCHANGED <<access, rt, stopping, mem, programming, faults, late>>

\* The controller is disabled: it forgets the transfer and its requests, the EEPROM the page.
TimesOut ==
    /\ Runs("wait") /\ timer = "expired" /\ pc' = "left"
    /\ rt' = -1 /\ t' = [t EXCEPT !.finished = TIMEOUT]
    /\ c' = [c EXCEPT !.ien = "none", !.fifo = <<>>, !.sta = {}]
    /\ bus' = "off" /\ stopping' = FALSE /\ page' = <<>> /\ late' = FALSE
    /\ UNCHANGED <<access, timer, mem, need, programming, faults, nacked>>

\* The timer may have expired since it was looked at.
Leaves ==
    /\ Runs("wait") /\ t.finished # NotYet /\ pc' = "left"
    /\ rt' = N
    /\ UNCHANGED <<access, t, timer, c, bus, stopping, eeprom, faults, nacked, late>>

\* (mutant) ABNORMAL is not looked at
Result_unchecked == rt

\* m_accessFinished is read once more.
Result == IF t.finished = ABNORMAL THEN -1 ELSE rt

Returns ==
    /\ Runs("left") /\ rt' = Result /\ timer' = "off"
    /\ pc' = IF access = WRITE /\ rt' = N THEN "delay" ELSE "idle"
    /\ UNCHANGED <<access, t, c, bus, stopping, eeprom, faults, nacked, late>>

\* 25 ms, for the EEPROM to program the page.
Delay ==
    /\ Runs("delay") /\ pc' = "idle" /\ programming' = FALSE
    /\ UNCHANGED <<access, t, rt, timer, c, bus, stopping, mem, page, need, faults, nacked, late>>

Foreground == Setup \/ Start \/ TimesOut \/ Leaves \/ Returns \/ Delay

\* SysTick counts the timer down, if the transfer takes that long.
SysTick ==
    /\ timer = "running" /\ timer' = "expired"
    /\ UNCHANGED <<pc, access, t, rt, c, bus, stopping, eeprom, faults, nacked, late>>

--------------------------------------------------------------------------------
(* I2C0_Master_Int_Handler: what each status bit does to the record and    *)
(* the controller, h = [t, c].                                             *)

(* A byte has come in; after the last the index goes back to the first.  A *)
(* byte for which there is no room any more, of a transfer that was taken  *)
(* for finished, goes to memory that is not modelled.                      *)
Received(h) ==
    [h EXCEPT !.t.buf = [i \in Index |-> IF i = h.t.index + 1 THEN h.c.rx ELSE @[i]],
              !.t.index = IF @ + 1 >= N THEN 0 ELSE @ + 1]

\* The next byte of a write, or, after the last, no more requests.
NextByte(h) ==
    IF h.t.index < N
    THEN [h EXCEPT !.c.fifo = Put(@, h.t.buf[h.t.index + 1]), !.t.index = @ + 1]
    ELSE [h EXCEPT !.c.ien = "noTX"]

\* (mutant) it is not looked at whether any of the sub-address is left
Requested_always(h) ==
    IF h.t.ctrl = NONE THEN NextByte(h)
    ELSE [h EXCEPT !.c.fifo = Put(@, Sub), !.t = SubSent(@),
                   !.c.restart = h.t.ctrl = READ, !.c.count = N]

(* The controller asks for a byte: a read turns the bus round at the first *)
(* request, and the sub-address goes before the data.                      *)
Requested(h) ==
    LET r == IF h.t.lock = 0 /\ h.t.ctrl = READ
             THEN [h EXCEPT !.c.restart = TRUE, !.c.count = N, !.t.lock = 1] ELSE h
    IN  IF r.t.ctrl = NONE THEN NextByte(r)
        ELSE IF r.t.subAddrCnt > 0 THEN [r EXCEPT !.c.fifo = Put(@, Sub), !.t = SubSent(@)]
        ELSE r

Completed(h) == [h EXCEPT !.c.ien = "all", !.t.finished = Finished]

Handled(h) ==
    LET r == IF "RXREQ" \in h.c.sta THEN Received(h) ELSE h
        w == IF "TXREQ" \in h.c.sta THEN Requested(r) ELSE r
    IN  IF "NACK" \in h.c.sta THEN [h EXCEPT !.t.finished = ABNORMAL]
        ELSE IF "TCOMP" \in h.c.sta THEN Completed(w)
        ELSE w

Handler ==
    /\ Pending
    /\ LET h == Handled([t |-> t, c |-> c])
       IN  t' = h.t /\ c' = [h.c EXCEPT !.sta = {}]
    /\ UNCHANGED <<pc, access, rt, timer, bus, stopping, eeprom, faults, nacked, late>>

--------------------------------------------------------------------------------
(* The controller and the EEPROM.                                          *)

\* The controller gives the transfer up.
Over(bits) == c' = [c EXCEPT !.fifo = <<>>, !.restart = FALSE, !.sta = @ \cup bits]

\* Missing acknowledge: the transfer is over, and a stop follows, at once or late.
Nack ==
    /\ bus' = "off" /\ nacked' = TRUE
    /\ \/ Over({"NACK", "TCOMP"}) /\ stopping' = FALSE /\ UNCHANGED late
       \/ StopLate /\ Over({"NACK"}) /\ stopping' = TRUE /\ late' = TRUE

\* The page takes effect at the stop.
Commit ==
    /\ mem' = [i \in Index |-> IF i <= Len(page) THEN page[i] ELSE mem[i]]
    /\ page' = <<>> /\ programming' = (page # <<>>)

Address ==
    /\ bus \in {"addrW", "addrR"} /\ ~stopping
    /\ IF programming THEN Nack /\ UNCHANGED faults
       ELSE \/ faults > 0 /\ faults' = faults - 1 /\ Nack
            \/ /\ bus' = IF bus = "addrW" THEN "write" ELSE "read"
               /\ c' = [c EXCEPT !.sta = IF bus = "addrW" THEN @ \cup {"TXREQ"} ELSE @]
               /\ UNCHANGED <<stopping, faults, nacked, late>>
    /\ UNCHANGED <<pc, access, t, rt, timer, eeprom>>

\* A page that is full rolls over.
Taken(byte) == IF Len(page) < N THEN Append(page, byte) ELSE [page EXCEPT ![1] = byte]

(* A byte leaves the FIFO: one of the sub-address, or data for the page.   *)
(* A byte that is not acknowledged ends the write with what came before.   *)
ShiftOut ==
    /\ bus = "write" /\ c.fifo # <<>>
    /\ \/ /\ c' = [c EXCEPT !.fifo = Tail(@), !.sta = @ \cup {"TXREQ"}]
          /\ IF need > 0 THEN need' = need - 1 /\ UNCHANGED page
                         ELSE page' = Taken(Head(c.fifo)) /\ UNCHANGED need
          /\ UNCHANGED <<bus, stopping, mem, programming, faults, nacked, late>>
       \/ /\ faults > 0 /\ faults' = faults - 1 /\ Nack /\ Commit
          /\ UNCHANGED need
    /\ UNCHANGED <<pc, access, t, rt, timer>>

Stop == bus' = "off" /\ c' = [c EXCEPT !.sta = @ \cup {"TCOMP"}] /\ Commit

\* The FIFO is empty, and the handler has had its chance to add to it.
Drained ==
    /\ bus = "write" /\ c.fifo = <<>> /\ ("TXREQ" \in c.sta => c.ien = "noTX")
    /\ IF c.restart THEN bus' = "addrR" /\ c' = [c EXCEPT !.restart = FALSE]
                         /\ UNCHANGED <<mem, page, programming>>
                    ELSE Stop
    /\ UNCHANGED <<pc, access, t, rt, timer, stopping, need, faults, nacked, late>>

\* The bytes of a read, as many as I2CMRXCNT says, come in one by one.
ShiftIn ==
    /\ bus = "read" /\ "RXREQ" \notin c.sta /\ c.count > 0
    /\ c' = [c EXCEPT !.rx = mem[N - c.count + 1], !.count = @ - 1, !.sta = @ \cup {"RXREQ"}]
    /\ UNCHANGED <<pc, access, t, rt, timer, bus, stopping, eeprom, faults, nacked, late>>

ReadStop ==
    /\ bus = "read" /\ c.count = 0
    /\ Stop
    /\ UNCHANGED <<pc, access, t, rt, timer, stopping, need, faults, nacked, late>>

LateStop ==
    /\ stopping /\ stopping' = FALSE
    /\ c' = [c EXCEPT !.sta = @ \cup {"TCOMP"}]
    /\ UNCHANGED <<pc, access, t, rt, timer, bus, eeprom, faults, nacked, late>>

Programmed ==
    /\ programming /\ programming' = FALSE
    /\ UNCHANGED <<pc, access, t, rt, timer, c, bus, stopping, mem, page, need, faults, nacked, late>>

Controller == Address \/ ShiftOut \/ Drained \/ ShiftIn \/ ReadStop \/ LateStop \/ Programmed

Next == Foreground \/ SysTick \/ Handler \/ Controller

(* The processor runs and the timer runs out; the bus owes nothing.        *)
Spec == Init /\ [][Next]_vars /\ WF_vars(Foreground) /\ WF_vars(SysTick) /\ WF_vars(Handler)

--------------------------------------------------------------------------------
(* Properties.                                                             *)

\* cpu_iic_transfer returns.
Returning == pc = "left" /\ pc' # "left"

(* A stop that comes late may be taken for the end of the next transfer,   *)
(* or of this one after all; until the bus is disabled for it, nothing     *)
(* that is reported can be relied on.                                      *)

(* A transfer reported as done was done: the buffer and the page of the    *)
(* EEPROM hold the same bytes, in a read and in a write.                   *)
Done == Returning /\ rt' = N /\ ~late => t.buf = mem
DoneIsDone == [][Done]_vars

(* Whatever else fails, the EEPROM changes only by a front part of what is *)
(* being written: no sub-address, no byte of another transfer and no byte  *)
(* in another's place gets into a page.                                    *)
Front ==
    mem' # mem /\ ~late =>
        /\ access = WRITE
        /\ \E k \in Index : mem' = [i \in Index |-> IF i <= k THEN t.buf[i] ELSE mem[i]]
OnlyFront == [][Front]_vars

(* Every transfer comes to an end, even on a bus that stands still.        *)
TransferEnds == pc = "wait" ~> pc = "idle"

(* drv_storage.cpp:136: while it programs a page, the EEPROM does not      *)
(* acknowledge its address.  A transfer that met it, or any other missing  *)
(* acknowledge (cpu_iic.cpp:147), is reported as failed.                   *)
NackFails == Returning /\ nacked /\ ~late => rt' = -1
NackIsFailure == [][NackFails]_vars
================================================================================
