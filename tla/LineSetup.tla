------------------------------- MODULE LineSetup --------------------------------
(***************************************************************************)
(* The serial line in its registers: the clocks and the watchdog that      *)
(* bsp_startup.cpp sets, the UART, its pins and its DMA channel as         *)
(* cpu_uart.cpp sets them, with ClkLib.c, WdtLib.c, UrtLib.c, DioLib.c and *)
(* DmaLib.c.  A command is a function from the registers to the registers. *)
(* The UART and the DMA controller then send a line byte by byte, while    *)
(* the foreground may ask for another baud rate at any time.               *)
(***************************************************************************)
EXTENDS Integers, Sequences, SequencesExt

CONSTANTS TxSize,      \* def_TRANSCEIVER_TX_BUF_SIZE
          Symbols      \* what a byte may be

baud_array == <<2400, 4800, 9600, 19200, 38400>>

\* The DMA controller counts up to 1024 transfers.
LineSetupAssumption ==
    /\ TxSize \in Nat /\ TxSize <= 1024 /\ {"empty", "0", "?", "lost"} \cap Symbols = {}
    /\ \E s, t \in Symbols : s # t

VARIABLES pc, r,         \* the registers
          m_tx_status, m_tx_buf,
          baud,          \* the rate last asked for
          torn,          \* the rate was changed while this line was sent
          line, wire     \* what was to be sent, and what went out
linevars == <<pc, r, m_tx_status, m_tx_buf, baud, torn, line, wire>>

\* A descriptor of the DMA controller; "?" is what the stack held.
Cleared == [src |-> 0, dest |-> "0", left |-> 1, cycle |-> "STOP", src_inc |-> 0, dst_inc |-> 0]

\* After a reset, whatever the clocks, the watchdog and the pins are then.
Resets ==
    {[wdt_irq |-> on, cd |-> cd, urt_cd |-> cd, div2 |-> on, clk_dis |-> {"UART"},
      COMDIV |-> 1, FBEN |-> FALSE, N |-> 0, COMIEN |-> {}, bits |-> 5,
      con |-> [p \in 0 .. 7 |-> mode], oen |-> {}, oce |-> {}, out |-> {},
      DMACFG |-> FALSE, desc |-> Cleared, masked |-> FALSE, enabled |-> FALSE,
      COMTX |-> "empty", request |-> FALSE, done |-> FALSE] : on \in BOOLEAN, cd \in {0, 7}, mode \in {0, 3}}

--------------------------------------------------------------------------------
(* The libraries.                                                          *)

WdtCfg(g, irq)         == [g EXCEPT !.wdt_irq = irq]
ClkDis(g, clocks)      == [g EXCEPT !.clk_dis = clocks]
ClkCfg(g, iCd, div2)   == [g EXCEPT !.cd = iCd, !.div2 = div2]
ClkSel(g, iUrtCd)      == [g EXCEPT !.urt_cd = iUrtCd]

DioCfgPin(g, pin, mode) == [g EXCEPT !.con[pin] = mode]
DioOenPin(g, pin)       == [g EXCEPT !.oen = @ \cup {pin}]
DioOcePin(g, pin)       == [g EXCEPT !.oce = @ \cup {pin}]
DioSet(g, pins)         == [g EXCEPT !.out = @ \cup pins]
DioClr(g, pins)         == [g EXCEPT !.out = @ \ pins]

UartDivider(g) == 2 ^ g.urt_cd * (IF g.div2 THEN 2 ELSE 1)

(* The rate is UCLK / (32 DIV (M + N / 2048)), with M = 1 in 0x8800.       *)
UrtCfg(g, iBaud) ==
    LET div32 == 32 * UartDivider(g)
        i1    == (16000000 \div div32) \div iBaud
    IN [g EXCEPT !.COMDIV = i1, !.FBEN = TRUE,
                 !.N = ((((2048 \div div32) * 16000000) \div i1) \div iBaud) - 2048,
                 !.COMIEN = {}, !.bits = 8]

UrtIntCfg(g, iIrq) == [g EXCEPT !.COMIEN = iIrq]
UrtDma(g, iDmaSel) == [g EXCEPT !.COMIEN = (@ \ {"EDMAT", "EDMAR"}) \cup iDmaSel]

\* A byte is lost if the one before it has not been taken over.
UrtTx(g, byte) == IF g.COMTX = "empty" THEN [g EXCEPT !.COMTX = byte] ELSE g

DmaBase(g) == [g EXCEPT !.desc = Cleared, !.DMACFG = TRUE]

(* The descriptor is put together in a local variable of which the ends    *)
(* and cycle_ctrl are not assigned, and copied as a whole.                 *)
DmaPeripheralStructSetup(g) ==
    [g EXCEPT !.desc = [src |-> -1, dest |-> "?", left |-> 17, cycle |-> "?",
                        src_inc |-> 0, dst_inc |-> 3]]

\* Pointers are to the last byte of the source, and to the UART.
DmaStructPtrOutSetup(g, iNumVals) == [g EXCEPT !.desc.src = iNumVals, !.desc.dest = "COMTX"]

DmaCycleCntCtrl(g, iNumx) == [g EXCEPT !.desc.cycle = "BASIC", !.desc.left = iNumx]

DmaClr(g) == [g EXCEPT !.masked = FALSE]
DmaEnable(g) == [g EXCEPT !.enabled = TRUE]
DmaSet(g) == [g EXCEPT !.masked = TRUE, !.enabled = TRUE]

--------------------------------------------------------------------------------
(* The program.                                                            *)

sys_wdt_off(g) == WdtCfg(g, TRUE)

sys_clock_init(g) ==
    ClkSel(ClkCfg(ClkDis(g, {"SPI0", "SPI1", "DAC"}), 0, FALSE), 0)

\* The driver of an RS-485 line sends while P0.4 is low.
rs485_recv(g) == DioSet(g, {4})
rs485_send(g) == DioClr(g, {4})

\* transceiver_uart0::clock_init, once, and init
uart_clock(g) == [g EXCEPT !.urt_cd = 0]

uart_pins(g) == DioCfgPin(DioCfgPin(DioOenPin(DioOcePin(DioCfgPin(g, 4, 0), 4), 4), 6, 1), 7, 2)

\* (mutant) the sources stay as UrtCfg leaves them
uart_sources_none(g) == UrtDma(g, {})

uart_sources(g) == UrtDma(UrtIntCfg(g, {"ERBFI", "ELSI", "EDSSI", "EDMAT"}), {"EDMAT"})

uart_init(g, rate) ==
    rs485_recv(DmaPeripheralStructSetup(uart_sources(UrtCfg(uart_pins(g), rate))))

\* _drv_devinit: uart_ctl_init and uart_init.
commu_init(g) == uart_init(uart_clock(g), 9600)

LineInit ==
    /\ pc = "reset" /\ r \in Resets
    /\ m_tx_status = "idle" /\ m_tx_buf = [i \in 1 .. TxSize |-> "?"]
    /\ baud = 0 /\ torn = FALSE /\ line = <<>> /\ wire = <<>>

\* bsp_startup, of which hal_init has the driver's _drv_devinit.
bsp_startup ==
    /\ pc = "reset" /\ pc' = "run"
    /\ r' = commu_init(DmaBase(sys_clock_init(sys_wdt_off(sys_wdt_off(r)))))
    /\ baud' = 9600
    /\ UNCHANGED <<m_tx_status, m_tx_buf, torn, line, wire>>

\* COMMU_IOC_BAUD, by the foreground; the DMA interrupt goes before it.
uart_ios(index) ==
    /\ pc = "run" /\ ~r.done
    /\ r' = uart_init(r, baud_array[index]) /\ baud' = baud_array[index]
    /\ torn' = (torn \/ m_tx_status # "idle")
    /\ UNCHANGED <<pc, m_tx_status, m_tx_buf, line, wire>>

(* A line that is too long leaves the transmitter busy.  The byte that     *)
(* starts the transfer may or may not go out itself.                       *)
transmit(data) ==
    /\ pc = "run" /\ m_tx_status = "idle"
    /\ m_tx_status' = "processing"
    /\ IF Len(data) > TxSize THEN UNCHANGED <<r, m_tx_buf, torn, line, wire>>
       ELSE /\ m_tx_buf' = [i \in 1 .. TxSize |-> IF i \in DOMAIN data THEN data[i] ELSE m_tx_buf[i]]
            /\ LET g == rs485_send(DmaEnable(DmaClr(DmaCycleCntCtrl(
                            DmaStructPtrOutSetup(r, Len(data)), Len(data)))))
               IN r' \in {[UrtTx(g, byte) EXCEPT !.request = TRUE] : byte \in {"empty", "0"}}
            /\ line' = data /\ wire' = <<>> /\ torn' = FALSE
    /\ UNCHANGED <<pc, baud>>

\* (mutant) the driver is turned before the last byte has left
DmaDone_early == r.done

DmaDone == r.done /\ r.COMTX = "empty"

\* The interrupt waits for TEMT before it turns the driver of the line.
DMA_UART_TX_Int_Handler ==
    /\ DmaDone
    /\ r' = rs485_recv([DmaSet(r) EXCEPT !.done = FALSE])
    /\ m_tx_status' = "idle"
    /\ UNCHANGED <<pc, m_tx_buf, baud, torn, line, wire>>

--------------------------------------------------------------------------------
(* The hardware.                                                           *)

\* A byte leaves; P0.4 says if the line has it.
Shift ==
    /\ r.COMTX # "empty"
    /\ r' = [r EXCEPT !.COMTX = "empty", !.request = TRUE]
    /\ wire' = IF torn \/ Len(wire) > TxSize THEN wire
               ELSE Append(wire, IF 4 \in r.out THEN "lost" ELSE r.COMTX)
    /\ UNCHANGED <<pc, m_tx_status, m_tx_buf, baud, torn, line>>

DmaRequested ==
    /\ r.DMACFG /\ r.enabled /\ ~r.masked /\ r.COMTX = "empty" /\ r.request
    /\ "EDMAT" \in r.COMIEN /\ {"UART", "DMA"} \cap r.clk_dis = {}

\* From the end of the source, as many bytes before it as are left.
Source ==
    LET at == r.desc.src - (IF r.desc.src_inc = 0 THEN r.desc.left - 1 ELSE 0)
    IN IF at \in 1 .. TxSize THEN m_tx_buf[at] ELSE "?"

(* The last transfer disables the channel and raises its interrupt.        *)
Transfer ==
    LET last == r.desc.left = 1
    IN [r EXCEPT !.COMTX   = IF r.desc.dest = "COMTX" /\ r.desc.dst_inc = 3 THEN Source ELSE "empty",
                 !.request = FALSE,
                 !.desc.left  = IF last THEN 1 ELSE @ - 1,
                 !.desc.cycle = IF last THEN "STOP" ELSE @,
                 !.enabled = ~last, !.done = last]

\* With a descriptor that nobody filled in, the transfer may go anywhere, or end here.
Dma ==
    /\ DmaRequested
    /\ \/ r.desc.cycle \in {"BASIC", "?"} /\ r.desc.left > 0 /\ r' = Transfer
       \/ r.desc.cycle \in {"STOP", "?"} /\ r' = [r EXCEPT !.enabled = FALSE, !.request = FALSE]
    /\ UNCHANGED <<pc, m_tx_status, m_tx_buf, baud, torn, line, wire>>

LineNext ==
    \/ bsp_startup \/ DMA_UART_TX_Int_Handler \/ Shift \/ Dma
    \/ \E index \in DOMAIN baud_array : uart_ios(index)
    \/ \E n \in 1 .. TxSize + 1, byte \in Symbols :
         transmit([i \in 1 .. n |-> IF i = n THEN byte ELSE CHOOSE s \in Symbols : s # byte])

--------------------------------------------------------------------------------
(* Properties.                                                             *)

\* The rate is within a thousandth of what was asked for (UrtLib.c:59).
Accurate ==
    LET unit == baud * 2 ^ r.urt_cd * (IF r.div2 THEN 2 ELSE 1) * r.COMDIV * (2048 + r.N)
        off  == 500000 * 2048 - unit
    IN r.FBEN /\ r.N \in 0 .. 2047 /\ (IF off < 0 THEN -off ELSE off) <= unit \div 1000

(* Once start-up is over and whatever rate is set, the line is at that     *)
(* rate, with its pins, its sources of interrupts and its clocks on, and   *)
(* the watchdog does not reset the device.                                 *)
LineSet ==
    pc = "run" =>
        /\ Accurate /\ r.bits = 8 /\ r.wdt_irq
        /\ r.COMIEN = {"ERBFI", "ELSI", "EDSSI", "EDMAT"}
        /\ r.con[4] = 0 /\ 4 \in r.oen /\ r.con[6] = 1 /\ r.con[7] = 2
        /\ r.cd = 0 /\ {"UART", "DMA", "I2C", "PWM", "ADC"} \cap r.clk_dis = {}

(* Unless the rate changes in the middle of it, a line leaves byte by byte *)
(* as it was handed over, while the driver of the line sends, and then the *)
(* transmitter is free and the driver receives again.                      *)
LineLeaves ==
    LET sent == IF wire # <<>> /\ wire[1] = "0" THEN SubSeq(wire, 2, Len(wire)) ELSE wire
    IN ~torn => /\ IsPrefix(sent, line)
                /\ m_tx_status = "idle" /\ pc = "run" => sent = line /\ 4 \in r.out

LineTypeOK ==
    /\ pc \in {"reset", "run"} /\ m_tx_status \in {"idle", "processing"} /\ torn \in BOOLEAN
    /\ m_tx_buf \in [1 .. TxSize -> Symbols \cup {"?"}] /\ baud \in {0} \cup Range(baud_array)
================================================================================
