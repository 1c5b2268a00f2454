--------------------------------- MODULE Vectors ---------------------------------
(***************************************************************************)
(* The interrupts of Interrupts in the registers of the NVIC, as           *)
(* core_cm3.h writes them, and the handlers that startup_ADuCM360.s has    *)
(* the processor go to.  An interrupt has two numbers: the one that the    *)
(* drivers and core_cm3.h use, and its place in the vector table.  A place *)
(* that the program does not fill has a loop that never ends.              *)
(***************************************************************************)
EXTENDS Interrupts, Integers

CONSTANTS PrioBits,              \* __NVIC_PRIO_BITS
          TicksPerSecond         \* TICK_PER_SECOND

\* 1 << k, within a byte and its carry.
Shifted(k) == <<1, 2, 4, 8, 16, 32, 64, 128, 256>>[k + 1]

VectorsAssumption ==
    /\ InterruptsAssumption
    /\ PrioBits \in 1 .. 8 /\ Lowest = Shifted(PrioBits) - 1
    /\ TicksPerSecond \in 1 .. 1000 /\ 1000 % TicksPerSecond = 0

\* __Vectors; "0" is an entry that is reserved.
VectorTable ==
    <<"__initial_sp", "Reset", "NMI", "HardFault", "MemManage", "BusFault", "UsageFault", "0",
      "0", "0", "0", "SVC", "DebugMon", "0", "PendSV", "SysTick",
      "WakeUp", "Ext_Int0", "Ext_Int1", "Ext_Int2", "Ext_Int3", "Ext_Int4", "Ext_Int5",
      "Ext_Int6", "Ext_Int7", "WDog_Tmr", "0", "GP_Tmr0", "GP_Tmr1", "ADC0", "ADC1", "SINC2",
      "Flsh", "UART", "SPI0", "SPI1", "I2C0_Slave", "I2C0_Master", "DMA_Err", "DMA_SPI1_TX",
      "DMA_SPI1_RX", "DMA_UART_TX", "DMA_UART_RX", "DMA_I2C0_STX", "DMA_I2C0_SRX",
      "DMA_I2C0_MTX", "DMA_I2C0_MRX", "DMA_DAC_Out", "DMA_ADC0", "DMA_ADC1", "DMA_SINC2",
      "PWMTRIP", "PWM0", "PWM1", "PWM2", "0">>

\* What startup_ADuCM360.s itself has for a place: reset, or B . (weak, so that
Loops    == {VectorTable[n] : n \in 3 .. Len(VectorTable)} \ {"0"}
\* a handler of the same name in the program takes its place.)
TickHandlers == {"SysTick", "GP_Tmr0", "GP_Tmr1", "WDog_Tmr"}
AdHandlers   == {"ADC0", "ADC1", "SINC2", "DMA_ADC0", "DMA_ADC1", "DMA_Err"}
PwmHandlers  == {"PWM0", "PWM1"}
UartHandlers == {"UART", "DMA_UART_TX"}
Program      == TickHandlers \cup AdHandlers \cup PwmHandlers \cup UartHandlers
                    \cup {"PendSV", "I2C0_Master"}

\* Where the processor goes for the exception with a number.
Handler(exception) ==
    LET name == VectorTable[exception + 1]
    IN IF name \in Program THEN name
       ELSE IF name \in Loops THEN "B ." ELSE "none"

\* IRQn_Type, as the drivers use it; the header is the tool chain's.
IRQn == [PendSV |-> -2, SysTick |-> -1, UART |-> 17, I2CM |-> 21, DMA_UART_TX |-> 25,
         DMA_ADC1 |-> 33]

VARIABLES ISER,      \* the bits that are set, in each word
          IP, SHP,   \* a byte for each interrupt, and for each exception from 4 on
          LOAD, TICKINT

registers == <<ISER, IP, SHP, LOAD, TICKINT>>
vectorvars == <<vars, registers>>

SysTick_LOAD_RELOAD_Msk == 16777215

\* The registers that the program uses of each block: two words of ISER are wired.
NVIC_Type    == [ISER : [0 .. 1 -> SUBSET (0 .. 31)], IP : [0 .. 39 -> 0 .. 255]]
SCB_Type     == [SHP : [0 .. 11 -> 0 .. 255]]
SysTick_Type == [LOAD : 0 .. SysTick_LOAD_RELOAD_Msk, TICKINT : BOOLEAN]

VectorsTypeOK ==
    /\ TypeOK
    /\ [ISER |-> ISER, IP |-> IP] \in NVIC_Type
    /\ [SHP |-> SHP] \in SCB_Type
    /\ [LOAD |-> LOAD, TICKINT |-> TICKINT] \in SysTick_Type

VectorsInit ==
    /\ Init
    /\ ISER = [w \in 0 .. 1 |-> {}]
    /\ IP = [n \in 0 .. 39 |-> 0] /\ SHP = [n \in 0 .. 11 |-> 0]
    /\ LOAD = 0 /\ TICKINT = FALSE

--------------------------------------------------------------------------------
(* core_cm3.h.                                                             *)

\* (mutant) always in the first word
SetEnable_word0(n) == ISER' = [ISER EXCEPT ![0] = @ \cup {n % 32}]

\* ISER and ICER: a bit that is written as 1 acts, the others are left alone.
SetEnable(n)   == ISER' = [ISER EXCEPT ![n \div 32] = @ \cup {n % 32}]
ClearEnable(n) == ISER' = [ISER EXCEPT ![n \div 32] = @ \ {n % 32}]

SetPriority(n, priority) ==
    LET field == (priority * Shifted(8 - PrioBits)) % 256
    IN IF n < 0 THEN SHP' = [SHP EXCEPT ![(n % 16) - 4] = field] /\ UNCHANGED IP
       ELSE IP' = [IP EXCEPT ![n] = field] /\ UNCHANGED SHP

\* What SysTick is given to count, at 16 MHz.
Ticks == 16 * 1000 * (1000 \div TicksPerSecond)

\* SysTick_Config itself: nothing is done for what LOAD cannot hold.
SysTick_Start(ticks) ==
    IF ticks > SysTick_LOAD_RELOAD_Msk THEN UNCHANGED registers
    ELSE /\ SetPriority(IRQn.SysTick, Shifted(PrioBits) - 1)
         /\ LOAD' = ticks - 1 /\ TICKINT' = TRUE /\ UNCHANGED ISER

--------------------------------------------------------------------------------
Tick == UNCHANGED <<LOAD, TICKINT>>

VectorsSetUp ==
    \/ cpu_pendsv_init /\ SetPriority(IRQn.PendSV, Shifted(PrioBits) - 1) /\ Tick /\ UNCHANGED ISER
    \/ SysTick_Config /\ SysTick_Start(Ticks)
    \/ /\ uart_init \/ uart_ios_init
       /\ SetPriority(IRQn.DMA_UART_TX, DMA_UART_TX_IRQ_PRIO)
       /\ IF pc = "ios" THEN SetEnable(IRQn.UART) ELSE SetEnable(IRQn.DMA_UART_TX)
       /\ Tick
    \/ cpu_interruptEnableNow /\ UNCHANGED registers
    \/ ADC1_Init /\ SetEnable(IRQn.DMA_ADC1) /\ Tick /\ UNCHANGED <<IP, SHP>>
    \/ /\ cpu_iic_interrupt_enable
       /\ SetPriority(IRQn.I2CM, I2CM_IRQ_PRIO) /\ SetEnable(IRQn.I2CM) /\ Tick
    \/ /\ uart_enableIRQ
       /\ SetPriority(IRQn.UART, UART_IRQ_PRIO) /\ SetEnable(IRQn.UART) /\ Tick
    \/ uart_ios /\ ClearEnable(IRQn.UART) /\ Tick /\ UNCHANGED <<IP, SHP>>

VectorsNext ==
    \/ VectorsSetUp
    \/ /\ \/ \E i \in Irqs : Raise(i) \/ Enter(i) \/ Return(i)
          \/ \E c \in Contexts :
               cpu_interruptDisable(c) \/ cpu_interruptEnable(c) \/ cpu_pendsv_trig(c)
       /\ UNCHANGED registers

--------------------------------------------------------------------------------
(* Properties.                                                             *)

\* Whose handler each of the interrupts is to have.
HandlerOf == [PendSV |-> "PendSV", SysTick |-> "SysTick", UART |-> "UART",
              I2CM |-> "I2C0_Master", DMA_UART_TX |-> "DMA_UART_TX", DMA_ADC1 |-> "DMA_ADC1"]

\* As NVIC_GetPriority reads the registers back.
GetPriority(n) ==
    (IF n < 0 THEN SHP[(n % 16) - 4] ELSE IP[n]) \div Shifted(8 - PrioBits)

\* How the processor reads the registers, by the place in the vector table.
On(exception) ==
    CASE exception = 14 -> TRUE
      [] exception = 15 -> TICKINT
      [] OTHER -> (exception - 16) % 32 \in ISER[(exception - 16) \div 32]

(* The numbers of the drivers and the places of the vector table are the   *)
(* same interrupts: what has been enabled is enabled, and nothing else,    *)
(* with its own priority, it has a handler, its own, and the tick that     *)
(* this sets off is one of TICK_PER_SECOND to the second.                  *)
Handled ==
    /\ \A e \in 14 .. 55 :
         On(e) => \E i \in enabled : Number[i] = e /\ Handler(e) = HandlerOf[i]
    /\ \A i \in enabled : On(Number[i])
    /\ \A i \in Irqs : GetPriority(Number[i] - 16) = prio[i]
    /\ "SysTick" \in enabled => (LOAD + 1) * TicksPerSecond = 16 * 1000 * 1000
================================================================================
