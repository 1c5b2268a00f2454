------------------------------- MODULE Interrupts -------------------------------
(***************************************************************************)
(* What may preempt what: PRIMASK and the NVIC as start-up and the drivers *)
(* set them (bsp_startup.cpp, cpu_interrupt.cpp, cpu_tick.cpp, cpu_iic.cpp, *)
(* cpu_uart.cpp, drv_ad.cpp, with lib/common/core_cm3.h), the preemption    *)
(* that follows, and the critical sections that any context may enter.     *)
(* The atomic steps of the other modules rest on this one.                 *)
(***************************************************************************)
EXTENDS Naturals, Sequences

CONSTANTS Lowest,                \* PEND_SV_PRIO, and what SysTick_Config sets
          UART_IRQ_PRIO, I2CM_IRQ_PRIO, DMA_UART_TX_IRQ_PRIO,
          MaxNest                \* bound: critical sections within each other

InterruptsAssumption ==
    /\ Lowest \in Nat /\ MaxNest \in Nat
    /\ UART_IRQ_PRIO \in 0 .. Lowest /\ I2CM_IRQ_PRIO \in 0 .. Lowest
    /\ DMA_UART_TX_IRQ_PRIO \in 0 .. Lowest

\* The interrupts that have a use, with their places in the vector table.
Number == [PendSV |-> 14, SysTick |-> 15, UART |-> 33, I2CM |-> 37,
           DMA_UART_TX |-> 41, DMA_ADC1 |-> 49]
Irqs     == {"PendSV", "SysTick", "UART", "I2CM", "DMA_UART_TX", "DMA_ADC1"}
Contexts == Irqs \cup {"main"}

VARIABLES pc,        \* how far the foreground has come in setting all this up
          primask,
          prio,      \* NVIC->IP and SCB->SHP
          enabled,   \* NVIC->ISER, and CTRL of SysTick; PendSV always is
          pending,   \* NVIC->ISPR, and PENDSVSET
          active,    \* handlers that have begun and not returned
          levels     \* what each context's critical sections are to restore

nvic == <<prio, enabled>>
vars == <<pc, primask, nvic, pending, active, levels>>

TypeOK ==
    /\ pc \in {"pendsv", "tick", "uart", "unmask", "ad", "iic", "line", "run", "ios"}
    /\ primask \in BOOLEAN /\ prio \in [Irqs -> 0 .. Lowest]
    /\ enabled \subseteq Irqs /\ pending \subseteq Irqs /\ active \subseteq Irqs
    /\ levels \in [Contexts -> Seq(BOOLEAN)]
    /\ \A c \in Contexts : Len(levels[c]) <= MaxNest

\* Reset_Handler masks the interrupts; priorities are 0 after reset.
Init ==
    /\ pc = "pendsv" /\ primask = TRUE
    /\ prio = [i \in Irqs |-> 0] /\ enabled = {"PendSV"}
    /\ pending = {} /\ active = {} /\ levels = [c \in Contexts |-> <<>>]

--------------------------------------------------------------------------------
(* The processor.                                                          *)

More(i, j) == prio[i] < prio[j] \/ (prio[i] = prio[j] /\ Number[i] < Number[j])

\* c is the context that runs.
Runs(c) == IF c = "main" THEN active = {}
           ELSE c \in active /\ \A j \in active \ {c} : prio[c] < prio[j]

\* A peripheral asks for its interrupt, enabled or not; only SysTick has none before.
Raise(i) ==
    /\ i # "PendSV" /\ (i = "SysTick" => i \in enabled)
    /\ pending' = pending \cup {i}
    /\ UNCHANGED <<pc, primask, nvic, active, levels>>

Enter(i) ==
    /\ i \in pending \cap enabled /\ ~primask
    /\ \A j \in active : prio[i] < prio[j]
    /\ \A j \in (pending \cap enabled) \ {i} : More(i, j)
    /\ active' = active \cup {i} /\ pending' = pending \ {i}
    /\ UNCHANGED <<pc, primask, nvic, levels>>

Return(i) ==
    /\ i # "main" /\ Runs(i) /\ levels[i] = <<>>
    /\ active' = active \ {i}
    /\ UNCHANGED <<pc, primask, nvic, pending, levels>>

--------------------------------------------------------------------------------
(* Any context.                                                            *)

cpu_interruptDisable(c) ==
    /\ Runs(c) /\ Len(levels[c]) < MaxNest
    /\ levels' = [levels EXCEPT ![c] = Append(@, primask)]
    /\ primask' = TRUE
    /\ UNCHANGED <<pc, nvic, pending, active>>

\* (mutant) the end of an inner section lets the interrupts in
cpu_interruptEnable_now(c) ==
    /\ Runs(c) /\ levels[c] # <<>>
    /\ levels' = [levels EXCEPT ![c] = SubSeq(@, 1, Len(@) - 1)]
    /\ primask' = FALSE
    /\ UNCHANGED <<pc, nvic, pending, active>>

cpu_interruptEnable(c) ==
    /\ Runs(c) /\ levels[c] # <<>>
    /\ levels' = [levels EXCEPT ![c] = SubSeq(@, 1, Len(@) - 1)]
    /\ primask' = levels[c][Len(levels[c])]
    /\ UNCHANGED <<pc, nvic, pending, active>>

\* transceiver::force_done, in the handlers that find a frame to be complete
cpu_pendsv_trig(c) ==
    /\ Runs(c) /\ c \in {"UART", "SysTick"}
    /\ pending' = pending \cup {"PendSV"}
    /\ UNCHANGED <<pc, primask, nvic, active, levels>>

--------------------------------------------------------------------------------
(* The foreground sets up.                                                 *)

NVIC_SetPriority(irq, priority) == prio' = [prio EXCEPT ![irq] = priority]
NVIC_EnableIRQ(irq)             == enabled' = enabled \cup {irq}
NVIC_DisableIRQ(irq)            == enabled' = enabled \ {irq}

Step(from, to) ==
    /\ Runs("main") /\ levels["main"] = <<>> /\ pc = from /\ pc' = to
    /\ UNCHANGED <<pending, active, levels>>

\* (mutant) PendSV is left at the priority it has after reset
cpu_pendsv_init_not == Step("pendsv", "tick") /\ UNCHANGED <<primask, nvic>>

cpu_pendsv_init ==
    Step("pendsv", "tick") /\ NVIC_SetPriority("PendSV", Lowest) /\ UNCHANGED <<primask, enabled>>

\* cpu_tick_run
SysTick_Config ==
    /\ Step("tick", "uart")
    /\ NVIC_SetPriority("SysTick", Lowest) /\ NVIC_EnableIRQ("SysTick") /\ UNCHANGED primask

\* transceiver_uart0::init, from the driver's own init
uart_init ==
    /\ Step("uart", "unmask")
    /\ NVIC_SetPriority("DMA_UART_TX", DMA_UART_TX_IRQ_PRIO) /\ NVIC_EnableIRQ("DMA_UART_TX")
    /\ UNCHANGED primask

cpu_interruptEnableNow == Step("unmask", "ad") /\ primask' = FALSE /\ UNCHANGED nvic

ADC1_Init == Step("ad", "iic") /\ NVIC_EnableIRQ("DMA_ADC1") /\ UNCHANGED <<primask, prio>>

cpu_iic_interrupt_enable ==
    /\ Step("iic", "line")
    /\ NVIC_SetPriority("I2CM", I2CM_IRQ_PRIO) /\ NVIC_EnableIRQ("I2CM") /\ UNCHANGED primask

uart_enableIRQ ==
    /\ Step("line", "run")
    /\ NVIC_SetPriority("UART", UART_IRQ_PRIO) /\ NVIC_EnableIRQ("UART") /\ UNCHANGED primask

\* (mutant) the interrupt of the line is left enabled
uart_ios_open == Step("run", "ios") /\ UNCHANGED <<primask, nvic>>

\* A new baud rate: the line is initialised with its interrupt disabled ...
uart_ios == Step("run", "ios") /\ NVIC_DisableIRQ("UART") /\ UNCHANGED <<primask, prio>>

\* ... which includes the priority of its DMA channel, and enabled again.
uart_ios_init ==
    /\ Step("ios", "run")
    /\ NVIC_SetPriority("DMA_UART_TX", DMA_UART_TX_IRQ_PRIO) /\ NVIC_EnableIRQ("UART")
    /\ UNCHANGED primask

SetUp ==
    \/ cpu_pendsv_init \/ SysTick_Config \/ uart_init \/ cpu_interruptEnableNow \/ ADC1_Init
    \/ cpu_iic_interrupt_enable \/ uart_enableIRQ \/ uart_ios \/ uart_ios_init

Next ==
    \/ \E i \in Irqs : Raise(i) \/ Enter(i) \/ Return(i)
    \/ \E c \in Contexts : cpu_interruptDisable(c) \/ cpu_interruptEnable(c) \/ cpu_pendsv_trig(c)
    \/ SetUp

Spec == Init /\ [][Next]_vars

--------------------------------------------------------------------------------
(* Properties.                                                             *)

(* main.cpp:281, drv_commu.cpp, service.cpp: what PendSV does is not cut   *)
(* by SysTick nor the other way round, and no handler by itself, as of the *)
(* handlers that have begun no two have the same priority.                 *)
NeverNested ==
    /\ ~({"PendSV", "SysTick"} \subseteq active)
    /\ \A i, j \in active : i # j => prio[i] # prio[j]

(* Between cpu_interruptDisable and cpu_interruptEnable no other context   *)
(* runs, however sections lie within each other; and the interrupts are    *)
(* masked in sections and nowhere else.                                    *)
SectionsHold ==
    /\ \A c \in Contexts : levels[c] # <<>> => Runs(c) /\ primask
    /\ pc \notin {"pendsv", "tick", "uart", "unmask"} /\ primask =>
         \E c \in Contexts : levels[c] # <<>>

(* Nothing runs but the foreground until start-up lets it, and no byte     *)
(* arrives while the line is being set to a new baud rate.                 *)
NotBefore ==
    /\ pc \in {"pendsv", "tick", "uart", "unmask"} => active = {}
    /\ pc \in {"ios", "line"} => "UART" \notin active

PreemptionSound == NeverNested /\ SectionsHold /\ NotBefore
================================================================================
