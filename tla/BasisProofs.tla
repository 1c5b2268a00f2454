------------------------------ MODULE BasisProofs ------------------------------
(***************************************************************************)
(* Preemption is as the other modules take it to be, for any priorities    *)
(* and any depth of critical sections, and the structures keep what they   *)
(* are given, of any size.                                                 *)
(*                                                                         *)
(* Two handlers at work have different priorities because one only begins  *)
(* over less urgent ones, and priorities only change while none is at      *)
(* work.  A context with an open section is the one that runs because the  *)
(* interrupts are masked, and the level that opens the outermost section   *)
(* is the only one that lets them in again: Nested says so.  With the      *)
(* bytes of the NVIC - a bit of ISER for each interrupt, a byte of IP or   *)
(* SHP for its priority, SysTick's period - whatever is enabled has a      *)
(* handler of its own in the vector table.                                 *)
(*                                                                         *)
(* The structures then, each with an invariant that ties the memory to the *)
(* history: the bytes of an event are the data, the cells of the ring what *)
(* was written, the links of a list lead round its items and back, and     *)
(* each message of the queue is free, queued or in one context's hands.    *)
(***************************************************************************)
EXTENDS Basis, SequenceTheorems, FiniteSetTheorems, WellFoundedInduction, TLAPS

Early == pc \in {"pendsv", "tick", "uart", "unmask"}

\* Before start-up lets them in, interrupts are masked, and nothing runs.
Masked == Early => primask /\ active = {}

\* The handlers that have begun are all of different urgency.
Strict == \A i, j \in active : i # j => prio[i] # prio[j]

\* PendSV and SysTick are of the same priority once both have been set.
Equals ==
    /\ pc # "pendsv" => prio["PendSV"] = Lowest
    /\ pc \notin {"pendsv", "tick"} => prio["SysTick"] = Lowest

\* Open sections are the running context's.
Open == \A c \in Contexts : levels[c] # <<>> => Runs(c) /\ primask

\* What a section restores: what there was outside of it.
Nested ==
    \A c \in Contexts : \A k \in 1 .. Len(levels[c]) : levels[c][k] = (k > 1 \/ Early)

Unmasked == ~Early /\ primask => \E c \in Contexts : levels[c] # <<>>

\* The handler of the line only works while its interrupt is enabled.
Line ==
    /\ "UART" \in active => "UART" \in enabled
    /\ "UART" \in enabled => pc = "run"

Inv == TypeOK /\ Masked /\ Strict /\ Equals /\ Open /\ Nested /\ Unmasked /\ Line

LEMMA InitInv == ASSUME InterruptsAssumption PROVE Init => Inv
  BY DEF InterruptsAssumption, Init, Inv, TypeOK, Masked, Strict, Equals, Open, Nested, Unmasked,
         Line, Early, Irqs, Contexts

--------------------------------------------------------------------------------
LEMMA EmptyLevels ==
  ASSUME NEW s \in Seq(BOOLEAN)
  PROVE  Len(s) \in Nat /\ (s = <<>> <=> Len(s) = 0)
  OBVIOUS

\* Only one context runs.
LEMMA RunsAlone ==
  ASSUME TypeOK, NEW c \in Contexts, NEW d \in Contexts, Runs(c), Runs(d)
  PROVE  c = d
<1>1. CASE c = "main" \/ d = "main" BY <1>1 DEF Runs, Contexts
<1>2. CASE c # "main" /\ d # "main"
  <2>1. c \in active /\ d \in active BY <1>2 DEF Runs
  <2>2. prio[c] \in Nat /\ prio[d] \in Nat BY <2>1 DEF TypeOK, Irqs
  <2>3. c # d => prio[c] < prio[d] /\ prio[d] < prio[c] BY <1>2, <2>1 DEF Runs
  <2> QED BY <2>2, <2>3
<1> QED BY <1>1, <1>2

LEMMA RaiseInv ==
  ASSUME Inv, NEW i \in Irqs, Raise(i) PROVE Inv'
  BY DEF Inv, Raise, nvic, TypeOK, Masked, Strict, Equals, Open, Nested, Unmasked, Line, Early,
     Runs

LEMMA TrigInv ==
  ASSUME Inv, NEW c \in Contexts, cpu_pendsv_trig(c) PROVE Inv'
  BY DEF Inv, cpu_pendsv_trig, nvic, TypeOK, Masked, Strict, Equals, Open, Nested, Unmasked, Line,
         Early, Runs, Irqs

LEMMA EnterInv ==
  ASSUME InterruptsAssumption, Inv, NEW i \in Irqs, Enter(i) PROVE Inv'
<1> USE DEF Inv
<1>1. ~primask /\ ~Early BY DEF Enter, Masked
<1>2. \A c \in Contexts : levels[c] = <<>> BY <1>1 DEF Open
<1>3. UNCHANGED <<pc, primask, prio, enabled, levels>> /\ active' = active \cup {i}
      /\ pending' = pending \ {i} /\ i \in enabled
  BY DEF Enter, nvic
<1>4. TypeOK' BY <1>3 DEF TypeOK
<1>5. Strict'
  <2>1. \A j \in active : prio[i] # prio[j]
    <3>1. \A j \in active : prio[i] < prio[j] BY DEF Enter
    <3>2. \A j \in Irqs : prio[j] \in Nat BY DEF TypeOK
    <3> QED BY <3>1, <3>2 DEF TypeOK
  <2> QED BY <1>3, <2>1 DEF Strict
<1>6. Masked' /\ Equals' /\ Nested' /\ Unmasked' BY <1>1, <1>2, <1>3 DEF Masked, Equals, Nested, Unmasked, Early
<1>7. Open' BY <1>2, <1>3 DEF Open
<1>8. Line' BY <1>3 DEF Line
<1> QED BY <1>4, <1>5, <1>6, <1>7, <1>8

LEMMA ReturnInv ==
  ASSUME Inv, NEW i \in Irqs, Return(i) PROVE Inv'
<1> USE DEF Inv
<1>1. UNCHANGED <<pc, primask, prio, enabled, pending, levels>> /\ active' = active \ {i}
  BY DEF Return, nvic
<1>2. Runs(i) /\ levels[i] = <<>> /\ i # "main" /\ i \in Contexts BY DEF Return, Irqs, Contexts
<1>3. \A c \in Contexts : levels[c] = <<>>
  BY <1>2, RunsAlone DEF Open
<1>4. TypeOK' /\ Masked' /\ Strict' /\ Equals' /\ Line'
  BY <1>1 DEF TypeOK, Masked, Strict, Equals, Line, Early
<1>5. Nested' /\ Unmasked' BY <1>1 DEF Nested, Unmasked, Early
<1>6. Open' BY <1>1, <1>3 DEF Open
<1> QED BY <1>4, <1>5, <1>6

LEMMA DisableInv ==
  ASSUME InterruptsAssumption, Inv, NEW c \in Contexts, cpu_interruptDisable(c) PROVE Inv'
<1> USE DEF Inv
<1>1. /\ UNCHANGED <<pc, prio, enabled, pending, active>> /\ primask' = TRUE
      /\ levels' = [levels EXCEPT ![c] = Append(@, primask)]
      /\ Runs(c) /\ Len(levels[c]) < MaxNest
  BY DEF cpu_interruptDisable, nvic
<1>2. levels \in [Contexts -> Seq(BOOLEAN)] /\ primask \in BOOLEAN BY DEF TypeOK
<1>3. levels'[c] = Append(levels[c], primask) /\ levels[c] \in Seq(BOOLEAN) BY <1>1, <1>2
<1>4. \A d \in Contexts \ {c} : levels'[d] = levels[d] BY <1>1, <1>2
<1>5. TypeOK'
  <2>1. levels' \in [Contexts -> Seq(BOOLEAN)] BY <1>1, <1>2, <1>3
  <2>2. \A d \in Contexts : Len(levels'[d]) <= MaxNest
    <3>1. Len(levels'[c]) <= MaxNest BY <1>1, <1>3, <1>2 DEF InterruptsAssumption
    <3> QED BY <3>1, <1>4 DEF TypeOK
  <2> QED BY <1>1, <2>1, <2>2 DEF TypeOK
<1>6. Masked' /\ Strict' /\ Equals' /\ Line' BY <1>1 DEF Masked, Strict, Equals, Line, Early
<1>7. \A d \in Contexts \ {c} : levels[d] = <<>> BY <1>1, RunsAlone DEF Open
<1>8. Open' BY <1>1, <1>4, <1>7 DEF Open, Runs
<1>9. Nested'
  <2>1. primask = (Len(levels[c]) > 0 \/ Early)
    <3>1. CASE levels[c] # <<>>
      <4>1. primask = TRUE BY <3>1 DEF Open
      <4>2. Len(levels[c]) > 0 BY <3>1, <1>3, EmptyLevels
      <4> QED BY <4>1, <4>2
    <3>2. CASE levels[c] = <<>>
      <4>1. \A d \in Contexts : levels[d] = <<>> BY <3>2, <1>7
      <4>2. Len(levels[c]) = 0 BY <3>2
      <4>3. Early => primask BY DEF Masked
      <4>4. primask => Early BY <4>1 DEF Unmasked
      <4> QED BY <4>2, <4>3, <4>4, <1>2
    <3> QED BY <3>1, <3>2
  <2>2. \A k \in 1 .. Len(levels'[c]) : levels'[c][k] = (k > 1 \/ Early)
    <3> SUFFICES ASSUME NEW k \in 1 .. Len(levels'[c]) PROVE levels'[c][k] = (k > 1 \/ Early)
      OBVIOUS
    <3>1. Len(levels'[c]) = Len(levels[c]) + 1 /\ Len(levels[c]) \in Nat BY <1>3
    <3>2. CASE k <= Len(levels[c]) BY <3>2, <1>3, <3>1 DEF Nested
    <3>3. CASE k = Len(levels[c]) + 1
      <4>1. levels'[c][k] = primask BY <3>3, <1>3
      <4>2. (k > 1) = (Len(levels[c]) > 0) BY <3>3, <3>1
      <4> QED BY <4>1, <4>2, <2>1
    <3> QED BY <3>1, <3>2, <3>3
  <2>3. Early' = Early BY <1>1 DEF Early
  <2> QED BY <2>2, <2>3, <1>4, <1>7 DEF Nested
<1>10. Unmasked'
  <2>1. Len(levels'[c]) > 0 /\ levels'[c] \in Seq(BOOLEAN) BY <1>2, <1>3, EmptyLevels
  <2> QED BY <2>1, EmptyLevels DEF Unmasked
<1> QED BY <1>5, <1>6, <1>8, <1>9, <1>10

LEMMA EnableInv ==
  ASSUME InterruptsAssumption, Inv, NEW c \in Contexts, cpu_interruptEnable(c) PROVE Inv'
<1> USE DEF Inv
<1> DEFINE n == Len(levels[c])
<1>1. /\ UNCHANGED <<pc, prio, enabled, pending, active>> /\ primask' = levels[c][n]
      /\ levels' = [levels EXCEPT ![c] = SubSeq(@, 1, n - 1)]
      /\ Runs(c) /\ levels[c] # <<>>
  BY DEF cpu_interruptEnable, nvic
<1>2. levels \in [Contexts -> Seq(BOOLEAN)] /\ levels[c] \in Seq(BOOLEAN) BY DEF TypeOK
<1>3. n \in Nat \ {0} BY <1>1, <1>2
<1>4. /\ levels'[c] = SubSeq(levels[c], 1, n - 1) /\ levels'[c] \in Seq(BOOLEAN)
      /\ Len(levels'[c]) = n - 1 /\ \A k \in 1 .. n - 1 : levels'[c][k] = levels[c][k]
  <2>1. levels'[c] = SubSeq(levels[c], 1, n - 1) BY <1>1, <1>2
  <2>2. n - 1 \in Nat /\ n - 1 <= n BY <1>3
  <2>3. \A k \in 1 .. n - 1 : levels[c][k] \in BOOLEAN BY <1>2, <2>2
  <2>4. /\ SubSeq(levels[c], 1, n - 1) \in Seq(BOOLEAN)
        /\ Len(SubSeq(levels[c], 1, n - 1)) = IF 1 <= n - 1 THEN n - 1 - 1 + 1 ELSE 0
        /\ \A k \in 1 .. n - 1 - 1 + 1 : SubSeq(levels[c], 1, n - 1)[k] = levels[c][1 + k - 1]
    BY <2>2, <2>3, SubSeqProperties
  <2> QED BY <2>1, <2>2, <2>4
<1>5. \A d \in Contexts \ {c} : levels'[d] = levels[d] /\ levels[d] = <<>>
  BY <1>1, <1>2, RunsAlone DEF Open
<1>6. primask' = (n > 1 \/ Early) BY <1>1, <1>3 DEF Nested
<1>7. TypeOK'
  <2>1. levels' \in [Contexts -> Seq(BOOLEAN)] BY <1>1, <1>2, <1>4
  <2>2. \A d \in Contexts : Len(levels'[d]) <= MaxNest
    <3>1. n <= MaxNest BY DEF TypeOK
    <3> QED BY <3>1, <1>3, <1>4, <1>5 DEF TypeOK, InterruptsAssumption
  <2>3. primask' \in BOOLEAN BY <1>6
  <2> QED BY <1>1, <2>1, <2>2, <2>3 DEF TypeOK
<1>8. Masked' /\ Strict' /\ Equals' /\ Line' BY <1>1, <1>6 DEF Masked, Strict, Equals, Line, Early
<1>9. Open'
  <2>1. levels'[c] # <<>> => primask'
    <3>1. levels'[c] # <<>> => n > 1 BY <1>3, <1>4, EmptyLevels
    <3> QED BY <3>1, <1>6
  <2> QED BY <1>1, <1>5, <2>1 DEF Open, Runs
<1>10. Nested'
  <2>1. Early' = Early BY <1>1 DEF Early
  <2>2. ASSUME NEW k \in 1 .. Len(levels'[c]) PROVE levels'[c][k] = (k > 1 \/ Early)
    <3>1. k \in 1 .. n - 1 /\ k \in 1 .. n BY <1>3, <1>4
    <3>2. levels'[c][k] = levels[c][k] BY <1>4, <3>1
    <3>3. levels[c][k] = (k > 1 \/ Early) BY <3>1 DEF Nested
    <3> QED BY <3>2, <3>3
  <2> QED BY <2>1, <2>2, <1>5 DEF Nested
<1>11. Unmasked'
  <2>1. ~Early /\ primask' => levels'[c] # <<>>
    <3>1. ASSUME n > 1 PROVE levels'[c] # <<>>
      <4>1. Len(levels'[c]) > 0 BY <1>3, <1>4, <3>1
      <4>2. levels'[c] \in Seq(BOOLEAN) BY <1>4
      <4> HIDE DEF n
      <4> QED BY <4>1, <4>2, EmptyLevels
    <3> QED BY <3>1, <1>6
  <2> QED BY <2>1, <1>1 DEF Unmasked, Early
<1> QED BY <1>7, <1>8, <1>9, <1>10, <1>11

LEMMA SetUpInv ==
  ASSUME InterruptsAssumption, Inv, SetUp PROVE Inv'
<1> USE DEF Inv
<1>1. active = {} /\ levels["main"] = <<>> /\ UNCHANGED <<pending, active, levels>>
  BY DEF SetUp, Step, Runs, cpu_pendsv_init, SysTick_Config, uart_init, cpu_interruptEnableNow,
         ADC1_Init, cpu_iic_interrupt_enable, uart_enableIRQ, uart_ios, uart_ios_init
<1>2. \A c \in Contexts : levels[c] = <<>>
  BY <1>1 DEF Open, Runs, Contexts
<1>3. pc' \in {"pendsv", "tick", "uart", "unmask", "ad", "iic", "line", "run", "ios"}
  BY DEF SetUp, Step, Early, cpu_pendsv_init, SysTick_Config, uart_init, cpu_interruptEnableNow,
         ADC1_Init, cpu_iic_interrupt_enable, uart_enableIRQ, uart_ios, uart_ios_init
<1>4. prio \in [Irqs -> 0 .. Lowest] BY DEF TypeOK
<1>5. TypeOK'
  <2>1. primask' \in BOOLEAN
    BY DEF TypeOK, SetUp, Step, nvic, cpu_pendsv_init, SysTick_Config, uart_init,
       cpu_interruptEnableNow, ADC1_Init, cpu_iic_interrupt_enable, uart_enableIRQ, uart_ios,
       uart_ios_init
  <2>2. prio' \in [Irqs -> 0 .. Lowest]
    <3>1. 0 .. Lowest \subseteq Nat /\ Lowest \in 0 .. Lowest BY DEF InterruptsAssumption
    <3>2. PICK p \in 0 .. Lowest : prio' = prio \/ \E i \in Irqs : prio' = [prio EXCEPT ![i] = p]
      BY <3>1 DEF InterruptsAssumption, SetUp, nvic, cpu_pendsv_init, SysTick_Config, uart_init,
         cpu_interruptEnableNow, ADC1_Init, cpu_iic_interrupt_enable, uart_enableIRQ, uart_ios,
         uart_ios_init, NVIC_SetPriority, Irqs
    <3> QED BY <3>2, <1>4
  <2>3. enabled' \subseteq Irqs
    BY DEF TypeOK, SetUp, nvic, cpu_pendsv_init, SysTick_Config, uart_init,
       cpu_interruptEnableNow, ADC1_Init, cpu_iic_interrupt_enable, uart_enableIRQ, uart_ios,
       uart_ios_init, NVIC_EnableIRQ, NVIC_DisableIRQ, Irqs
  <2> QED BY <1>1, <1>3, <2>1, <2>2, <2>3 DEF TypeOK
<1>6. Masked' /\ Unmasked'
  BY <1>1, <1>2 DEF Masked, Unmasked, Early, SetUp, Step, nvic, cpu_pendsv_init, SysTick_Config,
     uart_init, cpu_interruptEnableNow, ADC1_Init, cpu_iic_interrupt_enable, uart_enableIRQ, uart_ios,
     uart_ios_init
<1>7. Strict' /\ Open' /\ Nested' BY <1>1, <1>2 DEF Strict, Open, Nested
<1>8. Equals'
  BY <1>4 DEF Equals, Irqs, SetUp, Step, nvic, cpu_pendsv_init, SysTick_Config, uart_init,
     cpu_interruptEnableNow, ADC1_Init, cpu_iic_interrupt_enable, uart_enableIRQ, uart_ios,
     uart_ios_init, NVIC_SetPriority
<1>9. Line'
  BY <1>1 DEF Line, SetUp, Step, nvic, cpu_pendsv_init, SysTick_Config, uart_init,
     cpu_interruptEnableNow, ADC1_Init, cpu_iic_interrupt_enable, uart_enableIRQ, uart_ios,
     uart_ios_init, NVIC_EnableIRQ, NVIC_DisableIRQ
<1> QED BY <1>5, <1>6, <1>7, <1>8, <1>9

LEMMA NextInv == ASSUME InterruptsAssumption, Inv, [Next]_vars PROVE Inv'
<1>1. CASE UNCHANGED vars
  BY <1>1 DEF Inv, vars, nvic, TypeOK, Masked, Strict, Equals, Open, Nested, Unmasked, Line,
     Early,
              Runs
<1>2. CASE \E i \in Irqs : Raise(i) \/ Enter(i) \/ Return(i)
  BY <1>2, RaiseInv, EnterInv, ReturnInv
<1>3. CASE \E c \in Contexts :
             cpu_interruptDisable(c) \/ cpu_interruptEnable(c) \/ cpu_pendsv_trig(c)
  BY <1>3, DisableInv, EnableInv, TrigInv
<1>4. CASE SetUp BY <1>4, SetUpInv
<1> QED BY <1>1, <1>2, <1>3, <1>4 DEF Next

--------------------------------------------------------------------------------
LEMMA InvPreempts == ASSUME Inv PROVE PreemptionSound
<1> USE DEF Inv
<1>1. NeverNested
  <2>1. ASSUME "PendSV" \in active, "SysTick" \in active PROVE FALSE
    <3>1. ~Early BY <2>1 DEF Masked
    <3>2. prio["PendSV"] = prio["SysTick"] BY <3>1 DEF Equals, Early
    <3> QED BY <2>1, <3>2 DEF Strict
  <2> QED BY <2>1 DEF NeverNested, Strict
<1>2. SectionsHold BY DEF SectionsHold, Open, Unmasked, Early
<1>3. NotBefore BY DEF NotBefore, Masked, Early, Line
<1> QED BY <1>1, <1>2, <1>3 DEF PreemptionSound

(* Priorities stay in their range, and sections within the bound.          *)
THEOREM TypeCorrect == ASSUME InterruptsAssumption PROVE Spec => []TypeOK
<1>1. Inv => TypeOK BY DEF Inv
<1> QED BY InitInv, NextInv, <1>1, PTL DEF Spec

(* No two of PendSV, SysTick and one handler are ever cut by each other,   *)
(* critical sections hold and end, and neither start-up nor a change of    *)
(* the baud rate is interrupted too soon.                                  *)
THEOREM Preempts == ASSUME InterruptsAssumption PROVE Spec => []PreemptionSound
<1>1. Inv => PreemptionSound BY InvPreempts
<1> QED BY InitInv, NextInv, <1>1, PTL DEF Spec

--------------------------------------------------------------------------------
(* The registers of Vectors mirror what Interrupts keeps by name.          *)

\* What NVIC_SetPriority leaves of a priority.
Field(priority) == (priority * Shifted(8 - PrioBits)) % 256

\* The interrupts with a bit in ISER.
Wired == {"UART", "I2CM", "DMA_UART_TX", "DMA_ADC1"}

Enables ==
    /\ ISER \in [0 .. 1 -> SUBSET (0 .. 31)]
    /\ \A b \in 0 .. 31 : b \in ISER[0] <=> \E i \in enabled \cap Wired : IRQn[i] = b
    /\ \A b \in 0 .. 31 : b \in ISER[1] <=> \E i \in enabled \cap Wired : IRQn[i] = b + 32

Priorities ==
    /\ IP \in [0 .. 39 -> 0 .. 255] /\ SHP \in [0 .. 11 -> 0 .. 255]
    /\ SHP[10] = Field(prio["PendSV"]) /\ SHP[11] = Field(prio["SysTick"])
    /\ \A i \in Wired : IP[IRQn[i]] = Field(prio[i])

Ticking ==
    /\ LOAD \in 0 .. SysTick_LOAD_RELOAD_Msk /\ TICKINT \in BOOLEAN
    /\ TICKINT <=> "SysTick" \in enabled
    /\ "SysTick" \in enabled => LOAD = Ticks - 1

VectorsInv == Inv /\ "PendSV" \in enabled /\ Enables /\ Priorities /\ Ticking

LEMMA Shifts ==
  ASSUME VectorsAssumption
  PROVE  /\ Shifted(PrioBits) \in Nat /\ Shifted(8 - PrioBits) \in Nat \ {0}
         /\ Shifted(PrioBits) - 1 = Lowest
         /\ \A p \in 0 .. Lowest : Field(p) \in 0 .. 255 /\ Field(p) \div Shifted(8 - PrioBits) = p
<1>1. PrioBits \in {1, 2, 3, 4, 5, 6, 7, 8}
  BY DEF VectorsAssumption
<1>2. /\ Shifted(0) = 1 /\ Shifted(1) = 2 /\ Shifted(2) = 4 /\ Shifted(3) = 8
      /\ Shifted(4) = 16 /\ Shifted(5) = 32 /\ Shifted(6) = 64 /\ Shifted(7) = 128
      /\ Shifted(8) = 256
  BY DEF Shifted
<1>3. Lowest = Shifted(PrioBits) - 1
  BY DEF VectorsAssumption
<1>4. CASE PrioBits = 1
  BY <1>2, <1>3, <1>4 DEF Field
<1>5. CASE PrioBits = 2
  BY <1>2, <1>3, <1>5 DEF Field
<1>6. CASE PrioBits = 3
  BY <1>2, <1>3, <1>6 DEF Field
<1>7. CASE PrioBits = 4
  BY <1>2, <1>3, <1>7 DEF Field
<1>8. CASE PrioBits = 5
  BY <1>2, <1>3, <1>8 DEF Field
<1>9. CASE PrioBits = 6
  BY <1>2, <1>3, <1>9 DEF Field
<1>10. CASE PrioBits = 7
  BY <1>2, <1>3, <1>10 DEF Field
<1>11. CASE PrioBits = 8
  BY <1>2, <1>3, <1>11 DEF Field
<1>12. QED
  BY <1>1, <1>4, <1>5, <1>6, <1>7, <1>8, <1>9, <1>10, <1>11

LEMMA LoadHolds == SysTick_LOAD_RELOAD_Msk \in Nat
  BY SMT DEF SysTick_LOAD_RELOAD_Msk

\* SysTick can count what it is given, and a second has that many of it.
LEMMA TicksFit ==
  ASSUME VectorsAssumption
  PROVE  /\ Ticks \in 1 .. SysTick_LOAD_RELOAD_Msk
         /\ Ticks * TicksPerSecond = 16 * 1000 * 1000
<1> DEFINE q == 1000 \div TicksPerSecond
<1>1. TicksPerSecond \in 1 .. 1000 /\ 1000 % TicksPerSecond = 0
  BY DEF VectorsAssumption
<1>2. q \in Nat /\ 1000 = q * TicksPerSecond
  BY <1>1
<1>3. q \in 1 .. 1000
  BY <1>1, <1>2
<1> HIDE DEF q
<1>4. 16 * 1000 * q * TicksPerSecond = 16 * 1000 * 1000
  BY <1>1, <1>2, <1>3
<1>5. Ticks = 16 * 1000 * q
  BY DEF Ticks, q
<1>6. 16 * 1000 * q \in Nat /\ 1 <= 16 * 1000 * q
  BY <1>3
<1>7. 16 * 1000 * q <= SysTick_LOAD_RELOAD_Msk
  BY <1>3, SMT DEF SysTick_LOAD_RELOAD_Msk
<1>8. QED
  BY <1>4, <1>5, <1>6, <1>7, LoadHolds

LEMMA VectorsInitInv ==
  ASSUME VectorsAssumption, VectorsInit
  PROVE  VectorsInv
<1>1. Inv
  BY InitInv DEF VectorsAssumption, VectorsInit
<1>2. /\ prio = [i \in Irqs |-> 0] /\ enabled = {"PendSV"}
      /\ ISER = [w \in 0 .. 1 |-> {}] /\ IP = [n \in 0 .. 39 |-> 0] /\ SHP = [n \in 0 .. 11 |-> 0]
      /\ LOAD = 0 /\ TICKINT = FALSE
  BY DEF VectorsInit, Init
<1>3. Field(0) = 0
  BY Shifts DEF Field
<1>4. Enables
  BY <1>2 DEF Enables, Wired
<1>5. \A i \in Wired : IRQn[i] \in 0 .. 39 /\ i \in Irqs
  BY DEF Wired, IRQn, Irqs
<1>6. Priorities
  BY <1>2, <1>3, <1>5 DEF Priorities, Irqs
<1>7. Ticking
  <2>1. "SysTick" \notin enabled /\ TICKINT = FALSE
    BY <1>2
  <2>2. LOAD \in 0 .. SysTick_LOAD_RELOAD_Msk
    BY <1>2, LoadHolds
  <2>3. QED
    BY <2>1, <2>2, Zenon DEF Ticking
<1>8. QED
  BY <1>1, <1>2, <1>4, <1>6, <1>7 DEF VectorsInv

--------------------------------------------------------------------------------
(* What core_cm3.h does, in these terms.                                   *)

Numbers == IRQn.PendSV = -2 /\ IRQn.SysTick = -1 /\ IRQn.UART = 17 /\ IRQn.I2CM = 21
           /\ IRQn.DMA_UART_TX = 25 /\ IRQn.DMA_ADC1 = 33

LEMMA NumbersAre == Numbers
  BY DEF Numbers, IRQn

LEMMA EnableSets ==
  ASSUME Enables, NEW i \in Wired, SetEnable(IRQn[i]), enabled' = enabled \cup {i}
  PROVE  Enables'
<1>1. \A j \in Wired : IRQn[j] \in 0 .. 39
  BY NumbersAre DEF Wired, Numbers
<1>2. /\ ISER \in [0 .. 1 -> SUBSET (0 .. 31)]
      /\ \A b \in 0 .. 31 : b \in ISER[0] <=> \E j \in enabled \cap Wired : IRQn[j] = b
      /\ \A b \in 0 .. 31 : b \in ISER[1] <=> \E j \in enabled \cap Wired : IRQn[j] = b + 32
  BY DEF Enables
<1>3. CASE IRQn[i] < 32
  <2>1. IRQn[i] \in 0 .. 31 /\ IRQn[i] \div 32 = 0 /\ IRQn[i] % 32 = IRQn[i]
    BY <1>1, <1>3
  <2>2. ISER' = [ISER EXCEPT ![0] = ISER[0] \cup {IRQn[i]}]
    BY <2>1 DEF SetEnable
  <2>3. /\ ISER' \in [0 .. 1 -> SUBSET (0 .. 31)]
        /\ ISER'[0] = ISER[0] \cup {IRQn[i]} /\ ISER'[1] = ISER[1]
    BY <1>2, <2>1, <2>2
  <2>4. ASSUME NEW b \in 0 .. 31
        PROVE  b \in ISER'[0] <=> \E j \in enabled' \cap Wired : IRQn[j] = b
    BY <1>2, <2>3
  <2>5. ASSUME NEW b \in 0 .. 31
        PROVE  b \in ISER'[1] <=> \E j \in enabled' \cap Wired : IRQn[j] = b + 32
    <3>1. IRQn[i] # b + 32
      BY <2>1
    <3>2. QED
      BY <1>2, <2>3, <3>1
  <2>6. QED
    BY <2>3, <2>4, <2>5 DEF Enables
<1>4. CASE IRQn[i] >= 32
  <2>1. IRQn[i] - 32 \in 0 .. 7 /\ IRQn[i] \div 32 = 1 /\ IRQn[i] % 32 = IRQn[i] - 32
    BY <1>1, <1>4
  <2>2. ISER' = [ISER EXCEPT ![1] = ISER[1] \cup {IRQn[i] - 32}]
    BY <2>1 DEF SetEnable
  <2>3. /\ ISER' \in [0 .. 1 -> SUBSET (0 .. 31)]
        /\ ISER'[1] = ISER[1] \cup {IRQn[i] - 32} /\ ISER'[0] = ISER[0]
    BY <1>2, <2>1, <2>2
  <2>4. ASSUME NEW b \in 0 .. 31
        PROVE  b \in ISER'[1] <=> \E j \in enabled' \cap Wired : IRQn[j] = b + 32
    <3>1. IRQn[i] = b + 32 <=> b = IRQn[i] - 32
      BY <1>1
    <3>2. QED
      BY <1>2, <2>3, <3>1
  <2>5. ASSUME NEW b \in 0 .. 31
        PROVE  b \in ISER'[0] <=> \E j \in enabled' \cap Wired : IRQn[j] = b
    <3>1. IRQn[i] # b
      BY <1>4
    <3>2. QED
      BY <1>2, <2>3, <3>1
  <2>6. QED
    BY <2>3, <2>4, <2>5 DEF Enables
<1>5. QED
  BY <1>1, <1>3, <1>4

LEMMA DisableClears ==
  ASSUME Enables, ClearEnable(IRQn["UART"]), enabled' = enabled \ {"UART"}
  PROVE  Enables'
<1>1. IRQn["UART"] = 17 /\ "UART" \in Wired /\ \A j \in Wired \ {"UART"} : IRQn[j] # 17
  BY NumbersAre DEF Wired, Numbers
<1>2. /\ ISER \in [0 .. 1 -> SUBSET (0 .. 31)]
      /\ \A b \in 0 .. 31 : b \in ISER[0] <=> \E j \in enabled \cap Wired : IRQn[j] = b
      /\ \A b \in 0 .. 31 : b \in ISER[1] <=> \E j \in enabled \cap Wired : IRQn[j] = b + 32
  BY DEF Enables
<1>3. ISER' = [ISER EXCEPT ![0] = ISER[0] \ {17}]
  <2>1. 17 \div 32 = 0 /\ 17 % 32 = 17
    OBVIOUS
  <2>2. QED
    BY <1>1, <2>1 DEF ClearEnable
<1>4. ISER' \in [0 .. 1 -> SUBSET (0 .. 31)] /\ ISER'[0] = ISER[0] \ {17} /\ ISER'[1] = ISER[1]
  BY <1>2, <1>3
<1>5. ASSUME NEW b \in 0 .. 31
      PROVE  b \in ISER'[0] <=> \E j \in enabled' \cap Wired : IRQn[j] = b
  BY <1>1, <1>2, <1>4
<1>6. ASSUME NEW b \in 0 .. 31
      PROVE  b \in ISER'[1] <=> \E j \in enabled' \cap Wired : IRQn[j] = b + 32
  <2>1. 17 # b + 32
    OBVIOUS
  <2>2. QED
    BY <1>1, <1>2, <1>4, <2>1
<1>7. QED
  BY <1>4, <1>5, <1>6 DEF Enables

LEMMA EnablesStay ==
  ASSUME Enables, enabled' \cap Wired = enabled \cap Wired, ISER' = ISER
  PROVE  Enables'
  BY DEF Enables

LEMMA PrioritySets ==
  ASSUME VectorsAssumption, TypeOK, Priorities, NEW i \in Irqs, NEW p \in 0 .. Lowest,
         SetPriority(IRQn[i], p), prio' = [prio EXCEPT ![i] = p]
  PROVE  Priorities'
<1>1. Field(p) \in 0 .. 255
  BY Shifts
<1>2. SHP \in [0 .. 11 -> 0 .. 255]
  BY DEF Priorities
<1>3. prio'[i] = p /\ \A j \in Irqs \ {i} : prio'[j] = prio[j]
  BY DEF TypeOK
<1>4. CASE i = "PendSV"
  <2>1. SHP' = [SHP EXCEPT ![10] = Field(p)] /\ UNCHANGED IP
    BY <1>4, NumbersAre DEF SetPriority, Numbers, Field
  <2>2. /\ SHP' \in [0 .. 11 -> 0 .. 255]
        /\ SHP'[10] = Field(p) /\ SHP'[11] = SHP[11]
    <3>1. 10 \in 0 .. 11 /\ 11 \in 0 .. 11 /\ 10 # 11
      OBVIOUS
    <3>2. QED
      BY <1>1, <1>2, <2>1, <3>1
  <2>3. prio'["PendSV"] = p /\ prio'["SysTick"] = prio["SysTick"]
    BY <1>3, <1>4 DEF Irqs
  <2>4. \A j \in Wired : prio'[j] = prio[j]
    BY <1>3, <1>4 DEF Irqs, Wired
  <2>5. QED
    BY <2>1, <2>2, <2>3, <2>4 DEF Priorities
<1>5. CASE i = "SysTick"
  <2>1. SHP' = [SHP EXCEPT ![11] = Field(p)] /\ UNCHANGED IP
    BY <1>5, NumbersAre DEF SetPriority, Numbers, Field
  <2>2. /\ SHP' \in [0 .. 11 -> 0 .. 255]
        /\ SHP'[11] = Field(p) /\ SHP'[10] = SHP[10]
    <3>1. 10 \in 0 .. 11 /\ 11 \in 0 .. 11 /\ 10 # 11
      OBVIOUS
    <3>2. QED
      BY <1>1, <1>2, <2>1, <3>1
  <2>3. prio'["SysTick"] = p /\ prio'["PendSV"] = prio["PendSV"]
    BY <1>3, <1>5 DEF Irqs
  <2>4. \A j \in Wired : prio'[j] = prio[j]
    BY <1>3, <1>5 DEF Irqs, Wired
  <2>5. QED
    BY <2>1, <2>2, <2>3, <2>4 DEF Priorities
<1>6. CASE i \in Wired
  <2>1. IRQn[i] \in 0 .. 39 /\ \A j \in Wired : j # i => IRQn[j] # IRQn[i]
    BY <1>6, NumbersAre DEF Wired, Numbers
  <2>2. IP' = [IP EXCEPT ![IRQn[i]] = Field(p)] /\ UNCHANGED SHP
    BY <2>1 DEF SetPriority, Field
  <2>3. \A j \in Wired : IRQn[j] \in 0 .. 39 /\ j \in Irqs
    BY NumbersAre DEF Wired, Numbers, Irqs
  <2>4. IP \in [0 .. 39 -> 0 .. 255] /\ \A j \in Wired : IP[IRQn[j]] = Field(prio[j])
    BY DEF Priorities
  <2>5. /\ IP' \in [0 .. 39 -> 0 .. 255] /\ IP'[IRQn[i]] = Field(p)
        /\ \A j \in Wired \ {i} : IP'[IRQn[j]] = IP[IRQn[j]]
    BY <1>1, <2>1, <2>2, <2>3, <2>4
  <2>6. \A j \in Wired : IP'[IRQn[j]] = Field(prio'[j])
    BY <1>3, <2>3, <2>4, <2>5
  <2>7. prio'["PendSV"] = prio["PendSV"] /\ prio'["SysTick"] = prio["SysTick"]
    BY <1>3, <1>6 DEF Irqs, Wired
  <2>8. QED
    BY <1>2, <2>2, <2>5, <2>6, <2>7 DEF Priorities
<1>7. QED
  BY <1>4, <1>5, <1>6 DEF Irqs, Wired

LEMMA PrioritiesStay ==
  ASSUME Priorities, UNCHANGED <<prio, IP, SHP>>
  PROVE  Priorities'
  BY DEF Priorities

LEMMA TickingStays ==
  ASSUME Ticking, UNCHANGED <<LOAD, TICKINT>>, "SysTick" \in enabled' <=> "SysTick" \in enabled
  PROVE  Ticking'
  BY DEF Ticking, Ticks

LEMMA VectorsSetUpInv ==
  ASSUME VectorsAssumption, VectorsInv, VectorsSetUp
  PROVE  VectorsInv'
<1>1. InterruptsAssumption /\ TypeOK /\ Inv /\ Enables /\ Priorities /\ Ticking /\ "PendSV" \in enabled
  BY DEF VectorsAssumption, VectorsInv, Inv
<1>2. SetUp
  BY DEF VectorsSetUp, SetUp
<1>3. Inv'
  BY <1>1, <1>2, SetUpInv
<1>4. /\ Lowest \in 0 .. Lowest /\ UART_IRQ_PRIO \in 0 .. Lowest /\ I2CM_IRQ_PRIO \in 0 .. Lowest
      /\ DMA_UART_TX_IRQ_PRIO \in 0 .. Lowest
  BY <1>1 DEF InterruptsAssumption
<1>5. ASSUME cpu_pendsv_init, SetPriority(IRQn.PendSV, Shifted(PrioBits) - 1), Tick, UNCHANGED ISER
      PROVE  Enables' /\ Priorities' /\ Ticking' /\ "PendSV" \in enabled'
  <2>1. prio' = [prio EXCEPT !["PendSV"] = Lowest] /\ UNCHANGED enabled
    BY <1>5 DEF cpu_pendsv_init, NVIC_SetPriority
  <2>2. SetPriority(IRQn["PendSV"], Lowest) /\ "PendSV" \in Irqs
    BY <1>5, Shifts DEF Irqs
  <2>3. Priorities'
    BY <1>1, <1>4, <2>1, <2>2, PrioritySets
  <2>4. QED
    BY <1>1, <1>5, <2>1, <2>3, EnablesStay, TickingStays DEF Tick
<1>6. ASSUME SysTick_Config, SysTick_Start(Ticks)
      PROVE  Enables' /\ Priorities' /\ Ticking' /\ "PendSV" \in enabled'
  <2>1. prio' = [prio EXCEPT !["SysTick"] = Lowest] /\ enabled' = enabled \cup {"SysTick"}
    BY <1>6 DEF SysTick_Config, NVIC_SetPriority, NVIC_EnableIRQ
  <2>2. ~(Ticks > SysTick_LOAD_RELOAD_Msk)
    BY TicksFit, LoadHolds
  <2>3. /\ SetPriority(IRQn["SysTick"], Lowest) /\ "SysTick" \in Irqs
        /\ LOAD' = Ticks - 1 /\ TICKINT' = TRUE /\ UNCHANGED ISER
    BY <1>6, <2>2, Shifts DEF SysTick_Start, Irqs
  <2>4. Priorities'
    BY <1>1, <1>4, <2>1, <2>3, PrioritySets
  <2>5. Enables'
    BY <1>1, <2>1, <2>3, EnablesStay DEF Wired
  <2>6. LOAD' \in 0 .. SysTick_LOAD_RELOAD_Msk
    BY <2>3, TicksFit, LoadHolds
  <2>7. Ticks' = Ticks
    BY DEF Ticks
  <2>8. Ticking'
    BY <2>1, <2>3, <2>6, <2>7, Zenon DEF Ticking
  <2>9. QED
    BY <1>1, <2>1, <2>4, <2>5, <2>8
<1>7. ASSUME uart_init, SetPriority(IRQn.DMA_UART_TX, DMA_UART_TX_IRQ_PRIO),
             SetEnable(IRQn.DMA_UART_TX), Tick
      PROVE  Enables' /\ Priorities' /\ Ticking' /\ "PendSV" \in enabled'
  <2>1. /\ prio' = [prio EXCEPT !["DMA_UART_TX"] = DMA_UART_TX_IRQ_PRIO]
        /\ enabled' = enabled \cup {"DMA_UART_TX"}
    BY <1>7 DEF uart_init, NVIC_SetPriority, NVIC_EnableIRQ
  <2>2. "DMA_UART_TX" \in Irqs /\ "DMA_UART_TX" \in Wired
    BY DEF Irqs, Wired
  <2>3. Priorities' /\ Enables'
    BY <1>1, <1>4, <1>7, <2>1, <2>2, PrioritySets, EnableSets
  <2>4. QED
    BY <1>1, <1>7, <2>1, <2>3, TickingStays DEF Tick
<1>8. ASSUME uart_ios_init, SetPriority(IRQn.DMA_UART_TX, DMA_UART_TX_IRQ_PRIO),
             SetEnable(IRQn.UART), Tick
      PROVE  Enables' /\ Priorities' /\ Ticking' /\ "PendSV" \in enabled'
  <2>1. /\ prio' = [prio EXCEPT !["DMA_UART_TX"] = DMA_UART_TX_IRQ_PRIO]
        /\ enabled' = enabled \cup {"UART"}
    BY <1>8 DEF uart_ios_init, NVIC_SetPriority, NVIC_EnableIRQ
  <2>2. "DMA_UART_TX" \in Irqs /\ "UART" \in Wired
    BY DEF Irqs, Wired
  <2>3. Priorities' /\ Enables'
    BY <1>1, <1>4, <1>8, <2>1, <2>2, PrioritySets, EnableSets
  <2>4. QED
    BY <1>1, <1>8, <2>1, <2>3, TickingStays DEF Tick
<1>9. ASSUME cpu_interruptEnableNow, UNCHANGED registers
      PROVE  Enables' /\ Priorities' /\ Ticking' /\ "PendSV" \in enabled'
  <2>1. UNCHANGED <<prio, enabled>> /\ UNCHANGED <<ISER, IP, SHP, LOAD, TICKINT>>
    BY <1>9 DEF cpu_interruptEnableNow, registers, nvic
  <2>2. QED
    BY <1>1, <2>1, EnablesStay, PrioritiesStay, TickingStays
<1>10. ASSUME ADC1_Init, SetEnable(IRQn.DMA_ADC1), Tick, UNCHANGED <<IP, SHP>>
       PROVE  Enables' /\ Priorities' /\ Ticking' /\ "PendSV" \in enabled'
  <2>1. UNCHANGED prio /\ enabled' = enabled \cup {"DMA_ADC1"}
    BY <1>10 DEF ADC1_Init, NVIC_EnableIRQ
  <2>2. "DMA_ADC1" \in Wired
    BY DEF Wired
  <2>3. Priorities' /\ Enables'
    BY <1>1, <1>10, <2>1, <2>2, PrioritiesStay, EnableSets
  <2>4. QED
    BY <1>1, <1>10, <2>1, <2>3, TickingStays DEF Tick
<1>11. ASSUME cpu_iic_interrupt_enable, SetPriority(IRQn.I2CM, I2CM_IRQ_PRIO), SetEnable(IRQn.I2CM), Tick
       PROVE  Enables' /\ Priorities' /\ Ticking' /\ "PendSV" \in enabled'
  <2>1. prio' = [prio EXCEPT !["I2CM"] = I2CM_IRQ_PRIO] /\ enabled' = enabled \cup {"I2CM"}
    BY <1>11 DEF cpu_iic_interrupt_enable, NVIC_SetPriority, NVIC_EnableIRQ
  <2>2. "I2CM" \in Irqs /\ "I2CM" \in Wired
    BY DEF Irqs, Wired
  <2>3. Priorities' /\ Enables'
    BY <1>1, <1>4, <1>11, <2>1, <2>2, PrioritySets, EnableSets
  <2>4. QED
    BY <1>1, <1>11, <2>1, <2>3, TickingStays DEF Tick
<1>12. ASSUME uart_enableIRQ, SetPriority(IRQn.UART, UART_IRQ_PRIO), SetEnable(IRQn.UART), Tick
       PROVE  Enables' /\ Priorities' /\ Ticking' /\ "PendSV" \in enabled'
  <2>1. prio' = [prio EXCEPT !["UART"] = UART_IRQ_PRIO] /\ enabled' = enabled \cup {"UART"}
    BY <1>12 DEF uart_enableIRQ, NVIC_SetPriority, NVIC_EnableIRQ
  <2>2. "UART" \in Irqs /\ "UART" \in Wired
    BY DEF Irqs, Wired
  <2>3. Priorities' /\ Enables'
    BY <1>1, <1>4, <1>12, <2>1, <2>2, PrioritySets, EnableSets
  <2>4. QED
    BY <1>1, <1>12, <2>1, <2>3, TickingStays DEF Tick
<1>13. ASSUME uart_ios, ClearEnable(IRQn.UART), Tick, UNCHANGED <<IP, SHP>>
       PROVE  Enables' /\ Priorities' /\ Ticking' /\ "PendSV" \in enabled'
  <2>1. UNCHANGED prio /\ enabled' = enabled \ {"UART"}
    BY <1>13 DEF uart_ios, NVIC_DisableIRQ
  <2>2. Priorities' /\ Enables'
    BY <1>1, <1>13, <2>1, PrioritiesStay, DisableClears
  <2>3. QED
    BY <1>1, <1>13, <2>1, <2>2, TickingStays DEF Tick
<1>14. (uart_init => pc # "ios") /\ (uart_ios_init => pc = "ios")
  BY DEF uart_init, uart_ios_init, Step
<1>15. Enables' /\ Priorities' /\ Ticking' /\ "PendSV" \in enabled'
  BY <1>5, <1>6, <1>7, <1>8, <1>9, <1>10, <1>11, <1>12, <1>13, <1>14 DEF VectorsSetUp
<1>16. QED
  BY <1>3, <1>15 DEF VectorsInv

LEMMA VectorsNextInv ==
  ASSUME VectorsAssumption, VectorsInv, [VectorsNext]_vectorvars
  PROVE  VectorsInv'
<1>1. InterruptsAssumption /\ Inv
  BY DEF VectorsAssumption, VectorsInv
<1>2. ASSUME [Next]_vars, UNCHANGED <<prio, enabled>>, UNCHANGED registers
      PROVE  VectorsInv'
  <2>1. Inv'
    BY <1>1, <1>2, NextInv
  <2>2. UNCHANGED <<ISER, IP, SHP, LOAD, TICKINT>>
    BY <1>2 DEF registers
  <2>3. QED
    BY <1>2, <2>1, <2>2, EnablesStay, PrioritiesStay, TickingStays DEF VectorsInv
<1>3. CASE VectorsSetUp
  BY <1>3, VectorsSetUpInv
<1>4. CASE UNCHANGED vectorvars
  BY <1>2, <1>4 DEF vectorvars, vars, nvic
<1>5. CASE /\ \/ \E i \in Irqs : Raise(i) \/ Enter(i) \/ Return(i)
              \/ \E c \in Contexts :
                   cpu_interruptDisable(c) \/ cpu_interruptEnable(c) \/ cpu_pendsv_trig(c)
           /\ UNCHANGED registers
  <2>1. Next
    BY <1>5 DEF Next
  <2>2. UNCHANGED <<prio, enabled>>
    BY <1>5 DEF Raise, Enter, Return, cpu_interruptDisable, cpu_interruptEnable,
       cpu_pendsv_trig, nvic
  <2>3. QED
    BY <1>2, <1>5, <2>1, <2>2
<1>6. QED
  BY <1>3, <1>4, <1>5 DEF VectorsNext

--------------------------------------------------------------------------------
(* What follows.                                                           *)

LEMMA VectorsTypes == ASSUME VectorsInv PROVE VectorsTypeOK
  BY DEF VectorsInv, Inv, Enables, Priorities, Ticking, VectorsTypeOK, NVIC_Type, SCB_Type,
         SysTick_Type

\* The low four bits of the number of a processor exception, which is negative.
LEMMA Negative == ASSUME NEW n \in Int, NEW r \in 0 .. 15, n = r - 16 PROVE n < 0 /\ n % 16 = r
OBVIOUS

LEMMA HandlersAre ==
  /\ Handler(14) = "PendSV" /\ Handler(15) = "SysTick" /\ Handler(33) = "UART"
  /\ Handler(37) = "I2C0_Master" /\ Handler(41) = "DMA_UART_TX" /\ Handler(49) = "DMA_ADC1"
<1>1. /\ VectorTable[15] = "PendSV" /\ VectorTable[16] = "SysTick" /\ VectorTable[34] = "UART"
      /\ VectorTable[38] = "I2C0_Master" /\ VectorTable[42] = "DMA_UART_TX"
      /\ VectorTable[50] = "DMA_ADC1"
  BY DEF VectorTable
<1>2. /\ "PendSV" \in Program /\ "SysTick" \in Program /\ "UART" \in Program
      /\ "I2C0_Master" \in Program /\ "DMA_UART_TX" \in Program /\ "DMA_ADC1" \in Program
  BY DEF Program, TickHandlers, AdHandlers, PwmHandlers, UartHandlers
<1>3. QED
  BY <1>1, <1>2 DEF Handler

LEMMA AllHandled ==
  ASSUME VectorsAssumption, VectorsInv
  PROVE  Handled
<1>1. Inv /\ TypeOK /\ Enables /\ Priorities /\ Ticking /\ "PendSV" \in enabled
  BY DEF VectorsInv, Inv
<1>2. /\ Number["PendSV"] = 14 /\ Number["SysTick"] = 15
      /\ \A i \in Wired : Number[i] = IRQn[i] + 16 /\ IRQn[i] \in 0 .. 39
  BY NumbersAre DEF Number, Numbers, Wired
<1>3. \A i \in Irqs : i \in {"PendSV", "SysTick"} \/ i \in Wired
  BY DEF Irqs, Wired
<1>4. \A i \in Irqs : Handler(Number[i]) = HandlerOf[i]
  BY HandlersAre DEF Number, HandlerOf, Irqs
<1>5. ASSUME NEW e \in 14 .. 55, On(e)
      PROVE  \E i \in enabled : Number[i] = e /\ Handler(e) = HandlerOf[i]
  <2>1. CASE e = 14
    BY <1>1, <1>2, <1>4, <2>1 DEF Irqs
  <2>2. CASE e = 15
    <3>1. TICKINT \in BOOLEAN /\ On(15)
      BY <1>1, <1>5, <2>2 DEF Ticking
    <3>2. TICKINT = TRUE
      BY <3>1 DEF On
    <3>3. "SysTick" \in enabled
      BY <1>1, <3>2, Zenon DEF Ticking
    <3>4. QED
      BY <1>2, <1>4, <2>2, <3>3 DEF Irqs
  <2>3. CASE e \in 16 .. 47
    <3>1. (e - 16) % 32 = e - 16 /\ (e - 16) \div 32 = 0
      BY <2>3
    <3>2. e - 16 \in ISER[0]
      BY <1>5, <2>3, <3>1 DEF On
    <3>3. e - 16 \in 0 .. 31
      BY <2>3
    <3>4. PICK i \in enabled \cap Wired : IRQn[i] = e - 16
      BY <1>1, <3>2, <3>3 DEF Enables
    <3>5. Number[i] = e
      BY <1>2, <3>4
    <3>6. QED
      BY <1>1, <1>4, <3>4, <3>5 DEF TypeOK
  <2>4. CASE e \in 48 .. 55
    <3>1. (e - 16) % 32 = e - 48 /\ (e - 16) \div 32 = 1
      BY <2>4
    <3>2. e - 48 \in ISER[1]
      BY <1>5, <2>4, <3>1 DEF On
    <3>3. e - 48 \in 0 .. 31
      BY <2>4
    <3>4. PICK i \in enabled \cap Wired : IRQn[i] = (e - 48) + 32
      BY <1>1, <3>2, <3>3 DEF Enables
    <3>5. Number[i] = e
      BY <1>2, <3>4
    <3>6. QED
      BY <1>1, <1>4, <3>4, <3>5 DEF TypeOK
  <2>5. QED
    BY <2>1, <2>2, <2>3, <2>4
<1>6. ASSUME NEW i \in enabled
      PROVE  On(Number[i])
  <2>1. CASE i = "PendSV"
    BY <1>2, <2>1 DEF On
  <2>2. CASE i = "SysTick"
    <3>1. TICKINT
      BY <1>1, <2>2, Zenon DEF Ticking
    <3>2. QED
      BY <1>2, <2>2, <3>1 DEF On
  <2>3. CASE i \in Wired
    <3>1. CASE IRQn[i] < 32
      <4>1. IRQn[i] \in 0 .. 31 /\ IRQn[i] % 32 = IRQn[i] /\ IRQn[i] \div 32 = 0
        BY <1>2, <2>3, <3>1
      <4>2. IRQn[i] \in ISER[0]
        BY <1>1, <2>3, <4>1 DEF Enables
      <4>3. Number[i] - 16 = IRQn[i] /\ Number[i] \notin {14, 15}
        BY <1>2, <2>3
      <4>4. QED
        BY <4>1, <4>2, <4>3 DEF On
    <3>2. CASE IRQn[i] >= 32
      <4>1. IRQn[i] - 32 \in 0 .. 31 /\ IRQn[i] % 32 = IRQn[i] - 32 /\ IRQn[i] \div 32 = 1
        BY <1>2, <2>3, <3>2
      <4>2. IRQn[i] = (IRQn[i] - 32) + 32
        BY <1>2, <2>3
      <4>3. IRQn[i] - 32 \in ISER[1]
        BY <1>1, <2>3, <4>1, <4>2 DEF Enables
      <4>4. Number[i] - 16 = IRQn[i] /\ Number[i] \notin {14, 15}
        BY <1>2, <2>3
      <4>5. QED
        BY <4>1, <4>3, <4>4 DEF On
    <3>3. QED
      BY <1>2, <2>3, <3>1, <3>2
  <2>4. QED
    BY <1>1, <1>3, <2>1, <2>2, <2>3 DEF TypeOK
<1>7. ASSUME NEW i \in Irqs
      PROVE  GetPriority(Number[i] - 16) = prio[i]
  <2>1. Field(prio[i]) \div Shifted(8 - PrioBits) = prio[i]
    BY <1>1, Shifts DEF TypeOK
  <2>2. CASE i = "PendSV"
    <3>1. Number[i] - 16 < 0 /\ (Number[i] - 16) % 16 = 14
      <4>1. PICK r : r = 14
        OBVIOUS
      <4>2. r \in 0 .. 15 /\ Number[i] - 16 \in Int /\ Number[i] - 16 = r - 16
        BY <1>2, <2>2, <4>1
      <4>3. QED
        BY <4>1, <4>2, Negative
    <3>2. SHP[10] = Field(prio[i])
      BY <1>1, <2>2 DEF Priorities
    <3>3. GetPriority(Number[i] - 16) = SHP[10] \div Shifted(8 - PrioBits)
      BY <3>1 DEF GetPriority
    <3>4. QED
      BY <2>1, <3>2, <3>3
  <2>3. CASE i = "SysTick"
    <3>1. Number[i] - 16 < 0 /\ (Number[i] - 16) % 16 = 15
      <4>1. PICK r : r = 15
        OBVIOUS
      <4>2. r \in 0 .. 15 /\ Number[i] - 16 \in Int /\ Number[i] - 16 = r - 16
        BY <1>2, <2>3, <4>1
      <4>3. QED
        BY <4>1, <4>2, Negative
    <3>2. SHP[11] = Field(prio[i])
      BY <1>1, <2>3 DEF Priorities
    <3>3. GetPriority(Number[i] - 16) = SHP[11] \div Shifted(8 - PrioBits)
      BY <3>1 DEF GetPriority
    <3>4. QED
      BY <2>1, <3>2, <3>3
  <2>4. CASE i \in Wired
    <3>1. Number[i] - 16 = IRQn[i] /\ ~(IRQn[i] < 0)
      BY <1>2, <2>4
    <3>2. IP[IRQn[i]] = Field(prio[i])
      BY <1>1, <2>4 DEF Priorities
    <3>3. GetPriority(Number[i] - 16) = IP[IRQn[i]] \div Shifted(8 - PrioBits)
      BY <3>1 DEF GetPriority
    <3>4. QED
      BY <2>1, <3>2, <3>3
  <2>5. QED
    BY <1>3, <2>2, <2>3, <2>4
<1>8. "SysTick" \in enabled => (LOAD + 1) * TicksPerSecond = 16 * 1000 * 1000
  <2>1. ASSUME "SysTick" \in enabled
        PROVE  LOAD + 1 = Ticks
    <3>1. LOAD = Ticks - 1
      BY <1>1, <2>1 DEF Ticking
    <3>2. Ticks \in Int
      BY TicksFit
    <3>3. QED
      BY <3>1, <3>2
  <2>2. QED
    BY <2>1, TicksFit
<1>9. QED
  BY <1>5, <1>6, <1>7, <1>8 DEF Handled

LEMMA VectorsSound ==
  ASSUME VectorsAssumption, VectorsInv
  PROVE  VectorsTypeOK /\ PreemptionSound /\ Handled
  BY VectorsTypes, AllHandled, InvPreempts DEF VectorsInv

--------------------------------------------------------------------------------
(* What the proofs about the structures share.                             *)

\* A set of naturals has a least one.
LEMMA Least ==
    ASSUME NEW S, S \subseteq Nat, S # {}
    PROVE  \E m \in S : \A k \in S : m <= k
<1>1. \E m \in S : \A k \in S : ~ (<<k, m>> \in OpToRel(<, Nat))
  BY NatLessThanWellFounded, WFMin
<1>2. PICK m \in S : \A k \in S : ~ (<<k, m>> \in OpToRel(<, Nat))
  BY <1>1
<1>3. \A k \in S : ~ (k < m)
  BY <1>2 DEF OpToRel
<1>4. \A k \in S : m <= k
  BY <1>3
<1>5. QED
  BY <1>4

\* A set that has 0 and the successor of each of its numbers has them all.
LEMMA SetInduction ==
    ASSUME NEW S, 0 \in S, \A n \in Nat : n \in S => n + 1 \in S
    PROVE  Nat \subseteq S
<1> DEFINE Bad == Nat \ S
<1>1. SUFFICES ASSUME Bad # {} PROVE FALSE
  OBVIOUS
<1>2. PICK m \in Bad : \A k \in Bad : m <= k
  <2> HIDE DEF Bad
  <2> QED BY <1>1, Least, Bad \subseteq Nat DEF Bad
<1>3. m # 0 /\ m \in Nat
  OBVIOUS
<1>4. m - 1 \in Nat /\ m - 1 \notin Bad
  BY <1>2, <1>3
<1>5. QED
  BY <1>4, <1>2, <1>3

\* A sequence is what it is element by element.
LEMMA IsSeq ==
  ASSUME NEW S, NEW n \in Nat, NEW f \in [1 .. n -> S]
  PROVE  f \in Seq(S) /\ Len(f) = n
OBVIOUS

\* What is in a sequence, and one that has nothing twice.
In(q, m) == \E k \in 1 .. Len(q) : q[k] = m
Distinct(q) == \A j, k \in 1 .. Len(q) : q[j] = q[k] => j = k

\* The structures' own instances of FiniteSets say what FiniteSets does.
LEMMA SameSizes ==
  ASSUME NEW S
  PROVE  /\ LL!IsFiniteSet(S) <=> IsFiniteSet(S)
         /\ LL!Cardinality(S) = Cardinality(S) /\ MQ!Cardinality(S) = Cardinality(S)
<1>1. LL!IsFiniteSet(S) <=> IsFiniteSet(S)
  BY DEF LL!IsFiniteSet, IsFiniteSet
<1>2. LL!Cardinality(S) = Cardinality(S)
  BY DEF LL!Cardinality, Cardinality
<1>3. MQ!Cardinality(S) = Cardinality(S)
  BY DEF MQ!Cardinality, Cardinality
<1>4. QED
  BY <1>1, <1>2, <1>3

--------------------------------------------------------------------------------
(* The bytes of an event.  Between its indices they are the data, and an   *)
(* operation moves an index, and bytes, of one event only.                 *)

D == def_EVENT_DATA_SIZE

\* The bytes p between r and w are the data d.
Holds(p, r, w, d) ==
    /\ p \in [0 .. D - 1 -> Bytes] /\ r \in 0 .. D /\ w \in 0 .. D /\ r <= w
    /\ d \in Seq(Bytes) /\ Len(d) = w - r
    /\ \A i \in 1 .. Len(d) : d[i] = p[r + i - 1]

\* Every event keeps its data, whatever became of the others.
BufferInv ==
    /\ EB!TypeOK /\ data \in [EB!Events -> Seq(Bytes)]
    /\ \A e \in EB!Events : Holds(b_param[e], readerIndex_[e], writerIndex_[e], data[e])

\* The bytes b are put behind the data ...
LEMMA Appended ==
  ASSUME EB!EventBufferAssumption, NEW p, NEW r, NEW w, NEW d, Holds(p, r, w, d),
         NEW b \in Seq(Bytes), Len(b) <= D - w,
         NEW q, q = [i \in DOMAIN p |-> IF i \in w .. w + Len(b) - 1 THEN b[i - w + 1] ELSE p[i]]
  PROVE  Holds(q, r, w + Len(b), d \o b)
<1>1. /\ D \in Nat /\ p \in [0 .. D - 1 -> Bytes] /\ r \in 0 .. D /\ w \in 0 .. D /\ r <= w
      /\ d \in Seq(Bytes) /\ Len(d) = w - r /\ Len(b) \in Nat
      /\ \A i \in 1 .. Len(d) : d[i] = p[r + i - 1]
  BY DEF EB!EventBufferAssumption, Holds, D
<1>2. DOMAIN p = 0 .. D - 1
  BY <1>1
<1>3. \A i \in 0 .. D - 1 : q[i] = IF i \in w .. w + Len(b) - 1 THEN b[i - w + 1] ELSE p[i]
  BY <1>2
<1>4. q \in [0 .. D - 1 -> Bytes]
  <2>1. ASSUME NEW i \in 0 .. D - 1
        PROVE  (IF i \in w .. w + Len(b) - 1 THEN b[i - w + 1] ELSE p[i]) \in Bytes
    <3>1. CASE i \in w .. w + Len(b) - 1
      <4>1. i - w + 1 \in 1 .. Len(b)
        BY <1>1, <3>1
      <4>2. QED
        BY <3>1, <4>1
    <3>2. CASE i \notin w .. w + Len(b) - 1
      BY <1>1, <3>2
    <3>3. QED
      BY <3>1, <3>2
  <2>2. QED
    BY <1>2, <2>1
<1>5. /\ d \o b \in Seq(Bytes) /\ Len(d \o b) = Len(d) + Len(b)
      /\ \A i \in 1 .. Len(d) + Len(b) : (d \o b)[i] = IF i <= Len(d) THEN d[i] ELSE b[i - Len(d)]
  BY <1>1, ConcatProperties
<1>6. ASSUME NEW i \in 1 .. Len(d) + Len(b) PROVE (d \o b)[i] = q[r + i - 1]
  <2>1. r + i - 1 \in 0 .. D - 1
    BY <1>1
  <2>2. CASE i <= Len(d)
    <3>1. r + i - 1 \notin w .. w + Len(b) - 1 /\ i \in 1 .. Len(d)
      BY <1>1, <2>2
    <3>2. QED
      BY <1>1, <1>3, <1>5, <2>1, <2>2, <3>1
  <2>3. CASE ~(i <= Len(d))
    <3>1. r + i - 1 \in w .. w + Len(b) - 1 /\ (r + i - 1) - w + 1 = i - Len(d)
      BY <1>1, <2>3
    <3>2. q[r + i - 1] = b[i - Len(d)]
      BY <1>3, <2>1, <3>1
    <3>3. QED
      BY <1>5, <2>3, <3>2
  <2>4. QED
    BY <2>2, <2>3
<1>7. /\ w + Len(b) \in 0 .. D /\ r <= w + Len(b) /\ Len(d) + Len(b) = (w + Len(b)) - r
  BY <1>1
<1>8. QED
  BY <1>1, <1>4, <1>5, <1>6, <1>7 DEF Holds

\* ... or before it.
LEMMA Prepended ==
  ASSUME EB!EventBufferAssumption, NEW p, NEW r, NEW w, NEW d, Holds(p, r, w, d),
         NEW b \in Seq(Bytes), Len(b) <= r, NEW a, a = r - Len(b),
         NEW q, q = [i \in DOMAIN p |-> IF i \in a .. a + Len(b) - 1 THEN b[i - a + 1] ELSE p[i]]
  PROVE  Holds(q, a, w, b \o d)
<1>1. /\ D \in Nat /\ p \in [0 .. D - 1 -> Bytes] /\ r \in 0 .. D /\ w \in 0 .. D /\ r <= w
      /\ d \in Seq(Bytes) /\ Len(d) = w - r /\ Len(b) \in Nat
      /\ \A i \in 1 .. Len(d) : d[i] = p[r + i - 1]
  BY DEF EB!EventBufferAssumption, Holds, D
<1>2. DOMAIN p = 0 .. D - 1 /\ a \in 0 .. D /\ a + Len(b) = r
  BY <1>1
<1>3. \A i \in 0 .. D - 1 : q[i] = IF i \in a .. a + Len(b) - 1 THEN b[i - a + 1] ELSE p[i]
  BY <1>2
<1>4. q \in [0 .. D - 1 -> Bytes]
  <2>1. ASSUME NEW i \in 0 .. D - 1
        PROVE  (IF i \in a .. a + Len(b) - 1 THEN b[i - a + 1] ELSE p[i]) \in Bytes
    <3>1. CASE i \in a .. a + Len(b) - 1
      <4>1. i - a + 1 \in 1 .. Len(b)
        BY <1>1, <1>2, <3>1
      <4>2. QED
        BY <3>1, <4>1
    <3>2. CASE i \notin a .. a + Len(b) - 1
      BY <1>1, <3>2
    <3>3. QED
      BY <3>1, <3>2
  <2>2. QED
    BY <1>2, <2>1
<1>5. /\ b \o d \in Seq(Bytes) /\ Len(b \o d) = Len(b) + Len(d)
      /\ \A i \in 1 .. Len(b) + Len(d) : (b \o d)[i] = IF i <= Len(b) THEN b[i] ELSE d[i - Len(b)]
  BY <1>1, ConcatProperties
<1>6. ASSUME NEW i \in 1 .. Len(b) + Len(d) PROVE (b \o d)[i] = q[a + i - 1]
  <2>1. a + i - 1 \in 0 .. D - 1
    BY <1>1, <1>2
  <2>2. CASE i <= Len(b)
    <3>1. a + i - 1 \in a .. a + Len(b) - 1 /\ (a + i - 1) - a + 1 = i
      BY <1>1, <1>2, <2>2
    <3>2. q[a + i - 1] = b[i]
      BY <1>3, <2>1, <3>1
    <3>3. QED
      BY <1>5, <2>2, <3>2
  <2>3. CASE ~(i <= Len(b))
    <3>1. /\ a + i - 1 \notin a .. a + Len(b) - 1 /\ i - Len(b) \in 1 .. Len(d)
          /\ r + (i - Len(b)) - 1 = a + i - 1
      BY <1>1, <1>2, <2>3
    <3>2. q[a + i - 1] = p[a + i - 1]
      BY <1>3, <2>1, <3>1
    <3>3. d[i - Len(b)] = p[r + (i - Len(b)) - 1]
      BY <1>1, <3>1
    <3>4. (b \o d)[i] = d[i - Len(b)]
      BY <1>5, <2>3
    <3>5. QED
      BY <3>1, <3>2, <3>3, <3>4
  <2>4. QED
    BY <2>2, <2>3
<1>7. a <= w /\ Len(b) + Len(d) = w - a
  BY <1>1, <1>2
<1>8. QED
  BY <1>1, <1>2, <1>4, <1>5, <1>6, <1>7 DEF Holds

\* The first n bytes are taken.
LEMMA Taken ==
  ASSUME EB!EventBufferAssumption, NEW p, NEW r, NEW w, NEW d, Holds(p, r, w, d),
         NEW n \in Nat, n <= w - r
  PROVE  Holds(p, r + n, w, SubSeq(d, n + 1, Len(d)))
<1>1. /\ D \in Nat /\ r \in 0 .. D /\ w \in 0 .. D /\ r <= w
      /\ d \in Seq(Bytes) /\ Len(d) = w - r
      /\ \A i \in 1 .. Len(d) : d[i] = p[r + i - 1]
  BY DEF EB!EventBufferAssumption, Holds, D
<1>2. PICK s : s = SubSeq(d, n + 1, Len(d))
  OBVIOUS
<1>3. n + 1 \in Nat \ {0} /\ Len(d) \in Nat /\ n <= Len(d)
  BY <1>1
<1>4. s \in Seq(Bytes) /\ Len(s) = Len(d) - n
  BY <1>1, <1>2, <1>3
<1>5. ASSUME NEW i \in 1 .. Len(s) PROVE s[i] = p[(r + n) + i - 1]
  <2>1. s[i] = d[(n + 1) + i - 1] /\ (n + 1) + i - 1 = n + i /\ n + i \in 1 .. Len(d)
    BY <1>1, <1>2, <1>3, <1>4
  <2>2. d[n + i] = p[r + (n + i) - 1] /\ r + (n + i) - 1 = (r + n) + i - 1
    BY <1>1, <2>1
  <2>3. QED
    BY <2>1, <2>2
<1>6. r + n \in 0 .. D /\ r + n <= w /\ Len(s) = w - (r + n)
  BY <1>1, <1>3, <1>4
<1>7. p \in [0 .. D - 1 -> Bytes] /\ w \in 0 .. D
  BY DEF Holds
<1>8. Holds(p, r + n, w, s)
  BY <1>4, <1>5, <1>6, <1>7 DEF Holds
<1>9. QED
  BY <1>2, <1>8

\* There is nothing between equal indices.
LEMMA Nothing ==
  ASSUME EB!EventBufferAssumption, NEW p, NEW r, NEW w, NEW d, Holds(p, r, w, d)
  PROVE  Holds(p, cheapPrepend, cheapPrepend, <<>>)
<1>1. /\ cheapPrepend \in 0 .. D /\ cheapPrepend <= cheapPrepend
      /\ cheapPrepend - cheapPrepend = 0 /\ D \in Nat
  BY DEF EB!EventBufferAssumption, D
<1>2. <<>> \in Seq(Bytes) /\ Len(<<>>) = 0
  OBVIOUS
<1>3. QED
  BY <1>1, <1>2 DEF Holds

\* A new event is empty, the room in front left free.
LEMMA BufferInit == ASSUME EB!EventBufferAssumption, EB!Init PROVE BufferInv
<1>1. PICK b \in Bytes :
        /\ b_param = [e \in EB!Events |-> [i \in 0 .. D - 1 |-> b]]
        /\ readerIndex_ = [e \in EB!Events |-> cheapPrepend]
        /\ writerIndex_ = [e \in EB!Events |-> cheapPrepend]
        /\ data = [e \in EB!Events |-> <<>>]
  BY DEF EB!Init, D
<1>2. cheapPrepend \in 0 .. D /\ D \in Nat
  BY DEF EB!EventBufferAssumption, D
<1>3. <<>> \in Seq(Bytes) /\ Len(<<>>) = 0
  OBVIOUS
<1>4. EB!TypeOK /\ data \in [EB!Events -> Seq(Bytes)]
  BY <1>1, <1>2, <1>3 DEF EB!TypeOK, D
<1>5. ASSUME NEW e \in EB!Events
      PROVE  Holds(b_param[e], readerIndex_[e], writerIndex_[e], data[e])
  <2>1. /\ b_param[e] \in [0 .. D - 1 -> Bytes] /\ data[e] = <<>>
        /\ readerIndex_[e] = cheapPrepend /\ writerIndex_[e] = cheapPrepend
    BY <1>1
  <2>2. cheapPrepend - cheapPrepend = 0 /\ cheapPrepend <= cheapPrepend
    BY <1>2
  <2>3. QED
    BY <1>2, <1>3, <2>1, <2>2 DEF Holds
<1>6. QED
  BY <1>4, <1>5 DEF BufferInv

\* A step that leaves one event as it must be, and the other alone.
Only(e, p, r, w, d) ==
    /\ b_param' = [b_param EXCEPT ![e] = p]
    /\ readerIndex_' = [readerIndex_ EXCEPT ![e] = r]
    /\ writerIndex_' = [writerIndex_ EXCEPT ![e] = w]
    /\ data' = [data EXCEPT ![e] = d]

\* A step that changes one event only, and keeps it, keeps them all.
LEMMA OnlyInv ==
  ASSUME EB!EventBufferAssumption, BufferInv, NEW e \in EB!Events, NEW p, NEW r, NEW w, NEW d,
         Only(e, p, r, w, d), Holds(p, r, w, d)
  PROVE  BufferInv'
<1>1. /\ b_param \in [EB!Events -> [0 .. D - 1 -> Bytes]]
      /\ readerIndex_ \in [EB!Events -> 0 .. D] /\ writerIndex_ \in [EB!Events -> 0 .. D]
      /\ data \in [EB!Events -> Seq(Bytes)]
  BY DEF BufferInv, EB!TypeOK, D
<1>2. p \in [0 .. D - 1 -> Bytes] /\ r \in 0 .. D /\ w \in 0 .. D /\ d \in Seq(Bytes)
  BY DEF Holds
<1>3. EB!TypeOK' /\ data' \in [EB!Events -> Seq(Bytes)]
  BY <1>1, <1>2 DEF Only, EB!TypeOK, D
<1>4. b_param'[e] = p /\ readerIndex_'[e] = r /\ writerIndex_'[e] = w /\ data'[e] = d
  BY <1>1 DEF Only
<1>5. ASSUME NEW f \in EB!Events, f # e
      PROVE  /\ b_param'[f] = b_param[f] /\ readerIndex_'[f] = readerIndex_[f]
             /\ writerIndex_'[f] = writerIndex_[f] /\ data'[f] = data[f]
  BY <1>1, <1>5 DEF Only
<1>6. ASSUME NEW f \in EB!Events
      PROVE  Holds(b_param'[f], readerIndex_'[f], writerIndex_'[f], data'[f])
  <2>1. CASE f = e
    BY <1>4, <2>1
  <2>2. CASE f # e
    BY <1>5, <2>2 DEF BufferInv
  <2>3. QED
    BY <2>1, <2>2
<1>7. QED
  BY <1>3, <1>6 DEF BufferInv

\* Each operation keeps the invariant: a new event, ...
LEMMA EventInv == ASSUME EB!EventBufferAssumption, BufferInv, EB!event PROVE BufferInv'
<1>1. "stack" \in EB!Events
  BY DEF EB!Events
<1>2. Only("stack", b_param["stack"], cheapPrepend, cheapPrepend, <<>>)
  BY DEF EB!event, Only, BufferInv, EB!TypeOK
<1>3. Holds(b_param["stack"], cheapPrepend, cheapPrepend, <<>>)
  BY <1>1, Nothing DEF BufferInv
<1>4. QED
  BY <1>1, <1>2, <1>3, OnlyInv

\* ... the copy of an event, ...
LEMMA AssignInv == ASSUME EB!EventBufferAssumption, BufferInv, EB!assign PROVE BufferInv'
<1>1. "stack" \in EB!Events /\ "slot" \in EB!Events
  BY DEF EB!Events
<1>2. Only("slot", b_param["stack"], readerIndex_["stack"], writerIndex_["stack"], data["stack"])
  BY DEF EB!assign, EB!buffer, Only
<1>3. Holds(b_param["stack"], readerIndex_["stack"], writerIndex_["stack"], data["stack"])
  BY <1>1 DEF BufferInv
<1>4. QED
  BY <1>1, <1>2, <1>3, OnlyInv

\* ... nothing at all, ...
LEMMA StayInv == ASSUME BufferInv, UNCHANGED EB!vars PROVE BufferInv'
BY DEF EB!vars, BufferInv, EB!TypeOK

\* The bytes of a number are a sequence.
LEMMA NumbersAreSeq ==
  ASSUME EB!EventBufferAssumption, NEW bytes \in EB!Numbers PROVE bytes \in Seq(Bytes) /\ Len(bytes) \in Nat
<1>1. PICK w \in Widths : bytes \in [1 .. w -> Bytes]
  BY DEF EB!Numbers
<1>2. w \in Nat
  BY DEF EB!EventBufferAssumption
<1>3. QED
  BY <1>1, <1>2, IsSeq

\* ... what is appended ...
LEMMA AppendInv ==
  ASSUME EB!EventBufferAssumption, BufferInv, NEW e \in EB!Events, NEW bytes \in EB!Numbers, EB!append(e, bytes)
  PROVE  BufferInv'
<1>1. CASE EB!writableBytes(e) < Len(bytes)
  BY <1>1, StayInv DEF EB!append
<1>2. CASE ~(EB!writableBytes(e) < Len(bytes))
  <2>1. bytes \in Seq(Bytes) /\ Len(bytes) \in Nat
    BY NumbersAreSeq
  <2>2. Holds(b_param[e], readerIndex_[e], writerIndex_[e], data[e])
    BY DEF BufferInv
  <2>3. Len(bytes) <= D - writerIndex_[e]
    BY <1>2, <2>1, <2>2 DEF EB!writableBytes, D, Holds, EB!EventBufferAssumption
  <2>4. PICK q : q = [i \in DOMAIN b_param[e] |->
                        IF i \in writerIndex_[e] .. writerIndex_[e] + Len(bytes) - 1
                        THEN bytes[i - writerIndex_[e] + 1] ELSE b_param[e][i]]
    OBVIOUS
  <2>5. Holds(q, readerIndex_[e], writerIndex_[e] + Len(bytes), data[e] \o bytes)
    BY <2>1, <2>2, <2>3, <2>4, Appended
  <2>6. Only(e, q, readerIndex_[e], writerIndex_[e] + Len(bytes), data[e] \o bytes)
    <3>1. b_param' = [b_param EXCEPT ![e] = q]
      BY <1>2, <2>4 DEF EB!append, EB!Copied, BufferInv, EB!TypeOK
    <3>2. readerIndex_' = [readerIndex_ EXCEPT ![e] = readerIndex_[e]]
      BY <1>2 DEF EB!append, BufferInv, EB!TypeOK
    <3>3. /\ writerIndex_' = [writerIndex_ EXCEPT ![e] = writerIndex_[e] + Len(bytes)]
          /\ data' = [data EXCEPT ![e] = data[e] \o bytes]
      BY <1>2 DEF EB!append, BufferInv, EB!TypeOK
    <3>4. QED
      BY <3>1, <3>2, <3>3 DEF Only
  <2>7. QED
    BY <2>5, <2>6, OnlyInv
<1>3. QED
  BY <1>1, <1>2

\* ... or put in front, ...
LEMMA PrependInv ==
  ASSUME EB!EventBufferAssumption, BufferInv, NEW e \in EB!Events, NEW bytes \in EB!Numbers, EB!prepend(e, bytes)
  PROVE  BufferInv'
<1>1. bytes \in Seq(Bytes) /\ Len(bytes) \in Nat
  BY NumbersAreSeq
<1>2. Holds(b_param[e], readerIndex_[e], writerIndex_[e], data[e])
  BY DEF BufferInv
<1>3. Len(bytes) <= readerIndex_[e]
  BY DEF EB!prepend, EB!prependableBytes
<1>4. PICK a : a = readerIndex_[e] - Len(bytes)
  OBVIOUS
<1>5. PICK q : q = [i \in DOMAIN b_param[e] |->
                      IF i \in a .. a + Len(bytes) - 1 THEN bytes[i - a + 1] ELSE b_param[e][i]]
  OBVIOUS
<1>6. Holds(q, a, writerIndex_[e], bytes \o data[e])
  BY <1>1, <1>2, <1>3, <1>4, <1>5, Prepended
<1>7. Only(e, q, a, writerIndex_[e], bytes \o data[e])
  <2>1. b_param' = [b_param EXCEPT ![e] = q]
    BY <1>4, <1>5 DEF EB!prepend, EB!Copied, BufferInv, EB!TypeOK
  <2>2. writerIndex_' = [writerIndex_ EXCEPT ![e] = writerIndex_[e]]
    BY DEF EB!prepend, BufferInv, EB!TypeOK
  <2>3. /\ readerIndex_' = [readerIndex_ EXCEPT ![e] = a]
        /\ data' = [data EXCEPT ![e] = bytes \o data[e]]
    BY <1>4 DEF EB!prepend, BufferInv, EB!TypeOK
  <2>4. QED
    BY <2>1, <2>2, <2>3 DEF Only
<1>8. QED
  BY <1>6, <1>7, OnlyInv

\* ... what is read ...
LEMMA BufferReadInv ==
  ASSUME EB!EventBufferAssumption, BufferInv, NEW e \in EB!Events, NEW len \in Nat, EB!read(e, len)
  PROVE  BufferInv'
<1>1. Holds(b_param[e], readerIndex_[e], writerIndex_[e], data[e])
  BY DEF BufferInv
<1>2. /\ D \in Nat /\ readerIndex_[e] \in 0 .. D /\ writerIndex_[e] \in 0 .. D
      /\ readerIndex_[e] <= writerIndex_[e] /\ data[e] \in Seq(Bytes)
      /\ Len(data[e]) = writerIndex_[e] - readerIndex_[e]
  BY <1>1 DEF Holds, EB!EventBufferAssumption, D
<1>3. len <= writerIndex_[e] - readerIndex_[e]
  BY DEF EB!read, EB!readableBytes
<1>4. b_param' = [b_param EXCEPT ![e] = b_param[e]]
  BY DEF EB!read, BufferInv, EB!TypeOK
<1>5. data' = [data EXCEPT ![e] = SubSeq(data[e], len + 1, Len(data[e]))]
  BY DEF EB!read, BufferInv, EB!TypeOK
<1>6. CASE len < EB!readableBytes(e)
  <2>1. readerIndex_' = [readerIndex_ EXCEPT ![e] = readerIndex_[e] + len]
    BY <1>6 DEF EB!read, EB!retrieve, BufferInv, EB!TypeOK
  <2>2. writerIndex_' = [writerIndex_ EXCEPT ![e] = writerIndex_[e]]
    BY <1>6 DEF EB!read, EB!retrieve, BufferInv, EB!TypeOK
  <2>3. Only(e, b_param[e], readerIndex_[e] + len, writerIndex_[e],
             SubSeq(data[e], len + 1, Len(data[e])))
    BY <1>4, <1>5, <2>1, <2>2 DEF Only
  <2>4. Holds(b_param[e], readerIndex_[e] + len, writerIndex_[e],
              SubSeq(data[e], len + 1, Len(data[e])))
    BY <1>1, <1>3, Taken
  <2>5. QED
    BY <2>3, <2>4, OnlyInv
<1>7. CASE ~(len < EB!readableBytes(e))
  <2>1. readerIndex_' = [readerIndex_ EXCEPT ![e] = cheapPrepend]
    BY <1>7 DEF EB!read, EB!retrieve, BufferInv, EB!TypeOK
  <2>2. writerIndex_' = [writerIndex_ EXCEPT ![e] = cheapPrepend]
    BY <1>7 DEF EB!read, EB!retrieve, BufferInv, EB!TypeOK
  <2>3. len = Len(data[e])
    BY <1>2, <1>3, <1>7 DEF EB!readableBytes
  <2>4. SubSeq(data[e], len + 1, Len(data[e])) = <<>>
    <3>1. Len(data[e]) \in Nat /\ Len(data[e]) < len + 1 /\ len + 1 \in Int
      BY <2>3
    <3>2. QED
      BY <3>1, SubSeqEmpty
  <2>5. Only(e, b_param[e], cheapPrepend, cheapPrepend, <<>>)
    BY <1>4, <1>5, <2>1, <2>2, <2>4 DEF Only
  <2>6. Holds(b_param[e], cheapPrepend, cheapPrepend, <<>>)
    BY <1>1, Nothing
  <2>7. QED
    BY <2>5, <2>6, OnlyInv
<1>8. QED
  BY <1>6, <1>7

\* ... or dropped.
LEMMA RetrieveAllInv ==
  ASSUME EB!EventBufferAssumption, BufferInv, NEW e \in EB!Events, EB!retrieveAll(e)
  PROVE  BufferInv'
<1>1. Holds(b_param[e], readerIndex_[e], writerIndex_[e], data[e])
  BY DEF BufferInv
<1>2. ~(EB!readableBytes(e) < EB!readableBytes(e))
  BY <1>1 DEF Holds, EB!EventBufferAssumption, D, EB!readableBytes
<1>3. /\ readerIndex_' = [readerIndex_ EXCEPT ![e] = cheapPrepend]
      /\ writerIndex_' = [writerIndex_ EXCEPT ![e] = cheapPrepend]
  BY <1>2 DEF EB!retrieveAll, EB!retrieve, BufferInv, EB!TypeOK
<1>4. Only(e, b_param[e], cheapPrepend, cheapPrepend, <<>>)
  BY <1>3 DEF EB!retrieveAll, Only, BufferInv, EB!TypeOK
<1>5. QED
  BY <1>1, <1>4, Nothing, OnlyInv

\* So every step does.
LEMMA BufferStep == ASSUME EB!EventBufferAssumption, BufferInv, [EB!Next]_EB!vars PROVE BufferInv'
<1>1. \A len \in Widths : len \in Nat
  BY DEF EB!EventBufferAssumption
<1>2. ASSUME NEW e \in EB!Events, NEW len \in Widths, EB!retrieveAsCharArray(e, len)
      PROVE  BufferInv'
  <2>1. CASE len > EB!readableBytes(e)
    BY <1>2, <2>1, StayInv DEF EB!retrieveAsCharArray
  <2>2. CASE ~(len > EB!readableBytes(e))
    BY <1>1, <1>2, <2>2, BufferReadInv DEF EB!retrieveAsCharArray
  <2>3. QED
    BY <2>1, <2>2
<1>3. CASE EB!Next
  BY <1>1, <1>2, <1>3, EventInv, AssignInv, AppendInv, PrependInv, BufferReadInv,
     RetrieveAllInv DEF EB!Next
<1>4. CASE UNCHANGED EB!vars
  BY <1>4, StayInv
<1>5. QED
  BY <1>3, <1>4

\* And with it an event has what it was given.
LEMMA BufferSound == ASSUME EB!EventBufferAssumption, BufferInv PROVE EB!TypeOK /\ EB!DataKept
<1>1. ASSUME NEW e \in EB!Events
      PROVE  readerIndex_[e] <= writerIndex_[e] /\ EB!peek(e, EB!readableBytes(e)) = data[e]
  <2>1. Holds(b_param[e], readerIndex_[e], writerIndex_[e], data[e])
    BY DEF BufferInv
  <2>2. /\ readerIndex_[e] <= writerIndex_[e] /\ data[e] \in Seq(Bytes)
        /\ EB!readableBytes(e) = Len(data[e]) /\ Len(data[e]) \in Nat
        /\ \A i \in 1 .. Len(data[e]) : data[e][i] = b_param[e][readerIndex_[e] + i - 1]
    BY <2>1 DEF Holds, EB!readableBytes
  <2>3. EB!peek(e, EB!readableBytes(e))
          = [i \in 1 .. Len(data[e]) |-> b_param[e][readerIndex_[e] + i - 1]]
    BY <2>2 DEF EB!peek
  <2>4. data[e] = [i \in 1 .. Len(data[e]) |-> data[e][i]]
    BY <2>2
  <2>5. QED
    BY <2>2, <2>3, <2>4
<1>2. QED
  BY <1>1 DEF BufferInv, EB!DataKept

\* An event has the bytes it was given, from peek on, for any size and room in front
\* (buffer: append, prepend, retrieve, operator=).
THEOREM EventsKeep == ASSUME EB!EventBufferAssumption PROVE EB!Spec => [](EB!TypeOK /\ EB!DataKept)
BY BufferInit, BufferStep, BufferSound, PTL DEF EB!Spec

--------------------------------------------------------------------------------
(* The ring.  Its cells in use begin at beg_index_ and are size_ in number,*)
(* wherever the storage wraps round.                                       *)

\* The smaller of two numbers is one of them.
LEMMA Smaller == ASSUME NEW a \in Nat, NEW b \in Nat
                 PROVE  RB!Least(a, b) \in Nat /\ RB!Least(a, b) <= a /\ RB!Least(a, b) <= b
BY DEF RB!Least

\* What is less than a turn keeps its place, and a turn leads back to it.
LEMMA Turn == ASSUME NEW c \in Nat \ {0}, NEW x \in 0 .. c - 1
              PROVE  x % c = x /\ (x + c) % c = x
OBVIOUS

\* ... So do two, and none is left.
LEMMA TwoTurns == ASSUME NEW c \in Nat \ {0} PROVE (c + c) % c = 0 /\ c % c = 0
OBVIOUS

\* A place that is not yet wrapped round.
Round(x) == IF x < CAPACITY THEN x ELSE x - CAPACITY

\* The cells from b on, as many as there are, are different ones.
LEMMA Rounds ==
  ASSUME RB!RingBufferAssumption, NEW b \in RB!At, NEW k \in 0 .. CAPACITY
  PROVE  /\ Round(b + k) \in RB!At
         /\ RB!Advance(b, k) = Round(b + k)
         /\ \A j \in 1 .. CAPACITY : RB!Cell(b, j) = Round(b + j - 1) /\ RB!Cell(b, j) \in RB!At
         /\ \A j \in 1 .. CAPACITY - k : RB!Cell(Round(b + k), j) = RB!Cell(b, k + j)
         /\ \A j, l \in 1 .. CAPACITY : RB!Cell(b, j) = RB!Cell(b, l) => j = l
<1>1. /\ CAPACITY \in Nat \ {0} /\ b \in Nat /\ k \in Nat /\ b < CAPACITY /\ k <= CAPACITY
  BY DEF RB!RingBufferAssumption, RB!At
<1>2. Round(b + k) \in Nat /\ Round(b + k) < CAPACITY /\ RB!Advance(b, k) = Round(b + k)
  BY <1>1 DEF Round, RB!Advance
<1>3. ASSUME NEW j \in 1 .. CAPACITY
      PROVE  RB!Cell(b, j) = Round(b + j - 1) /\ RB!Cell(b, j) \in RB!At
  BY <1>1 DEF Round, RB!Cell, RB!At
<1>4. ASSUME NEW j \in 1 .. CAPACITY - k PROVE RB!Cell(Round(b + k), j) = RB!Cell(b, k + j)
  BY <1>1 DEF Round, RB!Cell
<1>5. ASSUME NEW j \in 1 .. CAPACITY, NEW l \in 1 .. CAPACITY, RB!Cell(b, j) = RB!Cell(b, l)
      PROVE  j = l
  BY <1>1, <1>5 DEF RB!Cell
<1>6. QED
  BY <1>1, <1>2, <1>3, <1>4, <1>5 DEF RB!At

\* The cells in use are what has been written and not read, and a read returned it.
RingInv ==
    /\ RB!TypeOK /\ kept \in Seq(RingBytes) /\ out.read = out.due
    /\ size_ = Len(kept) /\ end_index_ = Round(beg_index_ + size_)
    /\ \A k \in 1 .. size_ : data_[RB!Cell(beg_index_, k)] = kept[k]

\* The ring is empty at first.
LEMMA RingInit == ASSUME RB!RingBufferAssumption, RB!Init PROVE RingInv
<1>1. RB!Blank \in RingBytes
  BY DEF RB!RingBufferAssumption, RB!Blank
<1>2. CAPACITY \in Nat \ {0}
  BY DEF RB!RingBufferAssumption
<1>3. kept = <<>> /\ kept \in Seq(RingBytes) /\ Len(kept) = 0
  BY DEF RB!Init
<1>4. out.read = out.due
  BY DEF RB!Init
<1>5. QED
  BY <1>1, <1>2, <1>3, <1>4 DEF RB!Init, RingInv, RB!TypeOK, RB!At, Round

\* write fills the cells behind those in use, ...
LEMMA WriteInv ==
  ASSUME RB!RingBufferAssumption, RingInv, NEW len \in RB!Amounts, NEW bytes \in [1 .. len -> RingBytes],
         RB!write(bytes)
  PROVE  RingInv'
<1> DEFINE n == RB!Least(Len(bytes), CAPACITY - size_)
<1>1. /\ CAPACITY \in Nat \ {0} /\ beg_index_ \in RB!At /\ end_index_ \in RB!At /\ size_ \in 0 .. CAPACITY
      /\ data_ \in [RB!At -> RingBytes] /\ kept \in Seq(RingBytes) /\ Len(kept) = size_
  BY DEF RB!RingBufferAssumption, RingInv, RB!TypeOK
<1>2. len \in Nat /\ bytes \in Seq(RingBytes) /\ Len(bytes) = len
  <2>1. len \in Nat
    BY <1>1 DEF RB!Amounts
  <2>2. QED
    BY <2>1, IsSeq
<1>3. n \in Nat /\ n <= Len(bytes) /\ n <= CAPACITY - size_
  <2>1. CAPACITY - size_ \in Nat
    BY <1>1
  <2>2. QED
    BY <1>2, <2>1, Smaller
<1>4. /\ end_index_' = RB!Advance(end_index_, n) /\ size_' = size_ + n
      /\ kept' = kept \o SubSeq(bytes, 1, n)
      /\ beg_index_' = beg_index_ /\ out' = out
  BY DEF RB!write
<1>5. data_' = [c \in RB!At |-> IF \E k \in 1 .. n : RB!Cell(end_index_, k) = c
                             THEN bytes[CHOOSE k \in 1 .. n : RB!Cell(end_index_, k) = c]
                             ELSE data_[c]]
  BY DEF RB!write
<1> HIDE DEF n
<1>6. SubSeq(bytes, 1, n) \in Seq(RingBytes) /\ Len(SubSeq(bytes, 1, n)) = n
      /\ \A k \in 1 .. n : SubSeq(bytes, 1, n)[k] = bytes[k] /\ bytes[k] \in RingBytes
  BY <1>2, <1>3
<1>7. /\ kept' \in Seq(RingBytes) /\ Len(kept') = size_ + n
      /\ \A k \in 1 .. size_ : kept'[k] = kept[k]
      /\ \A k \in 1 .. n : kept'[size_ + k] = bytes[k]
  <2>1. /\ kept' \in Seq(RingBytes) /\ Len(kept') = size_ + n
        /\ \A k \in 1 .. size_ + n :
             kept'[k] = IF k <= size_ THEN kept[k] ELSE SubSeq(bytes, 1, n)[k - size_]
    BY <1>1, <1>4, <1>6, ConcatProperties
  <2>2. ASSUME NEW k \in 1 .. size_ PROVE kept'[k] = kept[k]
    BY <1>1, <1>3, <2>1
  <2>3. ASSUME NEW k \in 1 .. n PROVE kept'[size_ + k] = bytes[k]
    <3>1. size_ + k \in 1 .. size_ + n /\ ~(size_ + k <= size_) /\ (size_ + k) - size_ = k
      BY <1>1, <1>3
    <3>2. QED
      BY <2>1, <3>1, <1>6
  <2>4. QED
    BY <2>1, <2>2, <2>3
<1>8. end_index_ = Round(beg_index_ + size_)
  BY DEF RingInv
<1>9. /\ \A j \in 1 .. CAPACITY - size_ : RB!Cell(end_index_, j) = RB!Cell(beg_index_, size_ + j)
      /\ \A j \in 1 .. CAPACITY : RB!Cell(beg_index_, j) \in RB!At
      /\ \A j, l \in 1 .. CAPACITY : RB!Cell(beg_index_, j) = RB!Cell(beg_index_, l) => j = l
  BY <1>1, <1>8, Rounds
<1>10. size_ + n \in 0 .. CAPACITY /\ n \in 0 .. CAPACITY
  BY <1>1, <1>3
<1>11. end_index_' = Round(beg_index_ + (size_ + n)) /\ end_index_' \in RB!At
  <2>1. end_index_' = Round(end_index_ + n)
    BY <1>1, <1>4, <1>10, Rounds
  <2>2. Round(end_index_ + n) = Round(beg_index_ + (size_ + n))
    BY <1>1, <1>3, <1>8, <1>10 DEF Round, RB!At
  <2>3. QED
    BY <1>1, <1>10, <2>1, <2>2, Rounds
<1>12. ASSUME NEW k \in 1 .. size_ PROVE data_'[RB!Cell(beg_index_, k)] = kept[k]
  <2>1. k \in 1 .. CAPACITY /\ RB!Cell(beg_index_, k) \in RB!At
    BY <1>1, <1>9
  <2>2. ASSUME NEW j \in 1 .. n PROVE RB!Cell(end_index_, j) # RB!Cell(beg_index_, k)
    <3>1. j \in 1 .. CAPACITY - size_ /\ size_ + j \in 1 .. CAPACITY /\ size_ + j # k
      BY <1>1, <1>3
    <3>2. QED
      BY <1>9, <2>1, <3>1
  <2>3. data_'[RB!Cell(beg_index_, k)] = data_[RB!Cell(beg_index_, k)]
    BY <1>5, <2>1, <2>2
  <2>4. QED
    BY <2>3 DEF RingInv
<1>13. ASSUME NEW k \in 1 .. n PROVE data_'[RB!Cell(beg_index_, size_ + k)] = bytes[k]
  <2>1. /\ k \in 1 .. CAPACITY - size_ /\ size_ + k \in 1 .. CAPACITY
        /\ RB!Cell(end_index_, k) = RB!Cell(beg_index_, size_ + k) /\ RB!Cell(end_index_, k) \in RB!At
    BY <1>1, <1>3, <1>9
  <2>2. ASSUME NEW j \in 1 .. n, RB!Cell(end_index_, j) = RB!Cell(end_index_, k) PROVE j = k
    <3>1. /\ j \in 1 .. CAPACITY - size_ /\ size_ + j \in 1 .. CAPACITY
          /\ RB!Cell(end_index_, j) = RB!Cell(beg_index_, size_ + j)
      BY <1>1, <1>3, <1>9
    <3>2. size_ + j = size_ + k
      BY <1>9, <2>1, <2>2, <3>1
    <3>3. QED
      BY <1>1, <3>2
  <2>3. (CHOOSE j \in 1 .. n : RB!Cell(end_index_, j) = RB!Cell(end_index_, k)) = k
    BY <2>2
  <2>4. QED
    BY <1>5, <2>1, <2>3
<1>14. ASSUME NEW k \in 1 .. size_ + n PROVE data_'[RB!Cell(beg_index_, k)] = kept'[k]
  <2>1. CASE k \in 1 .. size_
    BY <2>1, <1>7, <1>12
  <2>2. CASE k \notin 1 .. size_
    <3>1. k - size_ \in 1 .. n /\ size_ + (k - size_) = k
      BY <2>2, <1>1, <1>3
    <3>2. QED
      BY <3>1, <1>7, <1>13
  <2>3. QED
    BY <2>1, <2>2
<1>15. data_' \in [RB!At -> RingBytes]
  <2>1. ASSUME NEW c \in RB!At, \E k \in 1 .. n : RB!Cell(end_index_, k) = c
        PROVE  bytes[CHOOSE k \in 1 .. n : RB!Cell(end_index_, k) = c] \in RingBytes
    BY <1>6, <2>1
  <2>2. QED
    BY <1>1, <1>5, <2>1
<1>16. QED
  BY <1>1, <1>4, <1>7, <1>10, <1>11, <1>14, <1>15 DEF RingInv, RB!TypeOK

\* ... and read frees the first of them and returns what was in them.
LEMMA RingReadInv ==
  ASSUME RB!RingBufferAssumption, RingInv, NEW len \in RB!Amounts, RB!read(len)
  PROVE  RingInv'
<1> DEFINE n == RB!Least(len, size_)
<1>1. /\ CAPACITY \in Nat \ {0} /\ beg_index_ \in RB!At /\ end_index_ \in RB!At /\ size_ \in 0 .. CAPACITY
      /\ data_ \in [RB!At -> RingBytes] /\ kept \in Seq(RingBytes) /\ Len(kept) = size_
      /\ \A k \in 1 .. size_ : data_[RB!Cell(beg_index_, k)] = kept[k]
  BY DEF RB!RingBufferAssumption, RingInv, RB!TypeOK
<1>2. n \in Nat /\ n <= size_
  <2>1. len \in Nat /\ size_ \in Nat
    BY <1>1 DEF RB!Amounts
  <2>2. QED
    BY <2>1, Smaller
<1>3. /\ out' = [read |-> [k \in 1 .. n |-> data_[RB!Cell(beg_index_, k)]], due |-> SubSeq(kept, 1, n)]
      /\ beg_index_' = RB!Advance(beg_index_, n) /\ size_' = size_ - n
      /\ kept' = SubSeq(kept, n + 1, Len(kept))
      /\ end_index_' = end_index_ /\ data_' = data_
  BY DEF RB!read
<1> HIDE DEF n
<1>4. out'.read = out'.due
  <2> DEFINE a == [k \in 1 .. n |-> data_[RB!Cell(beg_index_, k)]]
             b == SubSeq(kept, 1, n)
  <2>1. b \in Seq(RingBytes) /\ Len(b) = n /\ \A k \in 1 .. n : b[k] = kept[k]
    BY <1>1, <1>2
  <2>2. \A k \in 1 .. n : k \in 1 .. size_ /\ a[k] = kept[k] /\ kept[k] \in RingBytes
    BY <1>1, <1>2
  <2>3. a \in Seq(RingBytes) /\ Len(a) = n
    <3>1. a \in [1 .. n -> RingBytes]
      BY <2>2
    <3>2. QED
      BY <1>2, <3>1, IsSeq
  <2>4. out'.read = a /\ out'.due = b
    BY <1>3
  <2> HIDE DEF a, b
  <2>5. a = b
    BY <2>1, <2>2, <2>3, SeqEqual
  <2>6. QED
    BY <2>4, <2>5
<1>5. /\ kept' \in Seq(RingBytes) /\ Len(kept') = size_ - n
      /\ \A k \in 1 .. size_ - n : kept'[k] = kept[n + k]
  <2>1. n + 1 \in Nat \ {0} /\ Len(kept) = size_ /\ size_ \in Nat
    BY <1>1, <1>2
  <2>2. kept' \in Seq(RingBytes) /\ Len(kept') = size_ - n
    BY <1>1, <1>2, <1>3, <2>1
  <2>3. ASSUME NEW k \in 1 .. size_ - n PROVE kept'[k] = kept[n + k]
    <3>1. kept'[k] = kept[(n + 1) + k - 1] /\ (n + 1) + k - 1 = n + k
      BY <1>1, <1>2, <1>3, <2>1
    <3>2. QED
      BY <3>1
  <2>4. QED
    BY <2>2, <2>3
<1>6. n \in 0 .. CAPACITY /\ size_ - n \in 0 .. CAPACITY
  BY <1>1, <1>2
<1>7. /\ beg_index_' = Round(beg_index_ + n) /\ beg_index_' \in RB!At
      /\ \A j \in 1 .. CAPACITY - n : RB!Cell(beg_index_', j) = RB!Cell(beg_index_, n + j)
  BY <1>1, <1>3, <1>6, Rounds
<1>8. end_index_' = Round(beg_index_' + (size_ - n))
  <2>1. end_index_ = Round(beg_index_ + size_)
    BY DEF RingInv
  <2>2. Round(Round(beg_index_ + n) + (size_ - n)) = Round(beg_index_ + size_)
    BY <1>1, <1>2 DEF Round, RB!At
  <2>3. QED
    BY <1>3, <1>7, <2>1, <2>2
<1>9. ASSUME NEW k \in 1 .. size_ - n PROVE data_'[RB!Cell(beg_index_', k)] = kept'[k]
  <2>1. k \in 1 .. CAPACITY - n /\ n + k \in 1 .. size_
    BY <1>1, <1>2
  <2>2. QED
    BY <1>1, <1>3, <1>5, <1>7, <2>1
<1>10. QED
  BY <1>1, <1>3, <1>4, <1>5, <1>6, <1>7, <1>8, <1>9 DEF RingInv, RB!TypeOK

\* So every step keeps the invariant.
LEMMA RingStep == ASSUME RB!RingBufferAssumption, RingInv, [RB!Next]_RB!vars PROVE RingInv'
<1>1. CASE RB!Next
  BY <1>1, RingReadInv, WriteInv DEF RB!Next
<1>2. CASE UNCHANGED RB!vars
  BY <1>2 DEF RB!vars, RingInv, RB!TypeOK
<1>3. QED
  BY <1>1, <1>2

\* And with it the ring holds what was written, in order.
LEMMA RingSound == ASSUME RB!RingBufferAssumption, RingInv PROVE RB!TypeOK /\ RB!InOrder
<1>1. /\ CAPACITY \in Nat \ {0} /\ beg_index_ \in Nat /\ beg_index_ < CAPACITY
      /\ size_ \in 0 .. CAPACITY /\ end_index_ = Round(beg_index_ + size_)
  BY DEF RingInv, RB!TypeOK, RB!At, RB!RingBufferAssumption
<1>2. (end_index_ + CAPACITY - beg_index_) % CAPACITY = size_ % CAPACITY
  <2>1. CASE beg_index_ + size_ < CAPACITY
    <3>1. end_index_ + CAPACITY - beg_index_ = size_ + CAPACITY /\ size_ \in 0 .. CAPACITY - 1
      BY <1>1, <2>1 DEF Round
    <3>2. QED
      BY <1>1, <3>1, Turn
  <2>2. CASE ~(beg_index_ + size_ < CAPACITY)
    <3>1. end_index_ + CAPACITY - beg_index_ = size_
      BY <1>1, <2>2 DEF Round
    <3>2. QED
      BY <3>1
  <2>3. QED
    BY <2>1, <2>2
<1>3. QED
  BY <1>2 DEF RingInv, RB!InOrder

\* The ring hands on its bytes in order, for any capacity (circular_buffer: read, write).
THEOREM RingKeeps == ASSUME RB!RingBufferAssumption PROVE RB!Spec => [](RB!TypeOK /\ RB!InOrder)
BY RingInit, RingStep, RingSound, PTL DEF RB!Spec

--------------------------------------------------------------------------------
\* w follows f from n for N steps.
WalkUpTo(f, n, w, N) == w = [k \in 0 .. N |-> IF k = 0 THEN n ELSE f[w[k - 1]]]

\* There is such a walk, whatever f is.
LEMMA WalkExists ==
    ASSUME NEW f, NEW n, NEW N \in Nat PROVE \E w : WalkUpTo(f, n, w, N)
<1> DEFINE Good == {M \in Nat : \E w : WalkUpTo(f, n, w, M)}
<1>1. 0 \in Good
  <2> DEFINE one == [k \in 0 .. 0 |-> n]
  <2>1. WalkUpTo(f, n, one, 0)
    BY DEF WalkUpTo
  <2>2. QED BY <2>1
<1>2. ASSUME NEW M \in Nat, M \in Good PROVE M + 1 \in Good
  <2>1. PICK w : WalkUpTo(f, n, w, M)
    BY <1>2
  <2> DEFINE v == [k \in 0 .. M + 1 |-> IF k = 0 THEN n ELSE f[w[k - 1]]]
  <2>2. \A k \in 0 .. M : v[k] = w[k]
    BY <2>1 DEF WalkUpTo
  <2>3. \A k \in 0 .. M + 1 : v[k] = IF k = 0 THEN n ELSE f[v[k - 1]]
    <3>1. TAKE k \in 0 .. M + 1
    <3>2. CASE k = 0 BY <3>2
    <3>3. CASE k # 0
      <4>1. k - 1 \in 0 .. M
        BY <3>3
      <4>2. QED BY <4>1, <3>3, <2>2
    <3>4. QED BY <3>2, <3>3
  <2>4. WalkUpTo(f, n, v, M + 1)
    <3> HIDE DEF v
    <3>1. v = [k \in 0 .. M + 1 |-> v[k]]
      BY DEF v
    <3> QED BY <2>3, <3>1 DEF WalkUpTo
  <2>5. QED BY <2>4
<1>3. N \in Good
  <2> HIDE DEF Good
  <2> QED BY <1>1, <1>2, SetInduction
<1>4. QED BY <1>3

\* InsertAt makes room at p: what was before p stays, what was after moves up.
LEMMA InsertAtFacts ==
    ASSUME NEW S, NEW l \in Seq(S), NEW t \in S, NEW p \in 1 .. Len(l) + 1
    PROVE  /\ LL!InsertAt(l, p, t) \in Seq(S)
           /\ Len(LL!InsertAt(l, p, t)) = Len(l) + 1
           /\ \A i \in 1 .. Len(l) + 1 :
                LL!InsertAt(l, p, t)[i] = IF i < p THEN l[i] ELSE IF i = p THEN t ELSE l[i - 1]
<1> DEFINE a == SubSeq(l, 1, p - 1)
           b == a \o <<t>>
           c == SubSeq(l, p, Len(l))
<1>1. Len(l) \in Nat
  OBVIOUS
<1>2. /\ a \in Seq(S) /\ Len(a) = p - 1
      /\ \A i \in 1 .. p - 1 : a[i] = l[i]
  BY <1>1
<1>3. /\ c \in Seq(S) /\ Len(c) = Len(l) - p + 1
      /\ \A i \in 1 .. Len(l) - p + 1 : c[i] = l[p + i - 1]
  <2>1. \A i \in p .. Len(l) : l[i] \in S
    OBVIOUS
  <2>2. QED
    BY <1>1, <2>1, SubSeqProperties
<1>4. <<t>> \in Seq(S) /\ Len(<<t>>) = 1 /\ <<t>>[1] = t
  OBVIOUS
<1> HIDE DEF a, c
<1>5. /\ b \in Seq(S) /\ Len(b) = p
      /\ \A i \in 1 .. p : b[i] = IF i < p THEN l[i] ELSE t
  BY <1>1, <1>2, <1>4, ConcatProperties
<1> HIDE DEF b
<1>6. /\ b \o c \in Seq(S) /\ Len(b \o c) = Len(l) + 1
      /\ \A i \in 1 .. Len(l) + 1 : (b \o c)[i] = IF i <= p THEN b[i] ELSE c[i - p]
  BY <1>1, <1>3, <1>5, ConcatProperties
<1>7. LL!InsertAt(l, p, t) = b \o c
  BY DEF LL!InsertAt, a, b, c
<1>8. ASSUME NEW i \in 1 .. Len(l) + 1
      PROVE  LL!InsertAt(l, p, t)[i] = IF i < p THEN l[i] ELSE IF i = p THEN t ELSE l[i - 1]
  BY <1>1, <1>3, <1>5, <1>6, <1>7
<1>9. QED
  BY <1>6, <1>7, <1>8

\* RemoveAt closes the gap at p: what was after p moves down.
LEMMA RemoveAtFacts ==
    ASSUME NEW S, NEW l \in Seq(S), NEW p \in 1 .. Len(l)
    PROVE  /\ LL!RemoveAt(l, p) \in Seq(S)
           /\ Len(LL!RemoveAt(l, p)) = Len(l) - 1
           /\ \A i \in 1 .. Len(l) - 1 :
                LL!RemoveAt(l, p)[i] = IF i < p THEN l[i] ELSE l[i + 1]
<1> DEFINE a == SubSeq(l, 1, p - 1)
           c == SubSeq(l, p + 1, Len(l))
<1>1. Len(l) \in Nat
  OBVIOUS
<1>2. /\ a \in Seq(S) /\ Len(a) = p - 1
      /\ \A i \in 1 .. p - 1 : a[i] = l[i]
  BY <1>1
<1>3. /\ c \in Seq(S) /\ Len(c) = Len(l) - p
      /\ \A i \in 1 .. Len(l) - p : c[i] = l[p + i]
  <2>1. \A i \in p + 1 .. Len(l) : l[i] \in S
    OBVIOUS
  <2>2. QED
    BY <1>1, <2>1, SubSeqProperties
<1> HIDE DEF a, c
<1>4. /\ a \o c \in Seq(S) /\ Len(a \o c) = Len(a) + Len(c)
      /\ \A i \in 1 .. Len(a) + Len(c) :
           (a \o c)[i] = IF i <= Len(a) THEN a[i] ELSE c[i - Len(a)]
  <2>1. a \in Seq(S) /\ c \in Seq(S)
    BY <1>2, <1>3
  <2>2. QED
    BY <2>1, ConcatProperties, Zenon
<1>5. LL!RemoveAt(l, p) = a \o c
  BY DEF LL!RemoveAt, a, c
<1>6. Len(a) = p - 1 /\ Len(c) = Len(l) - p /\ Len(a) + Len(c) = Len(l) - 1
  BY <1>1, <1>2, <1>3
<1>8. ASSUME NEW i \in 1 .. Len(l) - 1
      PROVE  LL!RemoveAt(l, p)[i] = IF i < p THEN l[i] ELSE l[i + 1]
  <2>1. CASE i < p
    BY <2>1, <1>1, <1>2, <1>4, <1>5, <1>6
  <2>2. CASE i >= p
    <3>1. i - (p - 1) \in 1 .. Len(l) - p /\ p + (i - (p - 1)) = i + 1
      BY <2>2, <1>1
    <3>2. (a \o c)[i] = c[i - Len(a)]
      <4>1. i \in 1 .. Len(a) + Len(c) /\ ~(i <= Len(a))
        BY <2>2, <1>1, <1>6
      <4>2. QED
        BY <4>1, <1>4
    <3>3. QED
      <4>1. c[i - (p - 1)] = l[p + (i - (p - 1))]
        BY <1>3, <3>1
      <4>2. (a \o c)[i] = l[i + 1]
        BY <1>6, <3>1, <3>2, <4>1
      <4>3. QED
        BY <1>5, <2>2, <4>2
  <2>3. QED
    BY <2>1, <2>2, <1>1
<1>9. QED
  BY <1>4, <1>5, <1>6, <1>8

--------------------------------------------------------------------------------
(* A list as a ring: its head, its items in order, and its head again.     *)

Ring(q, h, k) == IF k \in 1 .. Len(q) THEN q[k] ELSE h

\* The links go round the ring, both ways.
Linked(nx, pv, h, q) ==
    /\ h \in Heads /\ q \in Seq(Items) /\ Distinct(q)
    /\ \A k \in 0 .. Len(q) : nx[Ring(q, h, k)] = Ring(q, h, k + 1)
                           /\ pv[Ring(q, h, k + 1)] = Ring(q, h, k)

\* The links f and g are the same round the ring.
SameLinks(f, g, h, q) == f[h] = g[h] /\ \A n \in Items : In(q, n) => f[n] = g[n]

\* Each place of the ring has a node of its own, but for the head at both ends.
LEMMA RingIs ==
  ASSUME LL!LinkedListAssumption, NEW h \in Heads, NEW q \in Seq(Items), Distinct(q)
  PROVE  /\ Len(q) \in Nat /\ h \notin Items
         /\ Ring(q, h, 0) = h /\ Ring(q, h, Len(q) + 1) = h
         /\ \A k \in 1 .. Len(q) : Ring(q, h, k) = q[k] /\ q[k] \in Items /\ q[k] # h /\ In(q, q[k])
         /\ \A j, k \in 0 .. Len(q) : Ring(q, h, j) = Ring(q, h, k) => j = k
         /\ \A j, k \in 1 .. Len(q) + 1 : Ring(q, h, j) = Ring(q, h, k) => j = k
         /\ \A k \in 0 .. Len(q) + 1 : Ring(q, h, k) = h \/ (In(q, Ring(q, h, k)) /\ Ring(q, h, k) \in Items)
<1>1. Len(q) \in Nat /\ h \notin Items
  BY DEF LL!LinkedListAssumption
<1>2. Ring(q, h, 0) = h /\ Ring(q, h, Len(q) + 1) = h
  BY <1>1 DEF Ring
<1>3. \A k \in 1 .. Len(q) : Ring(q, h, k) = q[k] /\ q[k] \in Items /\ q[k] # h /\ In(q, q[k])
  BY <1>1 DEF Ring, In
<1>4. ASSUME NEW j \in 0 .. Len(q), NEW k \in 0 .. Len(q), Ring(q, h, j) = Ring(q, h, k)
      PROVE  j = k
  <2>1. (j = 0 \/ j \in 1 .. Len(q)) /\ (k = 0 \/ k \in 1 .. Len(q))
    BY <1>1
  <2>2. QED
    BY <1>2, <1>3, <1>4, <2>1 DEF Distinct
<1>5. ASSUME NEW j \in 1 .. Len(q) + 1, NEW k \in 1 .. Len(q) + 1, Ring(q, h, j) = Ring(q, h, k)
      PROVE  j = k
  <2>1. (j = Len(q) + 1 \/ j \in 1 .. Len(q)) /\ (k = Len(q) + 1 \/ k \in 1 .. Len(q))
    BY <1>1
  <2>2. QED
    BY <1>2, <1>3, <1>5, <2>1 DEF Distinct
<1>6. ASSUME NEW k \in 0 .. Len(q) + 1
      PROVE  Ring(q, h, k) = h \/ (In(q, Ring(q, h, k)) /\ Ring(q, h, k) \in Items)
  <2>1. CASE k \in 1 .. Len(q)
    BY <1>3, <2>1
  <2>2. CASE k \notin 1 .. Len(q)
    <3>1. Ring(q, h, k) = h
      BY <2>2 DEF Ring
    <3>2. QED
      BY <3>1
  <2>3. QED
    BY <2>1, <2>2
<1>7. QED
  BY <1>1, <1>2, <1>3, <1>4, <1>5, <1>6

\* Links that agree round the ring link the same list.
LEMMA LinkedStays ==
  ASSUME LL!LinkedListAssumption, NEW nx, NEW pv, NEW nx1, NEW pv1, NEW h, NEW q,
         Linked(nx, pv, h, q), SameLinks(nx1, nx, h, q), SameLinks(pv1, pv, h, q)
  PROVE  Linked(nx1, pv1, h, q)
<1>1. h \in Heads /\ q \in Seq(Items) /\ Distinct(q)
  BY DEF Linked
<1>2. \A k \in 0 .. Len(q) + 1 : Ring(q, h, k) = h \/ (In(q, Ring(q, h, k)) /\ Ring(q, h, k) \in Items)
  BY <1>1, RingIs
<1>3. \A k \in 0 .. Len(q) + 1 : nx1[Ring(q, h, k)] = nx[Ring(q, h, k)] /\ pv1[Ring(q, h, k)] = pv[Ring(q, h, k)]
  BY <1>2 DEF SameLinks
<1>4. \A k \in 0 .. Len(q) : k \in 0 .. Len(q) + 1 /\ k + 1 \in 0 .. Len(q) + 1
  BY <1>1
<1>5. QED
  BY <1>1, <1>3, <1>4 DEF Linked

\* n comes between the nodes p and p + 1 of the ring ...
Between(nx, pv, nx1, pv1, a, n, b) ==
    /\ nx1[n] = b /\ nx1[a] = n /\ pv1[n] = a /\ pv1[b] = n
    /\ \A m \in LL!Nodes : (m # n /\ m # a => nx1[m] = nx[m]) /\ (m # n /\ m # b => pv1[m] = pv[m])

\* With a node between two neighbours it is the ring of the longer list.
LEMMA Inserted ==
  ASSUME LL!LinkedListAssumption, NEW nx, NEW pv, NEW h, NEW q, Linked(nx, pv, h, q),
         NEW p \in 0 .. Len(q), NEW n \in Items, ~In(q, n), NEW nx1, NEW pv1,
         Between(nx, pv, nx1, pv1, Ring(q, h, p), n, Ring(q, h, p + 1)),
         NEW t, t = LL!InsertAt(q, p + 1, n)
  PROVE  Linked(nx1, pv1, h, t) /\ \A m : In(t, m) <=> In(q, m) \/ m = n
<1>1. h \in Heads /\ q \in Seq(Items) /\ Distinct(q) /\ Len(q) \in Nat
  BY DEF Linked
<1>2. /\ h \notin Items /\ h # n
      /\ Ring(q, h, 0) = h /\ Ring(q, h, Len(q) + 1) = h
      /\ \A k \in 1 .. Len(q) : Ring(q, h, k) = q[k] /\ q[k] \in Items /\ q[k] # h /\ In(q, q[k])
      /\ \A j, k \in 0 .. Len(q) : Ring(q, h, j) = Ring(q, h, k) => j = k
      /\ \A j, k \in 1 .. Len(q) + 1 : Ring(q, h, j) = Ring(q, h, k) => j = k
      /\ \A k \in 0 .. Len(q) + 1 : Ring(q, h, k) = h \/ (In(q, Ring(q, h, k)) /\ Ring(q, h, k) \in Items)
  BY <1>1, RingIs
<1>3. /\ t \in Seq(Items) /\ Len(t) = Len(q) + 1
      /\ \A i \in 1 .. Len(q) + 1 : t[i] = IF i < p + 1 THEN q[i] ELSE IF i = p + 1 THEN n ELSE q[i - 1]
  <2>1. p + 1 \in 1 .. Len(q) + 1
    BY <1>1
  <2>2. /\ LL!InsertAt(q, p + 1, n) \in Seq(Items)
        /\ Len(LL!InsertAt(q, p + 1, n)) = Len(q) + 1
        /\ \A i \in 1 .. Len(q) + 1 :
             LL!InsertAt(q, p + 1, n)[i] = IF i < p + 1 THEN q[i] ELSE IF i = p + 1 THEN n ELSE q[i - 1]
    BY ONLY <1>1, <2>1, n \in Items, InsertAtFacts
  <2>3. QED
    BY <2>2
<1>4. /\ \A k \in 0 .. p : Ring(t, h, k) = Ring(q, h, k)
      /\ Ring(t, h, p + 1) = n
      /\ \A k \in p + 1 .. Len(q) + 1 : Ring(t, h, k + 1) = Ring(q, h, k)
  <2>1. ASSUME NEW k \in 0 .. p PROVE Ring(t, h, k) = Ring(q, h, k)
    <3>1. CASE k = 0
      BY <1>1, <1>2, <1>3, <3>1 DEF Ring
    <3>2. CASE k # 0
      <4>1. k \in 1 .. Len(t) /\ k \in 1 .. Len(q) /\ k < p + 1
        BY <1>1, <1>3, <3>2
      <4>2. QED
        BY <1>3, <4>1 DEF Ring
    <3>3. QED
      BY <3>1, <3>2
  <2>2. Ring(t, h, p + 1) = n
    <3>1. p + 1 \in 1 .. Len(q) + 1 /\ ~(p + 1 < p + 1)
      BY <1>1
    <3>2. QED
      BY <1>3, <3>1 DEF Ring
  <2>3. ASSUME NEW k \in p + 1 .. Len(q) + 1 PROVE Ring(t, h, k + 1) = Ring(q, h, k)
    <3>1. CASE k = Len(q) + 1
      BY <1>1, <1>2, <1>3, <3>1 DEF Ring
    <3>2. CASE k # Len(q) + 1
      <4>1. k + 1 \in 1 .. Len(t) /\ k \in 1 .. Len(q) /\ ~(k + 1 < p + 1) /\ k + 1 # p + 1 /\ (k + 1) - 1 = k
        BY <1>1, <1>3, <3>2
      <4>2. t[k + 1] = q[k]
        BY <1>3, <4>1
      <4>3. QED
        BY <4>1, <4>2 DEF Ring
    <3>3. QED
      BY <3>1, <3>2
  <2>4. QED
    BY <2>1, <2>2, <2>3
<1>5. ASSUME NEW m PROVE In(t, m) <=> In(q, m) \/ m = n
  <2>1. ASSUME In(t, m), m # n PROVE In(q, m)
    <3>1. PICK k \in 1 .. Len(t) : t[k] = m
      BY <2>1 DEF In
    <3>2. k # p + 1 /\ (k < p + 1 => k \in 1 .. Len(q)) /\ (~(k < p + 1) => k - 1 \in 1 .. Len(q))
      BY <1>1, <1>3, <2>1, <3>1
    <3>3. QED
      BY <1>3, <3>1, <3>2 DEF In
  <2>2. ASSUME In(q, m) PROVE In(t, m)
    <3>1. PICK k \in 1 .. Len(q) : q[k] = m
      BY <2>2 DEF In
    <3>2. CASE k < p + 1
      <4>1. k \in 1 .. Len(t) /\ t[k] = m
        BY <1>1, <1>3, <3>1, <3>2
      <4>2. QED
        BY <4>1 DEF In
    <3>3. CASE ~(k < p + 1)
      <4>1. k + 1 \in 1 .. Len(t) /\ ~(k + 1 < p + 1) /\ k + 1 # p + 1 /\ (k + 1) - 1 = k
        BY <1>1, <1>3, <3>1, <3>3
      <4>2. t[k + 1] = m
        BY <1>3, <3>1, <4>1
      <4>3. QED
        BY <4>1, <4>2 DEF In
    <3>4. QED
      BY <3>2, <3>3
  <2>3. In(t, n)
    <3>1. p + 1 \in 1 .. Len(t) /\ t[p + 1] = n
      BY <1>1, <1>3
    <3>2. QED
      BY <3>1 DEF In
  <2>4. QED
    BY <2>1, <2>2, <2>3
<1>6. Distinct(t)
  <2>1. ASSUME NEW j \in 1 .. Len(t), NEW k \in 1 .. Len(t), t[j] = t[k] PROVE j = k
    <3>1. ASSUME NEW i \in 1 .. Len(t), i # p + 1
          PROVE  \E o \in 1 .. Len(q) : t[i] = q[o] /\ t[i] # n /\ o = (IF i < p + 1 THEN i ELSE i - 1)
      <4>1. PICK o : o = IF i < p + 1 THEN i ELSE i - 1
        OBVIOUS
      <4>2. o \in 1 .. Len(q) /\ t[i] = q[o]
        BY <1>1, <1>3, <3>1, <4>1
      <4>3. QED
        BY <4>1, <4>2 DEF In
    <3>2. t[p + 1] = n
      BY <1>1, <1>3
    <3>3. CASE j = p + 1 \/ k = p + 1
      BY <2>1, <3>1, <3>2, <3>3
    <3>4. CASE j # p + 1 /\ k # p + 1
      <4>1. PICK a \in 1 .. Len(q) : t[j] = q[a] /\ a = (IF j < p + 1 THEN j ELSE j - 1)
        BY <3>1, <3>4
      <4>2. PICK b \in 1 .. Len(q) : t[k] = q[b] /\ b = (IF k < p + 1 THEN k ELSE k - 1)
        BY <3>1, <3>4
      <4>3. a = b
        BY <1>1, <2>1, <4>1, <4>2 DEF Distinct
      <4>4. QED
        BY <1>1, <1>3, <3>4, <4>1, <4>2, <4>3
    <3>5. QED
      BY <3>3, <3>4
  <2>2. QED
    BY <2>1 DEF Distinct
<1>7. /\ nx1[n] = Ring(q, h, p + 1) /\ nx1[Ring(q, h, p)] = n
      /\ pv1[n] = Ring(q, h, p) /\ pv1[Ring(q, h, p + 1)] = n
      /\ \A k \in 0 .. Len(q) : k # p => nx1[Ring(q, h, k)] = nx[Ring(q, h, k)]
      /\ \A k \in 1 .. Len(q) + 1 : k # p + 1 => pv1[Ring(q, h, k)] = pv[Ring(q, h, k)]
  <2>1. \A k \in 0 .. Len(q) + 1 : Ring(q, h, k) # n /\ Ring(q, h, k) \in LL!Nodes
    BY <1>1, <1>2 DEF LL!Nodes
  <2>2. ASSUME NEW k \in 0 .. Len(q), k # p
        PROVE  Ring(q, h, k) # Ring(q, h, p) /\ k \in 0 .. Len(q) + 1
    BY <1>1, <1>2, <2>2
  <2>3. ASSUME NEW k \in 1 .. Len(q) + 1, k # p + 1
        PROVE  Ring(q, h, k) # Ring(q, h, p + 1) /\ k \in 0 .. Len(q) + 1
    <3>1. p + 1 \in 1 .. Len(q) + 1
      BY <1>1
    <3>2. QED
      BY <1>1, <1>2, <2>3, <3>1
  <2>4. QED
    BY <2>1, <2>2, <2>3 DEF Between
<1>8. ASSUME NEW k \in 0 .. Len(t)
      PROVE  nx1[Ring(t, h, k)] = Ring(t, h, k + 1) /\ pv1[Ring(t, h, k + 1)] = Ring(t, h, k)
  <2>1. \A j \in 0 .. Len(q) : nx[Ring(q, h, j)] = Ring(q, h, j + 1) /\ pv[Ring(q, h, j + 1)] = Ring(q, h, j)
    BY DEF Linked
  <2>2. CASE k < p
    <3>1. k \in 0 .. p /\ k + 1 \in 0 .. p /\ k \in 0 .. Len(q) /\ k + 1 \in 1 .. Len(q) + 1 /\ k # p /\ k + 1 # p + 1
      BY <1>1, <2>2
    <3>2. Ring(t, h, k) = Ring(q, h, k) /\ Ring(t, h, k + 1) = Ring(q, h, k + 1)
      BY <1>4, <3>1
    <3>3. QED
      BY <1>7, <2>1, <3>1, <3>2
  <2>3. CASE k = p
    BY <1>1, <1>4, <1>7, <2>3
  <2>4. CASE k = p + 1
    <3>1. p + 1 \in p + 1 .. Len(q) + 1
      BY <1>1
    <3>2. Ring(t, h, (p + 1) + 1) = Ring(q, h, p + 1)
      BY <1>4, <3>1
    <3>3. QED
      BY <1>4, <1>7, <2>4, <3>2
  <2>5. CASE k > p + 1
    <3>1. PICK j : j = k - 1
      OBVIOUS
    <3>2. /\ k = j + 1 /\ j \in p + 1 .. Len(q) + 1 /\ j + 1 \in p + 1 .. Len(q) + 1
          /\ j \in 0 .. Len(q) /\ j + 1 \in 1 .. Len(q) + 1 /\ j # p /\ j + 1 # p + 1
      BY <1>1, <1>3, <2>5, <3>1
    <3>3. Ring(t, h, j + 1) = Ring(q, h, j) /\ Ring(t, h, (j + 1) + 1) = Ring(q, h, j + 1)
      BY <1>4, <3>2
    <3>4. QED
      BY <1>7, <2>1, <3>2, <3>3
  <2>6. QED
    BY <1>1, <1>3, <2>2, <2>3, <2>4, <2>5
<1>9. QED
  BY <1>1, <1>3, <1>5, <1>6, <1>8 DEF Linked

\* ... n, the node p of the ring, is taken out ...
Without(nx, pv, nx1, pv1, a, n, b) ==
    /\ nx1[n] = n /\ nx1[a] = b /\ pv1[n] = n /\ pv1[b] = a
    /\ \A m \in LL!Nodes : (m # n /\ m # a => nx1[m] = nx[m]) /\ (m # n /\ m # b => pv1[m] = pv[m])

\* With the neighbours of a node joined it is that of the shorter one.
LEMMA Removed ==
  ASSUME LL!LinkedListAssumption, NEW nx, NEW pv, NEW h, NEW q, Linked(nx, pv, h, q),
         NEW p \in 1 .. Len(q), NEW n, n = q[p], NEW nx1, NEW pv1,
         Without(nx, pv, nx1, pv1, Ring(q, h, p - 1), n, Ring(q, h, p + 1)),
         NEW t, t = LL!RemoveAt(q, p)
  PROVE  Linked(nx1, pv1, h, t) /\ \A m : In(t, m) <=> (In(q, m) /\ m # n)
<1>1. h \in Heads /\ q \in Seq(Items) /\ Distinct(q) /\ Len(q) \in Nat
  BY DEF Linked
<1>2. /\ h \notin Items /\ h # n /\ n \in Items
      /\ Ring(q, h, 0) = h /\ Ring(q, h, Len(q) + 1) = h
      /\ \A k \in 1 .. Len(q) : Ring(q, h, k) = q[k] /\ q[k] \in Items /\ q[k] # h /\ In(q, q[k])
      /\ \A j, k \in 0 .. Len(q) : Ring(q, h, j) = Ring(q, h, k) => j = k
      /\ \A j, k \in 1 .. Len(q) + 1 : Ring(q, h, j) = Ring(q, h, k) => j = k
      /\ \A k \in 0 .. Len(q) + 1 : Ring(q, h, k) = h \/ (In(q, Ring(q, h, k)) /\ Ring(q, h, k) \in Items)
  BY <1>1, RingIs
<1>3. /\ t \in Seq(Items) /\ Len(t) = Len(q) - 1
      /\ \A i \in 1 .. Len(q) - 1 : t[i] = IF i < p THEN q[i] ELSE q[i + 1]
  <2>1. /\ LL!RemoveAt(q, p) \in Seq(Items)
        /\ Len(LL!RemoveAt(q, p)) = Len(q) - 1
        /\ \A i \in 1 .. Len(q) - 1 : LL!RemoveAt(q, p)[i] = IF i < p THEN q[i] ELSE q[i + 1]
    BY ONLY <1>1, p \in 1 .. Len(q), RemoveAtFacts
  <2>2. QED
    BY <2>1
<1>4. /\ \A k \in 0 .. p - 1 : Ring(t, h, k) = Ring(q, h, k)
      /\ \A k \in p .. Len(q) : Ring(t, h, k) = Ring(q, h, k + 1)
  <2>1. ASSUME NEW k \in 0 .. p - 1 PROVE Ring(t, h, k) = Ring(q, h, k)
    <3>1. CASE k = 0
      BY <1>1, <1>2, <1>3, <3>1 DEF Ring
    <3>2. CASE k # 0
      <4>1. k \in 1 .. Len(t) /\ k \in 1 .. Len(q) /\ k < p
        BY <1>1, <1>3, <3>2
      <4>2. QED
        BY <1>3, <4>1 DEF Ring
    <3>3. QED
      BY <3>1, <3>2
  <2>2. ASSUME NEW k \in p .. Len(q) PROVE Ring(t, h, k) = Ring(q, h, k + 1)
    <3>1. CASE k = Len(q)
      <4>1. k \notin 1 .. Len(t)
        BY <1>1, <1>3, <3>1
      <4>2. QED
        BY <1>2, <3>1, <4>1 DEF Ring
    <3>2. CASE k # Len(q)
      <4>1. k \in 1 .. Len(t) /\ k + 1 \in 1 .. Len(q) /\ ~(k < p)
        BY <1>1, <1>3, <3>2
      <4>2. t[k] = q[k + 1]
        BY <1>3, <4>1
      <4>3. QED
        BY <4>1, <4>2 DEF Ring
    <3>3. QED
      BY <3>1, <3>2
  <2>3. QED
    BY <2>1, <2>2
<1>5. ASSUME NEW i \in 1 .. Len(t)
      PROVE  \E o \in 1 .. Len(q) : t[i] = q[o] /\ o # p /\ o = (IF i < p THEN i ELSE i + 1)
  <2>1. PICK o : o = IF i < p THEN i ELSE i + 1
    OBVIOUS
  <2>2. o \in 1 .. Len(q) /\ t[i] = q[o] /\ o # p
    BY <1>1, <1>3, <2>1
  <2>3. QED
    BY <2>1, <2>2
<1>6. ASSUME NEW m PROVE In(t, m) <=> (In(q, m) /\ m # n)
  <2>1. ASSUME In(t, m) PROVE In(q, m) /\ m # n
    <3>1. PICK k \in 1 .. Len(t) : t[k] = m
      BY <2>1 DEF In
    <3>2. PICK o \in 1 .. Len(q) : m = q[o] /\ o # p
      BY <1>5, <3>1
    <3>3. QED
      BY <1>1, <3>2 DEF In, Distinct
  <2>2. ASSUME In(q, m), m # n PROVE In(t, m)
    <3>1. PICK k \in 1 .. Len(q) : q[k] = m
      BY <2>2 DEF In
    <3>2. CASE k < p
      <4>1. k \in 1 .. Len(t) /\ t[k] = m
        BY <1>1, <1>3, <3>1, <3>2
      <4>2. QED
        BY <4>1 DEF In
    <3>3. CASE ~(k < p)
      <4>1. k # p
        BY <2>2, <3>1
      <4>2. k - 1 \in 1 .. Len(t) /\ ~(k - 1 < p) /\ (k - 1) + 1 = k
        BY <1>1, <1>3, <3>1, <3>3, <4>1
      <4>3. t[k - 1] = m
        BY <1>3, <3>1, <4>2
      <4>4. QED
        BY <4>2, <4>3 DEF In
    <3>4. QED
      BY <3>2, <3>3
  <2>3. QED
    BY <2>1, <2>2
<1>7. Distinct(t)
  <2>1. ASSUME NEW j \in 1 .. Len(t), NEW k \in 1 .. Len(t), t[j] = t[k] PROVE j = k
    <3>1. PICK a \in 1 .. Len(q) : t[j] = q[a] /\ a = (IF j < p THEN j ELSE j + 1)
      BY <1>5
    <3>2. PICK b \in 1 .. Len(q) : t[k] = q[b] /\ b = (IF k < p THEN k ELSE k + 1)
      BY <1>5
    <3>3. a = b
      BY <1>1, <2>1, <3>1, <3>2 DEF Distinct
    <3>4. QED
      BY <1>1, <1>3, <3>1, <3>2, <3>3
  <2>2. QED
    BY <2>1 DEF Distinct
<1>8. /\ nx1[Ring(q, h, p - 1)] = Ring(q, h, p + 1) /\ pv1[Ring(q, h, p + 1)] = Ring(q, h, p - 1)
      /\ \A k \in 0 .. Len(q) : k # p - 1 /\ k # p => nx1[Ring(q, h, k)] = nx[Ring(q, h, k)]
      /\ \A k \in 1 .. Len(q) + 1 : k # p + 1 /\ k # p => pv1[Ring(q, h, k)] = pv[Ring(q, h, k)]
  <2>1. \A k \in 0 .. Len(q) + 1 : Ring(q, h, k) \in LL!Nodes
    BY <1>1, <1>2 DEF LL!Nodes
  <2>2. Ring(q, h, p) = n
    BY <1>2
  <2>3. ASSUME NEW k \in 0 .. Len(q), k # p - 1, k # p
        PROVE  Ring(q, h, k) # Ring(q, h, p - 1) /\ Ring(q, h, k) # n /\ k \in 0 .. Len(q) + 1
    <3>1. p - 1 \in 0 .. Len(q) /\ p \in 0 .. Len(q) /\ k \in 0 .. Len(q) + 1
      BY <1>1
    <3>2. QED
      BY <1>2, <2>2, <2>3, <3>1
  <2>4. ASSUME NEW k \in 1 .. Len(q) + 1, k # p + 1, k # p
        PROVE  Ring(q, h, k) # Ring(q, h, p + 1) /\ Ring(q, h, k) # n /\ k \in 0 .. Len(q) + 1
    <3>1. p + 1 \in 1 .. Len(q) + 1 /\ p \in 1 .. Len(q) + 1 /\ k \in 0 .. Len(q) + 1
      BY <1>1
    <3>2. QED
      BY <1>2, <2>2, <2>4, <3>1
  <2>5. QED
    BY <2>1, <2>3, <2>4 DEF Without
<1>9. ASSUME NEW k \in 0 .. Len(t)
      PROVE  nx1[Ring(t, h, k)] = Ring(t, h, k + 1) /\ pv1[Ring(t, h, k + 1)] = Ring(t, h, k)
  <2>1. \A j \in 0 .. Len(q) : nx[Ring(q, h, j)] = Ring(q, h, j + 1) /\ pv[Ring(q, h, j + 1)] = Ring(q, h, j)
    BY DEF Linked
  <2>2. CASE k < p - 1
    <3>1. /\ k \in 0 .. p - 1 /\ k + 1 \in 0 .. p - 1 /\ k \in 0 .. Len(q) /\ k + 1 \in 1 .. Len(q) + 1
          /\ k # p - 1 /\ k # p /\ k + 1 # p + 1 /\ k + 1 # p
      BY <1>1, <2>2
    <3>2. Ring(t, h, k) = Ring(q, h, k) /\ Ring(t, h, k + 1) = Ring(q, h, k + 1)
      BY <1>4, <3>1
    <3>3. QED
      BY <1>8, <2>1, <3>1, <3>2
  <2>3. CASE k = p - 1
    <3>1. k \in 0 .. p - 1 /\ k + 1 = p /\ p \in p .. Len(q)
      BY <1>1, <2>3
    <3>2. Ring(t, h, k) = Ring(q, h, p - 1) /\ Ring(t, h, k + 1) = Ring(q, h, p + 1)
      BY <1>4, <2>3, <3>1
    <3>3. QED
      BY <1>8, <3>2
  <2>4. CASE k >= p
    <3>1. /\ k \in p .. Len(q) /\ k + 1 \in p .. Len(q) /\ k + 1 \in 0 .. Len(q)
          /\ (k + 1) + 1 \in 1 .. Len(q) + 1
          /\ k + 1 # p - 1 /\ k + 1 # p /\ (k + 1) + 1 # p + 1 /\ (k + 1) + 1 # p
      BY <1>1, <1>3, <2>4
    <3>2. Ring(t, h, k) = Ring(q, h, k + 1) /\ Ring(t, h, k + 1) = Ring(q, h, (k + 1) + 1)
      BY <1>4, <3>1
    <3>3. QED
      BY <1>8, <2>1, <3>1, <3>2
  <2>5. QED
    BY <1>1, <1>3, <2>2, <2>3, <2>4
<1>10. QED
  BY <1>1, <1>3, <1>6, <1>7, <1>9 DEF Linked

\* ... and the list s of l is put in front of q, before which there is h.
Joined(nx, pv, nx1, pv1, h, q, l, s) ==
    /\ nx1[h] = s[1] /\ nx1[s[Len(s)]] = Ring(q, h, 1)
    /\ pv1[s[1]] = h /\ pv1[Ring(q, h, 1)] = s[Len(s)]
    /\ nx1[l] = l /\ pv1[l] = l
    /\ \A m \in LL!Nodes : /\ m # h /\ m # l /\ m # s[Len(s)] => nx1[m] = nx[m]
                           /\ m # l /\ m # s[1] /\ m # Ring(q, h, 1) => pv1[m] = pv[m]

\* No node is in both, and t has what is in either.
Apart(s, q) == \A m : In(s, m) => ~In(q, m)
Both(t, s, q) == \A m : In(t, m) <=> In(s, m) \/ In(q, m)

\* A ring that is joined in behind the head gives the ring of both lists.
LEMMA Spliced ==
  ASSUME LL!LinkedListAssumption, NEW nx, NEW pv, NEW h, NEW q, Linked(nx, pv, h, q),
         NEW l, NEW s, Linked(nx, pv, l, s), l # h, Len(s) # 0, Apart(s, q),
         NEW nx1, NEW pv1, Joined(nx, pv, nx1, pv1, h, q, l, s), NEW t, t = s \o q
  PROVE  Linked(nx1, pv1, h, t) /\ Linked(nx1, pv1, l, <<>>) /\ Both(t, s, q)
<1>1. /\ h \in Heads /\ q \in Seq(Items) /\ Distinct(q) /\ Len(q) \in Nat
      /\ l \in Heads /\ s \in Seq(Items) /\ Distinct(s) /\ Len(s) \in Nat \ {0}
  BY DEF Linked
<1>2. /\ h \notin Items
      /\ Ring(q, h, 0) = h /\ Ring(q, h, Len(q) + 1) = h
      /\ \A k \in 1 .. Len(q) : Ring(q, h, k) = q[k] /\ q[k] \in Items /\ q[k] # h /\ In(q, q[k])
      /\ \A j, k \in 0 .. Len(q) : Ring(q, h, j) = Ring(q, h, k) => j = k
      /\ \A j, k \in 1 .. Len(q) + 1 : Ring(q, h, j) = Ring(q, h, k) => j = k
      /\ \A k \in 0 .. Len(q) + 1 : Ring(q, h, k) = h \/ (In(q, Ring(q, h, k)) /\ Ring(q, h, k) \in Items)
  BY <1>1, RingIs
<1>3. /\ l \notin Items
      /\ \A k \in 1 .. Len(s) : Ring(s, l, k) = s[k] /\ s[k] \in Items /\ s[k] # l /\ In(s, s[k])
  BY <1>1, RingIs
<1>4. /\ t \in Seq(Items) /\ Len(t) = Len(s) + Len(q)
      /\ \A i \in 1 .. Len(s) + Len(q) : t[i] = IF i <= Len(s) THEN s[i] ELSE q[i - Len(s)]
  BY <1>1, ConcatProperties
<1>5. /\ Ring(t, h, 0) = h /\ \A k \in 1 .. Len(s) : Ring(t, h, k) = s[k]
      /\ \A k \in 1 .. Len(q) + 1 : Ring(t, h, k + Len(s)) = Ring(q, h, k)
  <2>1. ASSUME NEW k \in 1 .. Len(s) PROVE Ring(t, h, k) = s[k]
    <3>1. k \in 1 .. Len(t) /\ k <= Len(s)
      BY <1>1, <1>4
    <3>2. QED
      BY <1>4, <3>1 DEF Ring
  <2>2. ASSUME NEW k \in 1 .. Len(q) + 1 PROVE Ring(t, h, k + Len(s)) = Ring(q, h, k)
    <3>1. CASE k = Len(q) + 1
      <4>1. k + Len(s) \notin 1 .. Len(t)
        BY <1>1, <1>4, <3>1
      <4>2. QED
        BY <1>2, <3>1, <4>1 DEF Ring
    <3>2. CASE k # Len(q) + 1
      <4>1. k + Len(s) \in 1 .. Len(t) /\ k \in 1 .. Len(q) /\ ~(k + Len(s) <= Len(s)) /\ (k + Len(s)) - Len(s) = k
        BY <1>1, <1>4, <3>2
      <4>2. t[k + Len(s)] = q[k]
        BY <1>4, <4>1
      <4>3. QED
        BY <4>1, <4>2 DEF Ring
    <3>3. QED
      BY <3>1, <3>2
  <2>3. Ring(t, h, 0) = h
    BY DEF Ring
  <2>4. QED
    BY <2>1, <2>2, <2>3
<1>6. ASSUME NEW i \in 1 .. Len(t)
      PROVE  \/ i \in 1 .. Len(s) /\ t[i] = s[i]
             \/ i - Len(s) \in 1 .. Len(q) /\ t[i] = q[i - Len(s)]
  BY <1>1, <1>4
<1>7. ASSUME NEW m PROVE In(t, m) <=> In(s, m) \/ In(q, m)
  <2>1. ASSUME In(t, m) PROVE In(s, m) \/ In(q, m)
    BY <1>6, <2>1 DEF In
  <2>2. ASSUME In(s, m) PROVE In(t, m)
    <3>1. PICK k \in 1 .. Len(s) : s[k] = m
      BY <2>2 DEF In
    <3>2. k \in 1 .. Len(t) /\ t[k] = m
      BY <1>1, <1>4, <3>1
    <3>3. QED
      BY <3>2 DEF In
  <2>3. ASSUME In(q, m) PROVE In(t, m)
    <3>1. PICK k \in 1 .. Len(q) : q[k] = m
      BY <2>3 DEF In
    <3>2. k + Len(s) \in 1 .. Len(t) /\ ~(k + Len(s) <= Len(s)) /\ (k + Len(s)) - Len(s) = k
      BY <1>1, <1>4, <3>1
    <3>3. t[k + Len(s)] = m
      BY <1>4, <3>1, <3>2
    <3>4. QED
      BY <3>2, <3>3 DEF In
  <2>4. QED
    BY <2>1, <2>2, <2>3
<1>8. Distinct(t)
  <2>1. ASSUME NEW j \in 1 .. Len(t), NEW k \in 1 .. Len(t), t[j] = t[k] PROVE j = k
    <3>1. ASSUME NEW i \in 1 .. Len(t)
          PROVE  \/ i \in 1 .. Len(s) /\ t[i] = s[i] /\ In(s, t[i])
                 \/ i - Len(s) \in 1 .. Len(q) /\ t[i] = q[i - Len(s)] /\ ~In(s, t[i])
      BY <1>2, <1>3, <1>6 DEF Apart
    <3>2. CASE j \in 1 .. Len(s) /\ t[j] = s[j] /\ k \in 1 .. Len(s) /\ t[k] = s[k]
      BY <1>1, <2>1, <3>2 DEF Distinct
    <3>3. CASE /\ j - Len(s) \in 1 .. Len(q) /\ t[j] = q[j - Len(s)]
               /\ k - Len(s) \in 1 .. Len(q) /\ t[k] = q[k - Len(s)]
      <4>1. j - Len(s) = k - Len(s)
        BY <1>1, <2>1, <3>3 DEF Distinct
      <4>2. QED
        BY <1>1, <4>1
    <3>4. QED
      BY <2>1, <3>1, <3>2, <3>3
  <2>2. QED
    BY <2>1 DEF Distinct
<1>9. Linked(nx1, pv1, l, <<>>)
  <2>1. \A k : Ring(<<>>, l, k) = l
    BY DEF Ring
  <2>2. nx1[l] = l /\ pv1[l] = l
    BY DEF Joined
  <2>3. QED
    BY <1>1, <2>1, <2>2 DEF Linked, Distinct
<1>10. /\ 1 \in 1 .. Len(s) /\ Len(s) \in 1 .. Len(s)
       /\ \A k \in 1 .. Len(s) : s[k] \in LL!Nodes /\ s[k] # h /\ s[k] # l /\ s[k] # Ring(q, h, 1)
       /\ \A k \in 1 .. Len(q) + 1 : Ring(q, h, k) \in LL!Nodes /\ Ring(q, h, k) # l
                                  /\ \A j \in 1 .. Len(s) : Ring(q, h, k) # s[j]
  <2>1. ASSUME NEW k \in 1 .. Len(q) + 1, NEW j \in 1 .. Len(s) PROVE Ring(q, h, k) # s[j]
    BY <1>1, <1>2, <1>3 DEF Apart
  <2>2. ASSUME NEW k \in 1 .. Len(q) + 1 PROVE Ring(q, h, k) \in LL!Nodes /\ Ring(q, h, k) # l
    BY <1>1, <1>2, <1>3 DEF LL!Nodes
  <2>3. 1 \in 1 .. Len(s) /\ Len(s) \in 1 .. Len(s) /\ 1 \in 1 .. Len(q) + 1
    BY <1>1
  <2>4. QED
    BY <1>1, <1>2, <1>3, <2>1, <2>2, <2>3 DEF LL!Nodes
<1>11. ASSUME NEW k \in 0 .. Len(t)
       PROVE  nx1[Ring(t, h, k)] = Ring(t, h, k + 1) /\ pv1[Ring(t, h, k + 1)] = Ring(t, h, k)
  <2>1. /\ \A j \in 0 .. Len(q) : nx[Ring(q, h, j)] = Ring(q, h, j + 1) /\ pv[Ring(q, h, j + 1)] = Ring(q, h, j)
        /\ \A j \in 0 .. Len(s) : nx[Ring(s, l, j)] = Ring(s, l, j + 1) /\ pv[Ring(s, l, j + 1)] = Ring(s, l, j)
    BY DEF Linked
  <2>2. CASE k = 0
    <3>1. Ring(t, h, k) = h /\ Ring(t, h, k + 1) = s[1]
      BY <1>5, <1>10, <2>2
    <3>2. QED
      BY <3>1 DEF Joined
  <2>3. CASE k \in 1 .. Len(s) - 1
    <3>1. k \in 1 .. Len(s) /\ k + 1 \in 1 .. Len(s) /\ k \in 0 .. Len(s) /\ k # Len(s) /\ k + 1 # 1
      BY <1>1, <2>3
    <3>2. nx[s[k]] = s[k + 1] /\ pv[s[k + 1]] = s[k]
      BY <1>3, <2>1, <3>1
    <3>3. s[k] # s[Len(s)] /\ s[k + 1] # s[1]
      BY <1>1, <1>10, <3>1 DEF Distinct
    <3>4. nx1[s[k]] = nx[s[k]] /\ pv1[s[k + 1]] = pv[s[k + 1]]
      BY <1>10, <3>1, <3>3 DEF Joined
    <3>5. QED
      BY <1>5, <3>1, <3>2, <3>4
  <2>4. CASE k = Len(s)
    <3>1. 1 \in 1 .. Len(q) + 1 /\ k + 1 = 1 + Len(s)
      BY <1>1, <2>4
    <3>2. Ring(t, h, k) = s[Len(s)] /\ Ring(t, h, k + 1) = Ring(q, h, 1)
      BY <1>5, <1>10, <2>4, <3>1
    <3>3. QED
      BY <3>2 DEF Joined
  <2>5. CASE k > Len(s)
    <3>1. PICK j : j = k - Len(s)
      OBVIOUS
    <3>2. /\ j \in 1 .. Len(q) /\ j + 1 \in 1 .. Len(q) + 1 /\ j \in 1 .. Len(q) + 1 /\ j \in 0 .. Len(q)
          /\ k = j + Len(s) /\ k + 1 = (j + 1) + Len(s) /\ j + 1 # 1 /\ 1 \in 1 .. Len(q) + 1
      BY <1>1, <1>4, <2>5, <3>1
    <3>3. Ring(t, h, k) = Ring(q, h, j) /\ Ring(t, h, k + 1) = Ring(q, h, j + 1)
      BY <1>5, <3>2
    <3>4. Ring(q, h, j) # h /\ Ring(q, h, j + 1) # Ring(q, h, 1)
      BY <1>2, <3>2
    <3>5. nx1[Ring(q, h, j)] = nx[Ring(q, h, j)] /\ pv1[Ring(q, h, j + 1)] = pv[Ring(q, h, j + 1)]
      BY <1>10, <3>2, <3>4 DEF Joined
    <3>6. QED
      BY <2>1, <3>2, <3>3, <3>5
  <2>6. QED
    BY <1>1, <1>4, <2>2, <2>3, <2>4, <2>5
<1>12. QED
  BY <1>1, <1>4, <1>7, <1>8, <1>9, <1>11 DEF Linked, Both

--------------------------------------------------------------------------------
(* The invariant: every list is a ring, no item is in two of them, and     *)
(* one that is in none is linked to itself.                                *)

ListInv ==
    /\ k_next \in [LL!Nodes -> LL!Nodes] /\ k_prev \in [LL!Nodes -> LL!Nodes]
    /\ content \in [Heads -> Seq(Items)]
    /\ \A h \in Heads : Linked(k_next, k_prev, h, content[h])
    /\ \A h, g \in Heads : h # g => \A n : In(content[h], n) => ~In(content[g], n)
    /\ \A n \in Items : (\A h \in Heads : ~In(content[h], n)) => k_next[n] = n /\ k_prev[n] = n

\* What is in no list.
LEMMA OutIs == LL!Out = {n \in Items : \A h \in Heads : ~In(content[h], n)}
BY DEF LL!Out, LL!Contains, In

\* Items only are in a list.
LEMMA InItems == ASSUME NEW q \in Seq(Items), NEW n, In(q, n) PROVE n \in Items
BY DEF In

\* Where List and Place find a node.
LEMMA Found ==
  ASSUME LL!LinkedListAssumption, ListInv, NEW n \in LL!Nodes \ LL!Out
  PROVE  /\ LL!List(n) \in Heads
         /\ n \in Heads => LL!List(n) = n /\ LL!Place(n) = 0
         /\ n \in Items => LL!Place(n) \in 1 .. Len(content[LL!List(n)]) /\ content[LL!List(n)][LL!Place(n)] = n
         /\ LL!Place(n) \in 0 .. Len(content[LL!List(n)])
         /\ Ring(content[LL!List(n)], LL!List(n), LL!Place(n)) = n
<1>1. \A h \in Heads : content[h] \in Seq(Items) /\ Len(content[h]) \in Nat /\ DOMAIN content[h] = 1 .. Len(content[h])
  BY DEF ListInv
<1>2. CASE n \in Heads
  <2>1. n \notin Items
    BY <1>2 DEF LL!LinkedListAssumption
  <2>2. \A h \in Heads : ~LL!Contains(content[h], n)
    BY <1>1, <2>1 DEF LL!Contains
  <2>3. LL!List(n) = n
    BY <1>2, <2>2 DEF LL!List
  <2>4. LL!Place(n) = 0
    BY <1>2 DEF LL!Place
  <2>5. Ring(content[n], n, 0) = n /\ 0 \in 0 .. Len(content[n])
    BY <1>1, <1>2 DEF Ring
  <2>6. QED
    BY <1>2, <2>1, <2>3, <2>4, <2>5
<1>3. CASE n \notin Heads
  <2>1. n \in Items /\ \E h \in Heads : LL!Contains(content[h], n)
    BY <1>3 DEF LL!Nodes, LL!Out
  <2>2. LL!List(n) \in Heads /\ LL!Contains(content[LL!List(n)], n)
    BY <1>3, <2>1 DEF LL!List
  <2>3. PICK h \in Heads : h = LL!List(n)
    BY <2>2
  <2>4. \E k \in DOMAIN content[h] : content[h][k] = n
    BY <1>1, <2>2, <2>3 DEF LL!Contains
  <2>5. LL!Place(n) \in DOMAIN content[h] /\ content[h][LL!Place(n)] = n
    BY <1>3, <2>3, <2>4 DEF LL!Place
  <2>6. LL!Place(n) \in 1 .. Len(content[h]) /\ LL!Place(n) \in 0 .. Len(content[h])
    BY <1>1, <2>5
  <2>7. Ring(content[h], h, LL!Place(n)) = n
    BY <2>5, <2>6 DEF Ring
  <2>8. QED
    BY <1>3, <2>3, <2>5, <2>6, <2>7
<1>4. QED
  BY <1>2, <1>3

\* At first every node is linked to itself.
LEMMA ListInit == ASSUME LL!LinkedListAssumption, LL!Init PROVE ListInv
<1>1. /\ k_next = [n \in LL!Nodes |-> n] /\ k_prev = [n \in LL!Nodes |-> n]
      /\ content = [h \in Heads |-> <<>>]
  BY DEF LL!Init
<1>2. <<>> \in Seq(Items) /\ Len(<<>>) = 0 /\ Distinct(<<>>) /\ (\A n : ~In(<<>>, n))
      /\ \A h, k : Ring(<<>>, h, k) = h
  BY DEF Distinct, In, Ring
<1>3. \A h \in Heads : k_next[h] = h /\ k_prev[h] = h /\ content[h] = <<>>
  BY <1>1 DEF LL!Nodes
<1>4. ASSUME NEW h \in Heads PROVE Linked(k_next, k_prev, h, content[h])
  <2>1. k_next[h] = h /\ k_prev[h] = h
    BY <1>3
  <2>2. Linked(k_next, k_prev, h, <<>>)
    BY <1>2, <2>1 DEF Linked
  <2>3. QED
    BY <1>3, <2>2
<1>5. \A n \in Items : k_next[n] = n /\ k_prev[n] = n
  BY <1>1 DEF LL!Nodes
<1>6. \A h \in Heads : \A n : ~In(content[h], n)
  BY <1>2, <1>3
<1>7. content \in [Heads -> Seq(Items)]
  BY <1>1, <1>2
<1>8. QED
  BY <1>1, <1>4, <1>5, <1>6, <1>7 DEF ListInv

\* A step that puts n into one list, or takes it out.
LEMMA OneList ==
  ASSUME LL!LinkedListAssumption, ListInv, NEW h \in Heads, NEW t, content' = [content EXCEPT ![h] = t],
         k_next' \in [LL!Nodes -> LL!Nodes], k_prev' \in [LL!Nodes -> LL!Nodes],
         Linked(k_next', k_prev', h, t), NEW n \in Items,
         \A m : m # n => (In(t, m) <=> In(content[h], m)),
         \A g \in Heads : g # h => ~In(content[g], n),
         \A m \in LL!Nodes : m # n /\ m # h /\ ~In(content[h], m) =>
                             k_next'[m] = k_next[m] /\ k_prev'[m] = k_prev[m],
         In(t, n) \/ (k_next'[n] = n /\ k_prev'[n] = n)
  PROVE  ListInv'
<1>1. /\ content \in [Heads -> Seq(Items)] /\ Heads \cap Items = {}
      /\ \A a, b \in Heads : a # b => \A m : In(content[a], m) => ~In(content[b], m)
  BY DEF ListInv, LL!LinkedListAssumption
<1>2. content'[h] = t /\ t \in Seq(Items) /\ \A g \in Heads : g # h => content'[g] = content[g]
  BY <1>1 DEF Linked
<1>3. content' \in [Heads -> Seq(Items)]
  BY <1>1, <1>2
<1>4. ASSUME NEW g \in Heads PROVE Linked(k_next', k_prev', g, content'[g])
  <2>1. CASE g = h
    BY <1>2, <2>1
  <2>2. CASE g # h
    <3>1. g \in LL!Nodes /\ g # n /\ ~In(content[h], g)
      BY <1>1, InItems DEF LL!Nodes
    <3>2. \A m \in Items : In(content[g], m) => m \in LL!Nodes /\ m # n /\ m # h /\ ~In(content[h], m)
      BY <1>1, <2>2 DEF LL!Nodes
    <3>3. SameLinks(k_next', k_next, g, content[g]) /\ SameLinks(k_prev', k_prev, g, content[g])
      BY <2>2, <3>1, <3>2 DEF SameLinks
    <3>4. Linked(k_next, k_prev, g, content[g])
      BY DEF ListInv
    <3>5. PICK nx, pv, c : nx = k_next' /\ pv = k_prev' /\ c = content[g]
      OBVIOUS
    <3>6. Linked(nx, pv, g, c)
      BY <3>3, <3>4, <3>5, LinkedStays
    <3>7. QED
      BY <1>2, <2>2, <3>5, <3>6
  <2>3. QED
    BY <2>1, <2>2
<1>5. ASSUME NEW a \in Heads, NEW b \in Heads, a # b, NEW m, In(content'[a], m)
      PROVE  ~In(content'[b], m)
  <2>1. CASE m = n
    BY <1>2, <1>5, <2>1
  <2>2. CASE m # n
    <3>1. In(content'[a], m) <=> In(content[a], m)
      BY <1>2, <2>2
    <3>2. In(content'[b], m) <=> In(content[b], m)
      BY <1>2, <2>2
    <3>3. QED
      BY <1>1, <1>5, <3>1, <3>2
  <2>3. QED
    BY <2>1, <2>2
<1>6. ASSUME NEW m \in Items, \A g \in Heads : ~In(content'[g], m)
      PROVE  k_next'[m] = m /\ k_prev'[m] = m
  <2>1. CASE m = n
    BY <1>2, <1>6, <2>1
  <2>2. CASE m # n
    <3>1. \A g \in Heads : ~In(content[g], m)
      BY <1>2, <1>6, <2>2
    <3>2. k_next[m] = m /\ k_prev[m] = m
      BY <3>1 DEF ListInv
    <3>3. m \in LL!Nodes /\ m # h
      BY <1>1 DEF LL!Nodes
    <3>4. QED
      BY <2>2, <3>1, <3>2, <3>3
  <2>3. QED
    BY <2>1, <2>2
<1>7. QED
  BY <1>3, <1>4, <1>5, <1>6 DEF ListInv

\* Both ways of inserting are one.
LEMMA Insert ==
  ASSUME LL!LinkedListAssumption, ListInv, NEW h \in Heads, NEW p \in 0 .. Len(content[h]), NEW n \in LL!Out,
         NEW a, a = Ring(content[h], h, p), NEW b, b = Ring(content[h], h, p + 1),
         k_next' = [k_next EXCEPT ![n] = b, ![a] = n],
         k_prev' = [k_prev EXCEPT ![b] = n, ![n] = a],
         content' = [content EXCEPT ![h] = LL!InsertAt(content[h], p + 1, n)]
  PROVE  ListInv'
<1>1. PICK q : q = content[h]
  OBVIOUS
<1>2. PICK t : t = LL!InsertAt(q, p + 1, n)
  OBVIOUS
<1>3. /\ k_next \in [LL!Nodes -> LL!Nodes] /\ k_prev \in [LL!Nodes -> LL!Nodes]
      /\ Linked(k_next, k_prev, h, q) /\ q \in Seq(Items) /\ Distinct(q) /\ Len(q) \in Nat
  BY <1>1 DEF ListInv, Linked
<1>4. n \in Items /\ n \in LL!Nodes /\ \A g \in Heads : ~In(content[g], n)
  BY OutIs DEF LL!Nodes
<1>5. ASSUME NEW k \in 0 .. Len(q) + 1
      PROVE  Ring(q, h, k) \in LL!Nodes /\ Ring(q, h, k) # n /\ (Ring(q, h, k) = h \/ In(q, Ring(q, h, k)))
  <2>1. h \notin Items /\ (Ring(q, h, k) = h \/ (In(q, Ring(q, h, k)) /\ Ring(q, h, k) \in Items))
    BY <1>3, RingIs
  <2>2. QED
    BY <1>1, <1>4, <2>1 DEF LL!Nodes
<1>6. a \in LL!Nodes /\ a # n /\ b \in LL!Nodes /\ b # n /\ (a = h \/ In(q, a)) /\ (b = h \/ In(q, b))
  BY <1>1, <1>3, <1>5
<1>7. /\ k_next' \in [LL!Nodes -> LL!Nodes] /\ k_prev' \in [LL!Nodes -> LL!Nodes]
      /\ k_next'[n] = b /\ k_next'[a] = n /\ k_prev'[n] = a /\ k_prev'[b] = n
      /\ \A m \in LL!Nodes : (m # n /\ m # a => k_next'[m] = k_next[m])
                       /\ (m # n /\ m # b => k_prev'[m] = k_prev[m])
  BY <1>3, <1>4, <1>6
<1>8. Between(k_next, k_prev, k_next', k_prev', a, n, b)
  BY <1>7 DEF Between
<1>9. Linked(k_next', k_prev', h, t) /\ \A m : In(t, m) <=> In(q, m) \/ m = n
  <2>1. PICK nx, pv, nx1, pv1 : nx = k_next /\ pv = k_prev /\ nx1 = k_next' /\ pv1 = k_prev'
    OBVIOUS
  <2>2. /\ Linked(nx, pv, h, q) /\ p \in 0 .. Len(q) /\ n \in Items /\ ~In(q, n)
        /\ Between(nx, pv, nx1, pv1, Ring(q, h, p), n, Ring(q, h, p + 1))
    BY <1>1, <1>3, <1>4, <1>8, <2>1
  <2>3. Linked(nx1, pv1, h, t) /\ \A m : In(t, m) <=> In(q, m) \/ m = n
    BY <1>2, <2>2, Inserted
  <2>4. QED
    BY <2>1, <2>3
<1>10. \A m \in LL!Nodes : m # n /\ m # h /\ ~In(q, m) => k_next'[m] = k_next[m] /\ k_prev'[m] = k_prev[m]
  BY <1>6, <1>7
<1>11. content' = [content EXCEPT ![h] = t]
  BY <1>1, <1>2
<1>12. QED
  BY <1>1, <1>4, <1>7, <1>9, <1>10, <1>11, OneList

\* list_insert_after keeps the invariant, ...
LEMMA InsertAfterStep == ASSUME LL!LinkedListAssumption, ListInv, LL!InsertAfter PROVE ListInv'
<1>1. PICK l \in LL!Nodes \ LL!Out, n \in LL!Out :
        /\ LL!list_insert_after(l, n)
        /\ content' = [content EXCEPT ![LL!List(l)] = LL!InsertAt(@, LL!Place(l) + 1, n)]
  BY DEF LL!InsertAfter
<1>2. PICK h \in Heads, p \in Nat : h = LL!List(l) /\ p = LL!Place(l)
  BY Found
<1>3. p \in 0 .. Len(content[h]) /\ Ring(content[h], h, p) = l
  BY <1>2, Found
<1>4. k_next[l] = Ring(content[h], h, p + 1)
  <2>1. Linked(k_next, k_prev, h, content[h])
    BY DEF ListInv
  <2>2. QED
    BY <1>3, <2>1 DEF Linked
<1>5. /\ k_next' = [k_next EXCEPT ![n] = k_next[l], ![l] = n]
      /\ k_prev' = [k_prev EXCEPT ![k_next[l]] = n, ![n] = l]
  BY <1>1 DEF LL!list_insert_after
<1>6. content' = [content EXCEPT ![h] = LL!InsertAt(content[h], p + 1, n)]
  BY <1>1, <1>2
<1>7. PICK b : b = k_next[l]
  OBVIOUS
<1>8. /\ k_next' = [k_next EXCEPT ![n] = b, ![l] = n]
      /\ k_prev' = [k_prev EXCEPT ![b] = n, ![n] = l]
  BY <1>5, <1>7
<1>9. l = Ring(content[h], h, p) /\ b = Ring(content[h], h, p + 1)
  BY <1>3, <1>4, <1>7
<1>10. QED
  BY <1>3, <1>6, <1>8, <1>9, Insert

\* ... so does list_insert_before, ...
LEMMA InsertBeforeStep == ASSUME LL!LinkedListAssumption, ListInv, LL!InsertBefore PROVE ListInv'
<1>1. PICK l \in LL!Nodes \ LL!Out, n \in LL!Out :
        /\ LL!list_insert_before(l, n)
        /\ content' = [content EXCEPT ![LL!List(l)] =
                          LL!InsertAt(@, IF l \in Heads THEN Len(@) + 1 ELSE LL!Place(l), n)]
  BY DEF LL!InsertBefore
<1>2. PICK h \in Heads : h = LL!List(l)
  BY Found
<1>3. Linked(k_next, k_prev, h, content[h]) /\ Len(content[h]) \in Nat /\ content[h] \in Seq(Items) /\ Distinct(content[h])
  BY DEF ListInv, Linked
<1>4. PICK p : p = IF l \in Heads THEN Len(content[h]) ELSE LL!Place(l) - 1
  OBVIOUS
<1>5. /\ p \in 0 .. Len(content[h]) /\ Ring(content[h], h, p + 1) = l
      /\ p + 1 = IF l \in Heads THEN Len(content[h]) + 1 ELSE LL!Place(l)
  <2>1. CASE l \in Heads
    <3>1. h = l /\ Ring(content[h], h, Len(content[h]) + 1) = h
      BY <1>2, <1>3, <2>1, Found, RingIs
    <3>2. QED
      BY <1>3, <1>4, <2>1, <3>1
  <2>2. CASE l \notin Heads
    <3>1. l \in Items
      BY <2>2 DEF LL!Nodes
    <3>2. LL!Place(l) \in 1 .. Len(content[h]) /\ Ring(content[h], h, LL!Place(l)) = l
      BY <1>2, <3>1, Found
    <3>3. (LL!Place(l) - 1) + 1 = LL!Place(l) /\ LL!Place(l) - 1 \in 0 .. Len(content[h])
      BY <1>3, <3>2
    <3>4. QED
      BY <1>4, <2>2, <3>2, <3>3
  <2>3. QED
    BY <2>1, <2>2
<1>6. k_prev[l] = Ring(content[h], h, p)
  BY <1>3, <1>5 DEF Linked
<1>7. PICK a : a = k_prev[l]
  OBVIOUS
<1>8. /\ k_next' = [k_next EXCEPT ![a] = n, ![n] = l]
      /\ k_prev' = [k_prev EXCEPT ![n] = a, ![l] = n]
  BY <1>1, <1>7 DEF LL!list_insert_before
<1>9. a # n /\ l # n
  <2>1. n \in Items /\ ~In(content[h], n) /\ h \notin Items
    BY OutIs DEF LL!LinkedListAssumption
  <2>2. \A k \in 0 .. Len(content[h]) + 1 : Ring(content[h], h, k) # n
    BY <1>3, <2>1, RingIs
  <2>3. p \in 0 .. Len(content[h]) + 1 /\ p + 1 \in 0 .. Len(content[h]) + 1
    BY <1>3, <1>5
  <2>4. QED
    BY <1>5, <1>6, <1>7, <2>2, <2>3
<1>10. /\ k_next' = [k_next EXCEPT ![n] = l, ![a] = n]
       /\ k_prev' = [k_prev EXCEPT ![l] = n, ![n] = a]
  BY <1>8, <1>9 DEF ListInv
<1>11. content' = [content EXCEPT ![h] = LL!InsertAt(content[h], p + 1, n)]
  <2>1. content' = [content EXCEPT ![h] = LL!InsertAt(content[h], IF l \in Heads THEN Len(content[h]) + 1 ELSE LL!Place(l), n)]
    BY <1>1, <1>2
  <2>2. QED
    BY <1>5, <2>1
<1>12. a = Ring(content[h], h, p) /\ l = Ring(content[h], h, p + 1)
  BY <1>5, <1>6, <1>7
<1>13. QED
  BY <1>5, <1>10, <1>11, <1>12, Insert

\* ... list_delete, of a node in a list and of one in none, ...
LEMMA DeleteStep == ASSUME LL!LinkedListAssumption, ListInv, LL!Delete PROVE ListInv'
<1>1. PICK n \in Items :
        /\ k_prev' = [[k_prev EXCEPT ![k_next[n]] = k_prev[n]] EXCEPT ![n] = n]
        /\ k_next' = [[k_next EXCEPT ![k_prev[n]] = k_next[n]] EXCEPT ![n] = n]
        /\ content' = IF n \in LL!Out THEN content
                      ELSE [content EXCEPT ![LL!List(n)] = LL!RemoveAt(@, LL!Place(n))]
  BY DEF LL!Delete, LL!list_del
<1>2. n \in LL!Nodes /\ k_next \in [LL!Nodes -> LL!Nodes] /\ k_prev \in [LL!Nodes -> LL!Nodes]
  BY DEF LL!Nodes, ListInv
<1>3. CASE n \in LL!Out
  <2>1. k_next[n] = n /\ k_prev[n] = n
    BY <1>3, OutIs DEF ListInv
  <2>2. k_next' = k_next /\ k_prev' = k_prev /\ content' = content
    <3>1. content' = content
      BY <1>1, <1>3
    <3>2. k_next' = [[k_next EXCEPT ![n] = n] EXCEPT ![n] = n] /\ k_prev' = [[k_prev EXCEPT ![n] = n] EXCEPT ![n] = n]
      BY <1>1, <2>1
    <3>3. [k_next EXCEPT ![n] = n] = k_next /\ [k_prev EXCEPT ![n] = n] = k_prev
      BY <1>2, <2>1
    <3>4. QED
      BY <3>1, <3>2, <3>3
  <2>3. QED
    BY <2>2 DEF ListInv
<1>4. CASE n \notin LL!Out
  <2>1. PICK h \in Heads, p \in Nat : h = LL!List(n) /\ p = LL!Place(n)
    BY <1>2, <1>4, Found
  <2>2. p \in 1 .. Len(content[h]) /\ content[h][p] = n
    BY <1>2, <1>4, <2>1, Found
  <2>3. PICK q : q = content[h]
    OBVIOUS
  <2>4. Linked(k_next, k_prev, h, q) /\ q \in Seq(Items) /\ Distinct(q) /\ Len(q) \in Nat
    BY <2>3 DEF ListInv, Linked
  <2>5. PICK a, b : a = Ring(q, h, p - 1) /\ b = Ring(q, h, p + 1)
    OBVIOUS
  <2>6. /\ h \notin Items
        /\ \A k \in 1 .. Len(q) : Ring(q, h, k) = q[k]
        /\ \A j, k \in 0 .. Len(q) : Ring(q, h, j) = Ring(q, h, k) => j = k
        /\ \A j, k \in 1 .. Len(q) + 1 : Ring(q, h, j) = Ring(q, h, k) => j = k
        /\ \A k \in 0 .. Len(q) + 1 : Ring(q, h, k) = h \/ (In(q, Ring(q, h, k)) /\ Ring(q, h, k) \in Items)
    BY <2>4, RingIs
  <2>7. /\ p \in 0 .. Len(q) /\ p - 1 \in 0 .. Len(q) /\ p \in 1 .. Len(q) + 1 /\ p + 1 \in 1 .. Len(q) + 1
        /\ p - 1 # p /\ p + 1 # p /\ p - 1 \in 0 .. Len(q) + 1 /\ p + 1 \in 0 .. Len(q) + 1 /\ (p - 1) + 1 = p
    BY <2>2, <2>3, <2>4
  <2>8. Ring(q, h, p) = n /\ k_next[n] = b /\ k_prev[n] = a
    <3>1. Ring(q, h, p) = n
      BY <2>2, <2>3, <2>6
    <3>2. k_next[Ring(q, h, p)] = Ring(q, h, p + 1) /\ k_prev[Ring(q, h, (p - 1) + 1)] = Ring(q, h, p - 1)
      BY <2>4, <2>7 DEF Linked
    <3>3. QED
      BY <2>5, <2>7, <3>1, <3>2
  <2>9. a # n /\ b # n /\ (a = h \/ In(q, a)) /\ (b = h \/ In(q, b)) /\ a \in LL!Nodes /\ b \in LL!Nodes
    <3>1. a # n /\ b # n
      BY <2>5, <2>6, <2>7, <2>8
    <3>2. QED
      BY <2>5, <2>6, <2>7, <3>1 DEF LL!Nodes
  <2>10. /\ k_prev' = [[k_prev EXCEPT ![b] = a] EXCEPT ![n] = n]
         /\ k_next' = [[k_next EXCEPT ![a] = b] EXCEPT ![n] = n]
    BY <1>1, <2>8
  <2>11. /\ k_next' \in [LL!Nodes -> LL!Nodes] /\ k_prev' \in [LL!Nodes -> LL!Nodes]
         /\ k_next'[n] = n /\ k_next'[a] = b /\ k_prev'[n] = n /\ k_prev'[b] = a
         /\ \A m \in LL!Nodes : (m # n /\ m # a => k_next'[m] = k_next[m])
                          /\ (m # n /\ m # b => k_prev'[m] = k_prev[m])
    BY <1>2, <2>9, <2>10
  <2>12. PICK t : t = LL!RemoveAt(q, p)
    OBVIOUS
  <2>13. Linked(k_next', k_prev', h, t) /\ \A m : In(t, m) <=> (In(q, m) /\ m # n)
    <3>1. PICK nx, pv, nx1, pv1 : nx = k_next /\ pv = k_prev /\ nx1 = k_next' /\ pv1 = k_prev'
      OBVIOUS
    <3>2. /\ Linked(nx, pv, h, q) /\ p \in 1 .. Len(q) /\ n = q[p]
          /\ Without(nx, pv, nx1, pv1, Ring(q, h, p - 1), n, Ring(q, h, p + 1))
      BY <2>2, <2>3, <2>4, <2>5, <2>11, <3>1 DEF Without
    <3>3. Linked(nx1, pv1, h, t) /\ \A m : In(t, m) <=> (In(q, m) /\ m # n)
      BY <2>12, <3>2, Removed
    <3>4. QED
      BY <3>1, <3>3
  <2>14. \A m \in LL!Nodes : m # n /\ m # h /\ ~In(q, m) => k_next'[m] = k_next[m] /\ k_prev'[m] = k_prev[m]
    BY <2>9, <2>11
  <2>15. \A g \in Heads : g # h => ~In(content[g], n)
    <3>1. In(content[h], n)
      BY <2>2 DEF In
    <3>2. QED
      BY <3>1 DEF ListInv
  <2>16. content' = [content EXCEPT ![h] = t]
    <3>1. content' = [content EXCEPT ![LL!List(n)] = LL!RemoveAt(content[LL!List(n)], LL!Place(n))]
      BY <1>1, <1>4
    <3>2. QED
      BY <2>1, <2>3, <2>12, <3>1
  <2>17. QED
    BY <2>3, <2>11, <2>13, <2>14, <2>15, <2>16, OneList
<1>5. QED
  BY <1>3, <1>4

\* ... and list_splice_init.
LEMMA SpliceStep == ASSUME LL!LinkedListAssumption, ListInv, LL!Splice PROVE ListInv'
<1>1. PICK l \in Heads, h \in Heads :
        /\ l # h /\ LL!list_splice_init(l, h)
        /\ content' = [content EXCEPT ![h] = content[l] \o @, ![l] = <<>>]
  BY DEF LL!Splice
<1>2. PICK s, q : s = content[l] /\ q = content[h]
  OBVIOUS
<1>3. /\ Linked(k_next, k_prev, l, s) /\ s \in Seq(Items) /\ Distinct(s) /\ Len(s) \in Nat
      /\ Linked(k_next, k_prev, h, q) /\ q \in Seq(Items) /\ Distinct(q) /\ Len(q) \in Nat
      /\ \A m : In(s, m) => ~In(q, m)
  BY <1>1, <1>2 DEF ListInv, Linked
<1>4. /\ k_next \in [LL!Nodes -> LL!Nodes] /\ k_prev \in [LL!Nodes -> LL!Nodes] /\ content \in [Heads -> Seq(Items)]
  BY DEF ListInv
<1>5. PICK t : t = s \o q
  OBVIOUS
<1>6. content' = [content EXCEPT ![h] = t, ![l] = <<>>]
  BY <1>1, <1>2, <1>5
<1>7. content'[h] = t /\ content'[l] = <<>> /\ \A g \in Heads : g # h /\ g # l => content'[g] = content[g]
  BY <1>1, <1>4, <1>6
<1>8. /\ l \notin Items /\ k_next[l] = Ring(s, l, 1) /\ k_prev[l] = Ring(s, l, Len(s))
      /\ h \notin Items /\ k_next[h] = Ring(q, h, 1)
      /\ \A k \in 1 .. Len(s) : Ring(s, l, k) = s[k] /\ s[k] \in Items /\ s[k] # l /\ In(s, s[k])
  <2>1. /\ l \notin Items /\ Ring(s, l, 0) = l /\ Ring(s, l, Len(s) + 1) = l
        /\ h \notin Items /\ Ring(q, h, 0) = h
        /\ \A k \in 1 .. Len(s) : Ring(s, l, k) = s[k] /\ s[k] \in Items /\ s[k] # l /\ In(s, s[k])
    BY <1>3, RingIs
  <2>2. 0 \in 0 .. Len(s) /\ Len(s) \in 0 .. Len(s) /\ 0 \in 0 .. Len(q)
    BY <1>3
  <2>3. k_next[Ring(s, l, 0)] = Ring(s, l, 0 + 1) /\ k_prev[Ring(s, l, Len(s) + 1)] = Ring(s, l, Len(s))
        /\ k_next[Ring(q, h, 0)] = Ring(q, h, 0 + 1)
    BY <1>3, <2>2 DEF Linked
  <2>4. QED
    BY <2>1, <2>3
<1>9. CASE Len(s) = 0
  <2>1. LL!list_empty(l)
    <3>1. Ring(s, l, 1) = l
      BY <1>9 DEF Ring
    <3>2. QED
      BY <1>8, <3>1 DEF LL!list_empty
  <2>2. k_next' = k_next /\ k_prev' = k_prev
    BY <1>1, <2>1 DEF LL!list_splice_init
  <2>3. s = <<>> /\ t = q
    BY <1>3, <1>5, <1>9
  <2>4. \A g \in Heads : content'[g] = content[g]
    BY <1>2, <1>7, <2>3
  <2>5. content' = [g \in Heads |-> content'[g]] /\ content = [g \in Heads |-> content[g]]
    BY <1>4, <1>6
  <2>6. content' = content
    BY <2>4, <2>5
  <2>7. QED
    BY <2>2, <2>6 DEF ListInv
<1>10. CASE Len(s) # 0
  <2>1. 1 \in 1 .. Len(s) /\ Len(s) \in 1 .. Len(s)
    BY <1>3, <1>10
  <2>2. k_next[l] = s[1] /\ k_prev[l] = s[Len(s)] /\ ~LL!list_empty(l)
    BY <1>8, <2>1 DEF LL!list_empty
  <2>3. PICK a, z, b : a = s[1] /\ z = s[Len(s)] /\ b = Ring(q, h, 1)
    OBVIOUS
  <2>4. /\ k_next' = [k_next EXCEPT ![h] = a, ![z] = b, ![l] = l]
        /\ k_prev' = [k_prev EXCEPT ![a] = h, ![b] = z, ![l] = l]
    BY <1>1, <1>8, <2>2, <2>3 DEF LL!list_splice_init
  <2>5. /\ b = h \/ (In(q, b) /\ b \in Items)
        /\ 1 \in 0 .. Len(q) + 1
    <3>1. 1 \in 0 .. Len(q) + 1
      BY <1>3
    <3>2. QED
      BY <1>3, <2>3, <3>1, RingIs
  <2>6. /\ In(s, a) /\ In(s, z) /\ a \in Items /\ z \in Items
    BY <1>8, <2>1, <2>3
  <2>7. /\ a # h /\ z # h /\ a # l /\ z # l /\ b # l /\ a # b /\ z # b
        /\ a \in LL!Nodes /\ z \in LL!Nodes /\ b \in LL!Nodes /\ h \in LL!Nodes /\ l \in LL!Nodes
    BY <1>1, <1>3, <1>8, <2>5, <2>6 DEF LL!Nodes
  <2>8. /\ k_next' \in [LL!Nodes -> LL!Nodes] /\ k_prev' \in [LL!Nodes -> LL!Nodes]
        /\ k_next'[h] = a /\ k_next'[z] = b /\ k_next'[l] = l
        /\ k_prev'[a] = h /\ k_prev'[b] = z /\ k_prev'[l] = l
        /\ \A m \in LL!Nodes : /\ m # h /\ m # l /\ m # z => k_next'[m] = k_next[m]
                               /\ m # l /\ m # a /\ m # b => k_prev'[m] = k_prev[m]
    BY <1>1, <1>4, <2>4, <2>7
  <2>9. /\ Linked(k_next', k_prev', h, t) /\ Linked(k_next', k_prev', l, <<>>)
        /\ \A m : In(t, m) <=> In(s, m) \/ In(q, m)
    <3>1. PICK nx, pv, nx1, pv1 : nx = k_next /\ pv = k_prev /\ nx1 = k_next' /\ pv1 = k_prev'
      OBVIOUS
    <3>2. /\ Linked(nx, pv, h, q) /\ Linked(nx, pv, l, s) /\ l # h /\ Len(s) # 0
          /\ Apart(s, q) /\ Joined(nx, pv, nx1, pv1, h, q, l, s)
      BY <1>1, <1>3, <1>10, <2>3, <2>8, <3>1 DEF Joined, Apart
    <3>3. Linked(nx1, pv1, h, t) /\ Linked(nx1, pv1, l, <<>>) /\ Both(t, s, q)
      BY ONLY LL!LinkedListAssumption, <1>5, <3>2, Spliced
    <3>4. QED
      BY <3>1, <3>3 DEF Both
  <2>10. \A g \in Heads : g # h /\ g # l => \A m : In(content[g], m) => ~In(s, m) /\ ~In(q, m)
    BY <1>2 DEF ListInv
  <2>11. ASSUME NEW g \in Heads PROVE Linked(k_next', k_prev', g, content'[g])
    <3>1. CASE g = h \/ g = l
      BY <1>7, <2>9, <3>1
    <3>2. CASE g # h /\ g # l
      <4>1. g \in LL!Nodes /\ g # a /\ g # b /\ g # z /\ g # h /\ g # l
        BY <2>5, <2>6, <3>2 DEF LL!LinkedListAssumption, LL!Nodes
      <4>2. \A m \in Items : In(content[g], m) => m \in LL!Nodes /\ m # a /\ m # b /\ m # z /\ m # h /\ m # l
        BY <1>8, <2>5, <2>6, <2>10, <3>2 DEF LL!Nodes
      <4>3. SameLinks(k_next', k_next, g, content[g]) /\ SameLinks(k_prev', k_prev, g, content[g])
        BY <2>8, <4>1, <4>2 DEF SameLinks
      <4>4. Linked(k_next, k_prev, g, content[g])
        BY DEF ListInv
      <4>5. PICK nx, pv, c : nx = k_next' /\ pv = k_prev' /\ c = content[g]
        OBVIOUS
      <4>6. Linked(nx, pv, g, c)
        BY <4>3, <4>4, <4>5, LinkedStays
      <4>7. QED
        BY <1>7, <3>2, <4>5, <4>6
    <3>3. QED
      BY <3>1, <3>2
  <2>12. \A m : ~In(<<>>, m)
    BY DEF In
  <2>13. ASSUME NEW g \in Heads, NEW k \in Heads, g # k, NEW m, In(content'[g], m)
         PROVE  ~In(content'[k], m)
    <3>1. /\ In(content'[g], m) => \/ g = h /\ (In(content[h], m) \/ In(content[l], m))
                                   \/ g # h /\ g # l /\ In(content[g], m)
          /\ In(content'[k], m) => \/ k = h /\ (In(content[h], m) \/ In(content[l], m))
                                   \/ k # h /\ k # l /\ In(content[k], m)
      BY <1>2, <1>7, <2>9, <2>12
    <3>2. QED
      BY <2>13, <3>1 DEF ListInv
  <2>14. ASSUME NEW m \in Items, \A g \in Heads : ~In(content'[g], m)
         PROVE  k_next'[m] = m /\ k_prev'[m] = m
    <3>1. ~In(s, m) /\ ~In(q, m)
      BY <1>7, <2>9, <2>14
    <3>2. \A g \in Heads : ~In(content[g], m)
      BY <1>2, <1>7, <2>14, <3>1
    <3>3. k_next[m] = m /\ k_prev[m] = m
      BY <3>2 DEF ListInv
    <3>4. m \in LL!Nodes /\ m # a /\ m # b /\ m # z /\ m # h /\ m # l
      BY <1>8, <2>5, <2>6, <3>1 DEF LL!Nodes
    <3>5. QED
      BY <2>8, <3>3, <3>4
  <2>15. content' \in [Heads -> Seq(Items)]
    <3>1. t \in Seq(Items) /\ <<>> \in Seq(Items)
      BY <1>3, <1>5, ConcatProperties
    <3>2. QED
      BY <1>4, <1>6, <3>1
  <2>16. QED
    BY <2>8, <2>11, <2>13, <2>14, <2>15 DEF ListInv
<1>11. QED
  BY <1>9, <1>10

\* So every step does.
LEMMA ListStep == ASSUME LL!LinkedListAssumption, ListInv, [LL!Next]_LL!vars PROVE ListInv'
<1>1. CASE UNCHANGED LL!vars
  BY <1>1 DEF ListInv, LL!vars
<1>2. QED
  BY <1>1, InsertAfterStep, InsertBeforeStep, DeleteStep, SpliceStep DEF LL!Next

--------------------------------------------------------------------------------
(* What one comes across on the way round.                                 *)

\* No list is longer than there are nodes.
LEMMA Short ==
  ASSUME LL!LinkedListAssumption, NEW q \in Seq(Items), Distinct(q)
  PROVE  Cardinality(LL!Nodes) \in Nat /\ Len(q) <= Cardinality(LL!Nodes)
<1>1. IsFiniteSet(LL!Nodes) /\ Items \subseteq LL!Nodes
  BY FS_Union, SameSizes DEF LL!LinkedListAssumption, LL!Nodes
<1>2. Cardinality(LL!Nodes) \in Nat
  BY <1>1, FS_CardinalityType
<1>3. Len(q) \in Nat /\ q \in [1 .. Len(q) -> LL!Nodes]
  BY <1>1
<1>4. IsFiniteSet(1 .. Len(q)) /\ Cardinality(1 .. Len(q)) = Len(q)
  BY <1>3, FS_Interval
<1>5. SUFFICES ASSUME Cardinality(LL!Nodes) < Len(q) PROVE FALSE
  BY <1>2, <1>3
<1>6. \E x, y \in 1 .. Len(q) : x # y /\ q[x] = q[y]
  BY <1>1, <1>3, <1>4, <1>5, FS_PigeonHole
<1>7. QED
  BY <1>6 DEF Distinct

\* Who follows the links from the head on comes across the items in order.
LEMMA WalkIs ==
  ASSUME LL!LinkedListAssumption, NEW h \in Heads, NEW r \in Seq(Items), NEW link,
         Len(r) <= Cardinality(LL!Nodes), Cardinality(LL!Nodes) \in Nat,
         \A k \in 0 .. Len(r) : link[Ring(r, h, k)] = Ring(r, h, k + 1)
  PROVE  LL!Walk(link, h) = r
<1> DEFINE N == Cardinality(LL!Nodes)
           at == CHOOSE w : WalkUpTo(link, link[h], w, N)
           n == Len(r)
           Same == {k \in Nat : k <= n => at[k] = Ring(r, h, k + 1)}
           ends == {k \in DOMAIN at : at[k] = h}
           end == CHOOSE k \in ends : \A j \in ends : k <= j
<1>1. n \in Nat /\ N \in Nat /\ n <= N /\ h \notin Items
  BY DEF LL!LinkedListAssumption
<1>2. /\ at = [k \in 0 .. N |-> IF k = 0 THEN link[h] ELSE link[at[k - 1]]]
      /\ \A k \in 0 .. N : at[k] = IF k = 0 THEN link[h] ELSE link[at[k - 1]]
      /\ DOMAIN at = 0 .. N
  <2>1. \E w : WalkUpTo(link, link[h], w, N)
    BY <1>1, WalkExists
  <2>2. WalkUpTo(link, link[h], at, N)
    <3> HIDE DEF N
    <3> QED
      BY <2>1
  <2> HIDE DEF at, N
  <2>3. QED
    BY <2>2 DEF WalkUpTo
<1> HIDE DEF at, N
<1>3. Ring(r, h, 0) = h /\ Ring(r, h, n + 1) = h /\ \A k \in 1 .. n : Ring(r, h, k) = r[k] /\ r[k] \in Items /\ r[k] # h
  <2>1. 0 \notin 1 .. n /\ n + 1 \notin 1 .. n
    BY <1>1
  <2>2. QED
    BY <1>1, <2>1 DEF Ring
<1>4. 0 \in Same
  <2>1. 0 \in 0 .. N /\ 0 \in 0 .. n
    BY <1>1
  <2>2. at[0] = link[h] /\ link[Ring(r, h, 0)] = Ring(r, h, 0 + 1)
    BY <1>2, <2>1
  <2>3. QED
    BY <1>3, <2>2
<1>5. ASSUME NEW k \in Nat, k \in Same PROVE k + 1 \in Same
  <2>1. SUFFICES ASSUME k + 1 <= n PROVE at[k + 1] = Ring(r, h, (k + 1) + 1)
    OBVIOUS
  <2>2. k <= n /\ k + 1 \in 0 .. N /\ k + 1 # 0 /\ (k + 1) - 1 = k /\ k + 1 \in 0 .. n
    BY <1>1, <2>1
  <2>3. at[k + 1] = link[at[k]] /\ at[k] = Ring(r, h, k + 1)
    BY <1>2, <1>5, <2>2
  <2>4. QED
    BY <2>2, <2>3
<1>6. \A k \in 0 .. n : at[k] = Ring(r, h, k + 1)
  <2>1. Nat \subseteq Same
    <3> HIDE DEF Same
    <3> QED
      BY <1>4, <1>5, SetInduction
  <2>2. \A k \in 0 .. n : k \in Nat /\ k <= n
    BY <1>1
  <2>3. QED
    BY <2>1, <2>2
<1>7. at[n] = h /\ \A k \in 0 .. n - 1 : at[k] = r[k + 1] /\ at[k] # h
  <2>1. at[n] = h
    BY <1>1, <1>3, <1>6
  <2>2. ASSUME NEW k \in 0 .. n - 1 PROVE at[k] = r[k + 1] /\ at[k] # h
    <3>1. k \in 0 .. n /\ k + 1 \in 1 .. n
      BY <1>1
    <3>2. QED
      BY <1>3, <1>6, <3>1
  <2>3. QED
    BY <2>1, <2>2
<1>8. end = n
  <2>1. n \in ends
    BY <1>1, <1>2, <1>7
  <2>2. \A j \in ends : n <= j
    <3>1. ASSUME NEW j \in ends, ~(n <= j) PROVE FALSE
      <4>1. j \in 0 .. N /\ at[j] = h
        BY <1>2
      <4>2. j \in 0 .. n - 1
        BY <1>1, <3>1, <4>1
      <4>3. QED
        BY <1>7, <4>1, <4>2
    <3>2. QED
      BY <3>1
  <2>3. \A k \in ends : k \in Nat
    BY <1>1, <1>2
  <2> HIDE DEF ends
  <2>4. end \in ends /\ \A j \in ends : end <= j
    BY <2>1, <2>2
  <2> HIDE DEF end
  <2>5. end <= n /\ n <= end /\ end \in Nat
    BY <2>1, <2>2, <2>3, <2>4
  <2>6. QED
    BY <1>1, <2>5
<1>9. LL!Walk(link, h) = [k \in 1 .. end |-> at[k - 1]]
  <2>1. N = LL!Cardinality(LL!Nodes)
    BY SameSizes DEF N
  <2>2. QED
    BY <2>1 DEF LL!Walk, WalkUpTo, at
<1>10. \A k \in 1 .. n : at[k - 1] = r[k]
  <2>1. \A k \in 1 .. n : k - 1 \in 0 .. n - 1 /\ (k - 1) + 1 = k
    BY <1>1
  <2>2. QED
    BY <1>7, <2>1
<1>11. r = [k \in 1 .. n |-> r[k]]
  OBVIOUS
<1> HIDE DEF end, n
<1>12. QED
  BY <1>8, <1>9, <1>10, <1>11

\* With the invariant the lists are what was put into them, both ways.
LEMMA ListSound == ASSUME LL!LinkedListAssumption, ListInv PROVE LL!TypeOK /\ LL!ListsHold
<1>1. ASSUME NEW h \in Heads
      PROVE  /\ LL!Walk(k_next, h) = content[h] /\ LL!Walk(k_prev, h) = LL!Reverse(content[h])
             /\ LL!list_empty(h) = (content[h] = <<>>)
             /\ \A n \in Items : LL!list_find(h, n) = LL!Contains(content[h], n)
  <2>1. PICK q : q = content[h]
    OBVIOUS
  <2>2. /\ q \in Seq(Items) /\ Distinct(q) /\ Len(q) \in Nat
        /\ \A k \in 0 .. Len(q) : k_next[Ring(q, h, k)] = Ring(q, h, k + 1)
                               /\ k_prev[Ring(q, h, k + 1)] = Ring(q, h, k)
    BY <2>1 DEF ListInv, Linked
  <2>3. Cardinality(LL!Nodes) \in Nat /\ Len(q) <= Cardinality(LL!Nodes)
    BY <2>2, Short
  <2>4. LL!Walk(k_next, h) = q
    BY <2>2, <2>3, WalkIs
  <2>5. PICK r : r = LL!Reverse(q)
    OBVIOUS
  <2>6. r = [i \in 1 .. Len(q) |-> q[(Len(q) - i) + 1]]
    BY <2>5 DEF LL!Reverse
  <2>7. r \in Seq(Items) /\ Len(r) = Len(q)
    <3>1. r \in [1 .. Len(q) -> Items]
      BY <2>2, <2>6
    <3>2. ASSUME NEW S, NEW i \in Nat, NEW g \in [1 .. i -> S] PROVE g \in Seq(S) /\ Len(g) = i
      OBVIOUS
    <3>3. QED
      BY <2>2, <3>1, <3>2
  <2>8. \A k \in 0 .. Len(q) + 1 : Ring(r, h, k) = Ring(q, h, Len(q) + 1 - k)
    <3>1. ASSUME NEW k \in 0 .. Len(q) + 1 PROVE Ring(r, h, k) = Ring(q, h, Len(q) + 1 - k)
      <4>1. CASE k \in 1 .. Len(q)
        <5>1. Len(q) + 1 - k \in 1 .. Len(q) /\ (Len(q) - k) + 1 = Len(q) + 1 - k
          BY <2>2, <4>1
        <5>2. QED
          BY <2>6, <2>7, <4>1, <5>1 DEF Ring
      <4>2. CASE k \notin 1 .. Len(q)
        <5>1. Len(q) + 1 - k \notin 1 .. Len(q)
          BY <2>2, <4>2
        <5>2. QED
          BY <2>7, <4>2, <5>1 DEF Ring
      <4>3. QED
        BY <4>1, <4>2
    <3>2. QED
      BY <3>1
  <2>9. \A k \in 0 .. Len(r) : k_prev[Ring(r, h, k)] = Ring(r, h, k + 1)
    <3>1. ASSUME NEW k \in 0 .. Len(q) PROVE k_prev[Ring(r, h, k)] = Ring(r, h, k + 1)
      <4>1. PICK j : j = Len(q) - k
        OBVIOUS
      <4>2. j \in 0 .. Len(q) /\ k \in 0 .. Len(q) + 1 /\ k + 1 \in 0 .. Len(q) + 1
            /\ Len(q) + 1 - k = j + 1 /\ Len(q) + 1 - (k + 1) = j
        BY <2>2, <4>1
      <4>3. Ring(r, h, k) = Ring(q, h, j + 1) /\ Ring(r, h, k + 1) = Ring(q, h, j)
        BY <2>8, <4>2
      <4>4. QED
        BY <2>2, <4>2, <4>3
    <3>2. QED
      BY <2>7, <3>1
  <2>10. LL!Walk(k_prev, h) = r
    <3>1. Len(r) <= Cardinality(LL!Nodes)
      BY <2>3, <2>7
    <3>2. QED
      BY <2>3, <2>7, <2>9, <3>1, WalkIs
  <2>11. LL!list_empty(h) = (q = <<>>)
    <3>1. /\ h \notin Items /\ Ring(q, h, 0) = h
          /\ \A k \in 1 .. Len(q) : Ring(q, h, k) = q[k] /\ q[k] # h
      BY <2>2, RingIs
    <3>2. 0 \in 0 .. Len(q) /\ 0 + 1 = 1
      BY <2>2
    <3>3. k_next[h] = Ring(q, h, 1)
      BY <2>2, <3>1, <3>2
    <3>4. CASE Len(q) = 0
      <4>1. q = <<>> /\ Ring(q, h, 1) = h
        BY <2>2, <3>4 DEF Ring
      <4>2. QED
        BY <3>3, <4>1 DEF LL!list_empty
    <3>5. CASE Len(q) # 0
      <4>1. 1 \in 1 .. Len(q) /\ q # <<>>
        BY <2>2, <3>5
      <4>2. QED
        BY <3>1, <3>3, <4>1 DEF LL!list_empty
    <3>6. QED
      BY <3>4, <3>5
  <2>12. \A n \in Items : LL!list_find(h, n) = LL!Contains(q, n)
    BY <2>4 DEF LL!list_find
  <2>13. QED
    BY <2>1, <2>4, <2>5, <2>10, <2>11, <2>12
<1>2. \A n \in LL!Out : k_next[n] = n /\ k_prev[n] = n
  BY OutIs DEF ListInv
<1>3. LL!TypeOK
  BY DEF ListInv, LL!TypeOK
<1>4. QED
  BY <1>1, <1>2, <1>3 DEF LL!ListsHold

\* The lists hold what was put into them, whatever the order of the calls, for any heads
\* and items (list_insert_after, list_insert_before, list_del, list_splice_init).
THEOREM ListsKeep == ASSUME LL!LinkedListAssumption PROVE LL!Spec => [](LL!TypeOK /\ LL!ListsHold)
BY ListInit, ListStep, ListSound, PTL DEF LL!Spec

--------------------------------------------------------------------------------
(* The message queue, for any number of senders, the higher preempting the *)
(* lower, and the receiver below all of them.                              *)

\* The pool has room for so many messages, of such a size.
LEMMA Sizes ==
  ASSUME MQ!MessageQueueAssumption PROVE MQ!msg_size \in Nat \ {0} /\ MQ!max_msgs \in Nat
<1>1. MsgSize \in Nat \ {0} /\ PoolSize \in Nat
  BY DEF MQ!MessageQueueAssumption
<1>2. MQ!msg_size \in Nat \ {0}
  BY <1>1 DEF MQ!msg_size, MQ!AlignUp
<1>3. ASSUME NEW a \in Nat, NEW b \in Nat \ {0} PROVE a \div b \in Nat
  OBVIOUS
<1>4. MQ!msg_size + MQ!Pointer \in Nat \ {0}
  BY <1>2 DEF MQ!Pointer
<1>5. MQ!max_msgs \in Nat
  BY <1>1, <1>3, <1>4 DEF MQ!max_msgs
<1>6. QED
  BY <1>2, <1>5

--------------------------------------------------------------------------------
(* Lists of messages.                                                      *)

\* The ends of a list, as the code has them.
First(q) == IF Len(q) = 0 THEN MQ!NULL ELSE q[1]
Final(q) == IF Len(q) = 0 THEN MQ!NULL ELSE q[Len(q)]

\* q is what the links f lead along from n on.
Path(f, n, q) ==
    /\ n = First(q)
    /\ \A k \in 1 .. Len(q) : f[q[k]] = IF k = Len(q) THEN MQ!NULL ELSE q[k + 1]

\* The first is taken off, ...
LEMMA Shift ==
  ASSUME NEW S, NEW q \in Seq(S), Len(q) # 0, Distinct(q)
  PROVE  /\ Tail(q) \in Seq(S) /\ Len(Tail(q)) = Len(q) - 1 /\ Distinct(Tail(q))
         /\ q[1] \in S /\ In(q, q[1])
         /\ \A k \in 1 .. Len(Tail(q)) : Tail(q)[k] = q[k + 1] /\ k + 1 \in 1 .. Len(q)
         /\ \A m : In(Tail(q), m) <=> In(q, m) /\ m # q[1]
<1>1. PICK t : t = Tail(q)
  OBVIOUS
<1>2. Len(q) \in Nat \ {0} /\ 1 \in 1 .. Len(q)
  OBVIOUS
<1>3. t \in Seq(S) /\ Len(t) = Len(q) - 1 /\ \A k \in 1 .. Len(t) : t[k] = q[k + 1]
  <2>1. q # <<>>
    BY <1>2
  <2>2. QED
    BY <1>1, <2>1, HeadTailProperties
<1>4. \A k \in 1 .. Len(t) : t[k] = q[k + 1] /\ k + 1 \in 1 .. Len(q) /\ k + 1 # 1
  BY <1>2, <1>3
<1>5. Distinct(t)
  <2>1. ASSUME NEW j \in 1 .. Len(t), NEW k \in 1 .. Len(t), t[j] = t[k] PROVE j = k
    <3>1. j + 1 = k + 1
      BY <1>4, <2>1 DEF Distinct
    <3>2. QED
      BY <3>1
  <2>2. QED
    BY <2>1 DEF Distinct
<1>6. ASSUME NEW m PROVE In(t, m) <=> In(q, m) /\ m # q[1]
  <2>1. ASSUME In(t, m) PROVE In(q, m) /\ m # q[1]
    <3>1. PICK k \in 1 .. Len(t) : t[k] = m
      BY <2>1 DEF In
    <3>2. QED
      BY <1>2, <1>4, <3>1 DEF In, Distinct
  <2>2. ASSUME In(q, m), m # q[1] PROVE In(t, m)
    <3>1. PICK k \in 1 .. Len(q) : q[k] = m
      BY <2>2 DEF In
    <3>2. k - 1 \in 1 .. Len(t) /\ (k - 1) + 1 = k
      BY <1>2, <1>3, <2>2, <3>1
    <3>3. QED
      BY <1>4, <3>1, <3>2 DEF In
  <2>3. QED
    BY <2>1, <2>2
<1>7. q[1] \in S /\ In(q, q[1])
  BY <1>2 DEF In
<1>8. QED
  BY <1>1, <1>3, <1>4, <1>5, <1>6, <1>7

\* ... one is put in front, ...
Headed(t, x, q) ==
    /\ Len(t) = Len(q) + 1 /\ Distinct(t) /\ t[1] = x
    /\ \A k \in 2 .. Len(t) : t[k] = q[k - 1] /\ k - 1 \in 1 .. Len(q)
    /\ \A m : In(t, m) <=> In(q, m) \/ m = x

\* One is put in front.
LEMMA Push ==
  ASSUME NEW S, NEW q \in Seq(S), NEW x \in S, Distinct(q), ~In(q, x), NEW t, t = <<x>> \o q
  PROVE  t \in Seq(S) /\ Headed(t, x, q)
<1>1. Len(q) \in Nat /\ <<x>> \in Seq(S) /\ Len(<<x>>) = 1 /\ <<x>>[1] = x
  OBVIOUS
<1>2. /\ t \in Seq(S) /\ Len(t) = Len(q) + 1
      /\ t[1] = x
      /\ \A k \in 2 .. Len(t) : t[k] = q[k - 1] /\ k - 1 \in 1 .. Len(q)
  <2>1. /\ t \in Seq(S) /\ Len(t) = 1 + Len(q)
        /\ \A k \in 1 .. 1 + Len(q) : t[k] = IF k <= 1 THEN <<x>>[k] ELSE q[k - 1]
    BY <1>1, ConcatProperties
  <2>2. QED
    BY <1>1, <2>1
<1>3. Distinct(t)
  <2>1. ASSUME NEW j \in 1 .. Len(t), NEW k \in 1 .. Len(t), t[j] = t[k] PROVE j = k
    <3>1. CASE j = 1 /\ k # 1
      <4>1. k - 1 \in 1 .. Len(q) /\ q[k - 1] = x
        BY <1>1, <1>2, <2>1, <3>1
      <4>2. QED
        BY <4>1 DEF In
    <3>2. CASE j # 1 /\ k = 1
      <4>1. j - 1 \in 1 .. Len(q) /\ q[j - 1] = x
        BY <1>1, <1>2, <2>1, <3>2
      <4>2. QED
        BY <4>1 DEF In
    <3>3. CASE j # 1 /\ k # 1
      <4>1. j - 1 \in 1 .. Len(q) /\ k - 1 \in 1 .. Len(q) /\ q[j - 1] = q[k - 1]
        BY <1>1, <1>2, <2>1, <3>3
      <4>2. j - 1 = k - 1
        BY <4>1 DEF Distinct
      <4>3. QED
        BY <4>2
    <3>4. QED
      BY <3>1, <3>2, <3>3
  <2>2. QED
    BY <2>1 DEF Distinct
<1>4. ASSUME NEW m PROVE In(t, m) <=> In(q, m) \/ m = x
  <2>1. ASSUME In(t, m), m # x PROVE In(q, m)
    <3>1. PICK k \in 1 .. Len(t) : t[k] = m
      BY <2>1 DEF In
    <3>2. k \in 2 .. Len(t)
      BY <1>1, <1>2, <2>1, <3>1
    <3>3. QED
      BY <1>2, <3>1, <3>2 DEF In
  <2>2. ASSUME In(q, m) PROVE In(t, m)
    <3>1. PICK k \in 1 .. Len(q) : q[k] = m
      BY <2>2 DEF In
    <3>2. k + 1 \in 2 .. Len(t) /\ (k + 1) - 1 = k /\ k + 1 \in 1 .. Len(t)
      BY <1>1, <1>2
    <3>3. QED
      BY <1>2, <3>1, <3>2 DEF In
  <2>3. In(t, x)
    <3>1. 1 \in 1 .. Len(t)
      BY <1>1, <1>2
    <3>2. QED
      BY <1>2, <3>1 DEF In
  <2>4. QED
    BY <2>1, <2>2, <2>3
<1>5. QED
  BY <1>2, <1>3, <1>4 DEF Headed

\* ... or at the end.
Longer(t, q, x) ==
    /\ Len(t) = Len(q) + 1 /\ Distinct(t) /\ t[Len(q) + 1] = x
    /\ \A k \in 1 .. Len(q) : t[k] = q[k]
    /\ \A m : In(t, m) <=> In(q, m) \/ m = x

\* One is put behind.
LEMMA Put ==
  ASSUME NEW S, NEW q \in Seq(S), NEW x \in S, Distinct(q), ~In(q, x), NEW t, t = Append(q, x)
  PROVE  t \in Seq(S) /\ Longer(t, q, x)
<1>1. /\ t \in Seq(S) /\ Len(t) = Len(q) + 1 /\ t[Len(q) + 1] = x /\ Len(q) \in Nat
      /\ \A k \in 1 .. Len(q) : t[k] = q[k]
  BY AppendProperties
<1>2. \A k \in 1 .. Len(t) : k \in 1 .. Len(q) \/ k = Len(q) + 1
  BY <1>1
<1>3. ASSUME NEW j \in 1 .. Len(q) PROVE t[j] # x
  BY <1>1 DEF In
<1>4. Distinct(t)
  <2>1. ASSUME NEW j \in 1 .. Len(t), NEW k \in 1 .. Len(t), t[j] = t[k] PROVE j = k
    <3>1. CASE j \in 1 .. Len(q) /\ k \in 1 .. Len(q)
      BY <1>1, <2>1, <3>1 DEF Distinct
    <3>2. CASE j = Len(q) + 1 /\ k \in 1 .. Len(q)
      BY <1>1, <1>3, <2>1, <3>2
    <3>3. CASE k = Len(q) + 1 /\ j \in 1 .. Len(q)
      BY <1>1, <1>3, <2>1, <3>3
    <3>4. QED
      BY <1>2, <3>1, <3>2, <3>3
  <2>2. QED
    BY <2>1 DEF Distinct
<1>5. ASSUME NEW m PROVE In(t, m) <=> In(q, m) \/ m = x
  <2>1. ASSUME In(t, m), m # x PROVE In(q, m)
    <3>1. PICK k \in 1 .. Len(t) : t[k] = m
      BY <2>1 DEF In
    <3>2. k \in 1 .. Len(q)
      BY <1>1, <1>2, <2>1, <3>1
    <3>3. QED
      BY <1>1, <3>1, <3>2 DEF In
  <2>2. ASSUME In(q, m) PROVE In(t, m)
    <3>1. PICK k \in 1 .. Len(q) : q[k] = m
      BY <2>2 DEF In
    <3>2. k \in 1 .. Len(t)
      BY <1>1
    <3>3. QED
      BY <1>1, <3>1, <3>2 DEF In
  <2>3. In(t, x)
    <3>1. Len(q) + 1 \in 1 .. Len(t)
      BY <1>1
    <3>2. QED
      BY <1>1, <3>1 DEF In
  <2>4. QED
    BY <2>1, <2>2, <2>3
<1>6. QED
  BY <1>1, <1>4, <1>5 DEF Longer

\* Links that agree on the list lead along it too.
LEMMA PathStays ==
  ASSUME NEW q, NEW n, NEW f, NEW g, Path(f, n, q), \A m : In(q, m) => g[m] = f[m]
  PROVE  Path(g, n, q)
<1>1. \A k \in 1 .. Len(q) : g[q[k]] = f[q[k]]
  BY DEF In
<1>2. QED
  BY <1>1 DEF Path

\* Without its first message the links lead along the rest, ...
LEMMA PathShifts ==
  ASSUME NEW S, NEW q \in Seq(S), Len(q) # 0, Distinct(q), NEW f, NEW n, Path(f, n, q)
  PROVE  n = q[1] /\ Path(f, f[n], Tail(q)) /\ Final(Tail(q)) = (IF Len(q) = 1 THEN MQ!NULL ELSE Final(q))
<1>1. PICK t : t = Tail(q)
  OBVIOUS
<1>2. /\ Len(t) = Len(q) - 1 /\ Len(q) \in Nat \ {0} /\ 1 \in 1 .. Len(q)
      /\ \A k \in 1 .. Len(t) : t[k] = q[k + 1] /\ k + 1 \in 1 .. Len(q)
  BY <1>1, Shift
<1>3. /\ n = q[1]
      /\ \A k \in 1 .. Len(q) : f[q[k]] = IF k = Len(q) THEN MQ!NULL ELSE q[k + 1]
  BY DEF Path, First
<1>4. f[n] = First(t)
  <2>1. CASE Len(q) = 1
    BY <1>2, <1>3, <2>1 DEF First
  <2>2. CASE Len(q) # 1
    <3>1. Len(t) # 0 /\ 1 \in 1 .. Len(t)
      BY <1>2, <2>2
    <3>2. t[1] = q[1 + 1] /\ f[n] = q[1 + 1]
      BY <1>2, <1>3, <2>2, <3>1
    <3>3. QED
      BY <3>1, <3>2 DEF First
  <2>3. QED
    BY <2>1, <2>2
<1>5. ASSUME NEW k \in 1 .. Len(t) PROVE f[t[k]] = IF k = Len(t) THEN MQ!NULL ELSE t[k + 1]
  <2>1. t[k] = q[k + 1] /\ k + 1 \in 1 .. Len(q) /\ (k = Len(t) <=> k + 1 = Len(q))
    BY <1>2
  <2>2. k # Len(t) => t[k + 1] = q[(k + 1) + 1]
    <3>1. k # Len(t) => k + 1 \in 1 .. Len(t)
      BY <1>2
    <3>2. QED
      BY <1>2, <3>1
  <2>3. QED
    BY <1>3, <2>1, <2>2
<1>6. Final(t) = IF Len(q) = 1 THEN MQ!NULL ELSE Final(q)
  <2>1. CASE Len(q) = 1
    BY <1>2, <2>1 DEF Final
  <2>2. CASE Len(q) # 1
    <3>1. Len(t) \in 1 .. Len(t) /\ Len(t) + 1 = Len(q) /\ Len(t) # 0 /\ Len(q) # 0
      BY <1>2, <2>2
    <3>2. t[Len(t)] = q[Len(q)]
      BY <1>2, <3>1
    <3>3. QED
      BY <2>2, <3>1, <3>2 DEF Final
  <2>3. QED
    BY <2>1, <2>2
<1>7. QED
  BY <1>1, <1>3, <1>4, <1>5, <1>6 DEF Path

\* The links of the messages of q are the same.
Agree(f, g, q) == \A m : In(q, m) => g[m] = f[m]

\* ... with one that links to it in front they lead along both, ...
LEMMA PathPushed ==
  ASSUME NEW S, NEW q \in Seq(S), NEW x \in S, Distinct(q), ~In(q, x),
         NEW f, NEW g, NEW n, Path(f, n, q), g[x] = n, Agree(f, g, q),
         NEW t, t = <<x>> \o q
  PROVE  Path(g, x, t)
<1>1. /\ Len(t) = Len(q) + 1 /\ Len(q) \in Nat /\ t[1] = x
      /\ \A k \in 2 .. Len(t) : t[k] = q[k - 1] /\ k - 1 \in 1 .. Len(q)
  BY Push DEF Headed
<1>2. x = First(t)
  BY <1>1 DEF First
<1>3. n = First(q) /\ \A k \in 1 .. Len(q) : g[q[k]] = IF k = Len(q) THEN MQ!NULL ELSE q[k + 1]
  BY DEF Path, In, Agree
<1>4. ASSUME NEW k \in 1 .. Len(t) PROVE g[t[k]] = IF k = Len(t) THEN MQ!NULL ELSE t[k + 1]
  <2>1. k # Len(t) => k + 1 \in 2 .. Len(t) /\ (k + 1) - 1 = k
    BY <1>1
  <2>2. k # Len(t) => t[k + 1] = q[k]
    BY <1>1, <2>1
  <2>3. CASE k = 1
    <3>1. g[t[k]] = First(q) /\ (k = Len(t) <=> Len(q) = 0)
      BY <1>1, <1>3, <2>3
    <3>2. QED
      BY <2>2, <2>3, <3>1 DEF First
  <2>4. CASE k # 1
    <3>1. k - 1 \in 1 .. Len(q) /\ t[k] = q[k - 1] /\ (k = Len(t) <=> k - 1 = Len(q)) /\ (k - 1) + 1 = k
      BY <1>1, <2>4
    <3>2. g[q[k - 1]] = IF k - 1 = Len(q) THEN MQ!NULL ELSE q[(k - 1) + 1]
      BY <1>3, <3>1
    <3>3. QED
      BY <2>2, <3>1, <3>2
  <2>5. QED
    BY <2>3, <2>4
<1>5. QED
  BY <1>2, <1>4 DEF Path

LedOn(f, g, q, x) ==
    /\ g[x] = MQ!NULL /\ (Len(q) # 0 => g[Final(q)] = x)
    /\ \A m : In(q, m) /\ m # Final(q) => g[m] = f[m]

\* ... and so with one behind that the last links to.
LEMMA PathPut ==
  ASSUME NEW S, NEW q \in Seq(S), NEW x \in S, Distinct(q), ~In(q, x),
         NEW f, NEW g, NEW n, Path(f, n, q), LedOn(f, g, q, x), NEW t, t = Append(q, x)
  PROVE  Path(g, IF Len(q) = 0 THEN x ELSE n, t) /\ Final(t) = x
<1>1. /\ Len(t) = Len(q) + 1 /\ Len(q) \in Nat /\ t[Len(q) + 1] = x
      /\ \A k \in 1 .. Len(q) : t[k] = q[k]
  BY Put DEF Longer
<1>2. First(t) = IF Len(q) = 0 THEN x ELSE n
  <2>1. CASE Len(q) = 0
    BY <1>1, <2>1 DEF First
  <2>2. CASE Len(q) # 0
    <3>1. 1 \in 1 .. Len(q) /\ n = q[1]
      BY <1>1, <2>2 DEF Path, First
    <3>2. QED
      BY <1>1, <2>2, <3>1 DEF First
  <2>3. QED
    BY <2>1, <2>2
<1>3. Final(t) = x
  BY <1>1 DEF Final
<1>4. ASSUME NEW k \in 1 .. Len(t) PROVE g[t[k]] = IF k = Len(t) THEN MQ!NULL ELSE t[k + 1]
  <2>1. CASE k = Len(t)
    BY <1>1, <2>1 DEF LedOn
  <2>2. CASE k = Len(q) /\ k # Len(t)
    <3>1. k \in 1 .. Len(q) /\ t[k] = q[k] /\ Len(q) # 0
      BY <1>1, <2>2
    <3>2. g[q[k]] = x
      BY <2>2, <3>1 DEF Final, LedOn
    <3>3. QED
      BY <1>1, <2>2, <3>1, <3>2
  <2>3. CASE k # Len(q) /\ k # Len(t)
    <3>1. k \in 1 .. Len(q) /\ k + 1 \in 1 .. Len(q) /\ Len(q) \in 1 .. Len(q) /\ Len(q) # 0
      BY <1>1, <2>3
    <3>2. q[k] # Final(q) /\ In(q, q[k])
      BY <2>3, <3>1 DEF Final, Distinct, In
    <3>3. g[q[k]] = q[k + 1]
      BY <2>3, <3>1, <3>2 DEF Path, LedOn
    <3>4. QED
      BY <1>1, <2>3, <3>1, <3>3
  <2>4. QED
    BY <2>1, <2>2, <2>3
<1>5. QED
  BY <1>2, <1>3, <1>4 DEF Path

--------------------------------------------------------------------------------
(* The invariant.                                                          *)

\* q is queued and f is free.
Links(q, f) ==
    /\ q \in Seq(MQ!Msgs) /\ f \in Seq(MQ!Msgs) /\ Distinct(q) /\ Distinct(f)
    /\ Path(next, msg_queue_head, q) /\ Path(next, msg_queue_free, f)
    /\ msg_queue_tail = Final(q) /\ entry = Len(q)

\* A message is in one place.
Places(q, f) ==
    /\ \A m \in MQ!Msgs : In(q, m) => ~In(f, m)
    /\ \A c \in MQ!Held : ~In(q, msg[c]) /\ ~In(f, msg[c])
    /\ \A c, d \in MQ!Held : msg[c] = msg[d] => c = d
    /\ \A m \in MQ!Msgs : In(q, m) \/ In(f, m) \/ \E c \in MQ!Held : msg[c] = m
    /\ Len(q) + Len(f) + Cardinality(MQ!Held) = MQ!max_msgs

\* The body of a message begins with the data.
Begins(b, d) == d \in Seq(Data) /\ Len(d) <= MQ!msg_size /\ \A i \in 1 .. Len(d) : b[i] = d[i]

\* What is queued has been sent.
Sent(q) ==
    /\ order \in Seq(Seq(Data)) /\ Len(order) = Len(q)
    /\ \A k \in 1 .. Len(q) : Begins(body[q[k]], order[k])

\* What the contexts have in their hands.
Hand(c) ==
    /\ q_pc[c] = "idle" <=> msg[c] = MQ!NULL
    /\ c = MQ!Receiver =>
         /\ q_pc[c] # "link"
         /\ q_pc[c] = "copy" => Begins(body[msg[c]], q_due)
         /\ q_pc[c] = "release" =>
              \A k \in 1 .. Len(q_due) : k \in DOMAIN buffer[c] => buffer[c][k] = q_due[k]
    /\ c # MQ!Receiver =>
         /\ q_pc[c] # "release"
         /\ q_pc[c] = "copy" => buffer[c] \in Seq(Data) /\ Len(buffer[c]) <= MQ!msg_size
         /\ q_pc[c] = "link" => next[msg[c]] = MQ!NULL /\ Begins(body[msg[c]], buffer[c])

\* Each message is free, queued or in the hands of one context.
MailInv ==
    /\ MQ!TypeOK /\ buffer \in [MQ!Contexts -> Seq(Data \cup {MQ!Blank})] /\ q_due \in Seq(Data)
    /\ \A c \in MQ!Contexts : Hand(c)
    /\ \E q, f \in Seq(MQ!Msgs) : Links(q, f) /\ Places(q, f) /\ Sent(q)

\* The contexts are finitely many, and NULL is no message.
LEMMA Contexts0 ==
  ASSUME MQ!MessageQueueAssumption
  PROVE  IsFiniteSet(MQ!Contexts) /\ MQ!Receiver \in MQ!Contexts /\ MQ!NULL \notin MQ!Msgs
<1>1. MQ!Receiver \in MQ!Contexts /\ MQ!NULL \notin MQ!Msgs
  BY DEF MQ!MessageQueueAssumption, MQ!Contexts, MQ!Receiver, MQ!Msgs, MQ!NULL
<1>2. IsFiniteSet(MQ!Contexts)
  BY FS_Interval DEF MQ!MessageQueueAssumption, MQ!Contexts, MQ!Receiver
<1>3. QED
  BY <1>1, <1>2

\* A context that gets a message into its hands is one more that has one, ...
LEMMA HeldMore ==
  ASSUME MQ!MessageQueueAssumption, MQ!TypeOK, NEW c \in MQ!Contexts, msg[c] = MQ!NULL,
         NEW m \in MQ!Msgs, msg' = [msg EXCEPT ![c] = m]
  PROVE  MQ!Held' = MQ!Held \cup {c} /\ Cardinality(MQ!Held') = Cardinality(MQ!Held) + 1 /\ Cardinality(MQ!Held) \in Nat
<1>1. DOMAIN msg = MQ!Contexts /\ m # MQ!NULL
  BY Contexts0 DEF MQ!TypeOK
<1>2. MQ!Held' = MQ!Held \cup {c} /\ c \notin MQ!Held /\ MQ!Held \subseteq MQ!Contexts
  BY <1>1 DEF MQ!Held
<1>3. IsFiniteSet(MQ!Held)
  BY <1>2, Contexts0, FS_Subset
<1>4. QED
  BY <1>2, <1>3, FS_AddElement, FS_CardinalityType

\* ... and one that gives it away is one less.
LEMMA HeldLess ==
  ASSUME MQ!MessageQueueAssumption, MQ!TypeOK, NEW c \in MQ!Contexts, msg[c] # MQ!NULL,
         msg' = [msg EXCEPT ![c] = MQ!NULL]
  PROVE  MQ!Held' = MQ!Held \ {c} /\ Cardinality(MQ!Held') = Cardinality(MQ!Held) - 1 /\ Cardinality(MQ!Held) \in Nat
<1>1. DOMAIN msg = MQ!Contexts
  BY DEF MQ!TypeOK
<1>2. MQ!Held' = MQ!Held \ {c} /\ c \in MQ!Held /\ MQ!Held \subseteq MQ!Contexts
  BY <1>1 DEF MQ!Held
<1>3. IsFiniteSet(MQ!Held)
  BY <1>2, Contexts0, FS_Subset
<1>4. QED
  BY <1>2, <1>3, FS_RemoveElement, FS_CardinalityType

\* What the proof of a step starts from.
LEMMA Facts ==
  ASSUME MQ!MessageQueueAssumption, MailInv
  PROVE  /\ next \in [MQ!Msgs -> MQ!Msgs \cup {MQ!NULL}] /\ msg \in [MQ!Contexts -> MQ!Msgs \cup {MQ!NULL}]
         /\ q_pc \in [MQ!Contexts -> {"idle", "copy", "link", "release"}]
         /\ body \in [MQ!Msgs -> [1 .. MQ!msg_size -> Data \cup {MQ!Blank}]]
         /\ buffer \in [MQ!Contexts -> Seq(Data \cup {MQ!Blank})] /\ q_due \in Seq(Data)
         /\ MQ!msg_size \in Nat \ {0} /\ MQ!max_msgs \in Nat /\ MQ!Receiver \in MQ!Contexts /\ MQ!NULL \notin MQ!Msgs
         /\ MQ!TypeOK
BY Sizes, Contexts0 DEF MailInv, MQ!TypeOK

\* At first all the messages are free, in the order they lie in the pool.
LEMMA MailInit == ASSUME MQ!MessageQueueAssumption, MQ!Init PROVE MailInv
<1>1. MQ!msg_size \in Nat \ {0} /\ MQ!max_msgs \in Nat /\ MQ!Receiver \in MQ!Contexts /\ MQ!NULL \notin MQ!Msgs
  BY Sizes, Contexts0
<1>2. PICK f : f = [k \in 1 .. MQ!max_msgs |-> MQ!max_msgs + 1 - k]
  OBVIOUS
<1>3. \A k \in 1 .. MQ!max_msgs : f[k] = MQ!max_msgs + 1 - k /\ f[k] \in MQ!Msgs
  BY <1>1, <1>2 DEF MQ!Msgs
<1>4. f \in Seq(MQ!Msgs) /\ Len(f) = MQ!max_msgs
  <2>1. f \in [1 .. MQ!max_msgs -> MQ!Msgs]
    BY <1>2, <1>3
  <2>2. ASSUME NEW S, NEW n \in Nat, NEW g \in [1 .. n -> S] PROVE g \in Seq(S) /\ Len(g) = n
    OBVIOUS
  <2>3. QED
    BY <1>1, <2>1, <2>2
<1>5. next = [m \in MQ!Msgs |-> m - 1] /\ msg_queue_free = MQ!max_msgs /\ msg_queue_head = MQ!NULL
      /\ msg_queue_tail = MQ!NULL /\ entry = 0
  BY DEF MQ!Init
<1>6. Distinct(f)
  BY <1>1, <1>3, <1>4 DEF Distinct
<1>7. Path(next, msg_queue_free, f)
  <2>1. msg_queue_free = First(f)
    BY <1>1, <1>3, <1>4, <1>5 DEF First, MQ!NULL
  <2>2. ASSUME NEW k \in 1 .. Len(f)
        PROVE  next[f[k]] = IF k = Len(f) THEN MQ!NULL ELSE f[k + 1]
    <3>1. next[f[k]] = MQ!max_msgs + 1 - k - 1
      BY <1>3, <1>4, <1>5
    <3>2. k # Len(f) => f[k + 1] = MQ!max_msgs + 1 - (k + 1)
      BY <1>1, <1>3, <1>4
    <3>3. QED
      BY <1>1, <1>4, <3>1, <3>2 DEF MQ!NULL
  <2>3. QED
    BY <2>1, <2>2 DEF Path
<1>8. /\ <<>> \in Seq(MQ!Msgs) /\ Len(<<>>) = 0 /\ Distinct(<<>>) /\ Path(next, MQ!NULL, <<>>)
      /\ Final(<<>>) = MQ!NULL /\ \A m : ~In(<<>>, m)
  BY DEF Distinct, Path, First, Final, In
<1>9. Links(<<>>, f)
  BY <1>4, <1>5, <1>6, <1>7, <1>8 DEF Links
<1>10. MQ!Held = {} /\ Cardinality(MQ!Held) = 0
  <2>1. MQ!Held = {}
    BY DEF MQ!Init, MQ!Held
  <2>2. QED
    BY <2>1, FS_EmptySet
<1>11. Places(<<>>, f)
  <2>1. ASSUME NEW m \in MQ!Msgs PROVE In(f, m)
    <3>1. MQ!max_msgs + 1 - m \in 1 .. Len(f) /\ MQ!max_msgs + 1 - (MQ!max_msgs + 1 - m) = m
      BY <1>1, <1>4 DEF MQ!Msgs
    <3>2. QED
      BY <1>3, <1>4, <3>1 DEF In
  <2>2. 0 + Len(f) + 0 = MQ!max_msgs
    BY <1>1, <1>4
  <2>3. QED
    BY <1>8, <1>10, <2>1, <2>2 DEF Places
<1>12. Sent(<<>>)
  <2>1. order = <<>>
    BY DEF MQ!Init
  <2>2. QED
    BY <1>8, <2>1 DEF Sent
<1>13. \A c \in MQ!Contexts : Hand(c)
  BY DEF MQ!Init, Hand
<1>14. MQ!TypeOK
  <2>1. 0 \in 0 .. MQ!max_msgs /\ (MQ!max_msgs \in MQ!Msgs \/ MQ!max_msgs = MQ!NULL)
    BY <1>1 DEF MQ!Msgs, MQ!NULL
  <2>2. \A m \in MQ!Msgs : m - 1 \in MQ!Msgs \cup {MQ!NULL}
    BY <1>1 DEF MQ!Msgs, MQ!NULL
  <2>3. next \in [MQ!Msgs -> MQ!Msgs \cup {MQ!NULL}]
    BY <1>5, <2>2
  <2>4. QED
    BY <1>5, <2>1, <2>3 DEF MQ!Init, MQ!TypeOK
<1>15. buffer \in [MQ!Contexts -> Seq(Data \cup {MQ!Blank})] /\ q_due \in Seq(Data)
  BY DEF MQ!Init
<1>16. QED
  BY <1>4, <1>8, <1>9, <1>11, <1>12, <1>13, <1>14, <1>15 DEF MailInv

\* A step that leaves the lists and what they hold as they are.
LEMMA SameLists ==
  ASSUME NEW q, NEW f, Links(q, f), Places(q, f), Sent(q),
         UNCHANGED <<MQ!lists, msg, next, body, order>>
  PROVE  Links(q, f)' /\ Places(q, f)' /\ Sent(q)'
<1>1. Links(q, f)'
  BY DEF Links, Path, MQ!lists
<1>2. MQ!Held' = MQ!Held
  BY DEF MQ!Held
<1>3. Places(q, f)'
  BY <1>2 DEF Places
<1>4. Sent(q)'
  BY DEF Sent
<1>5. QED
  BY <1>1, <1>3, <1>4

\* What one that does nothing has in its hands stays.
LEMMA HandStays ==
  ASSUME NEW c \in MQ!Contexts, Hand(c),
         q_pc'[c] = q_pc[c], msg'[c] = msg[c], buffer'[c] = buffer[c], q_due' = q_due,
         msg[c] # MQ!NULL => body'[msg[c]] = body[msg[c]],
         msg[c] # MQ!NULL /\ c # MQ!Receiver => next'[msg[c]] = next[msg[c]]
  PROVE  Hand(c)'
<1>1. q_pc[c] \in {"copy", "link"} => msg[c] # MQ!NULL
  BY DEF Hand
<1>2. QED
  BY <1>1 DEF Hand

\* A call that fails keeps the invariant, ...
LEMMA NothingStep ==
  ASSUME MQ!MessageQueueAssumption, MailInv, NEW c \in MQ!Contexts, q_pc[c] = "idle",
         NEW r \in {"EOK", "ERROR", "EFULL", "ETIMEOUT"}, MQ!Returns(c, r),
         UNCHANGED <<MQ!lists, next, body, msg, buffer, order, q_due>>
  PROVE  MailInv'
<1>1. q_pc' = q_pc /\ rt' = r
  BY Facts DEF MQ!Returns
<1>2. PICK q \in Seq(MQ!Msgs), f \in Seq(MQ!Msgs) : Links(q, f) /\ Places(q, f) /\ Sent(q)
  BY DEF MailInv
<1>3. Links(q, f)' /\ Places(q, f)' /\ Sent(q)'
  BY <1>2, SameLists
<1>4. \A d \in MQ!Contexts : Hand(d)'
  BY <1>1, HandStays DEF MailInv
<1>5. MQ!TypeOK'
  BY <1>1, Facts DEF MQ!TypeOK, MQ!lists
<1>6. QED
  BY <1>3, <1>4, <1>5, Facts DEF MailInv

\* ... so does taking a free message to send, ...
LEMMA SendBeginStep ==
  ASSUME MQ!MessageQueueAssumption, MailInv, NEW c \in MQ!Contexts, NEW d \in Data, NEW size \in Lengths,
         MQ!SendBegin(c, d, size)
  PROVE  MailInv'
<1>1. /\ c # MQ!Receiver /\ q_pc[c] = "idle" /\ size <= MQ!msg_size /\ msg_queue_free # MQ!NULL
      /\ msg' = [msg EXCEPT ![c] = msg_queue_free] /\ msg_queue_free' = next[msg_queue_free]
      /\ buffer' = [buffer EXCEPT ![c] = [k \in 1 .. size |-> d]]
      /\ q_pc' = [q_pc EXCEPT ![c] = "copy"] /\ UNCHANGED rt
      /\ UNCHANGED <<msg_queue_head, msg_queue_tail, entry, next, body, order, q_due>>
  BY DEF MQ!SendBegin, MQ!Goes
<1>2. PICK q \in Seq(MQ!Msgs), f \in Seq(MQ!Msgs) : Links(q, f) /\ Places(q, f) /\ Sent(q)
  BY DEF MailInv
<1>3. Hand(c) /\ msg[c] = MQ!NULL
  BY <1>1 DEF MailInv, Hand
<1>4. PICK m : m = msg_queue_free
  OBVIOUS
<1>5. Len(f) # 0 /\ m = f[1] /\ m \in MQ!Msgs /\ In(f, m)
  <2>1. Len(f) # 0
    BY <1>1, <1>2 DEF Links, Path, First
  <2>2. QED
    BY <1>2, <1>4, <2>1, Shift DEF Links, Path, First
<1>6. PICK g : g = Tail(f)
  OBVIOUS
<1>7. /\ g \in Seq(MQ!Msgs) /\ Len(g) = Len(f) - 1 /\ Distinct(g)
      /\ \A x : In(g, x) <=> In(f, x) /\ x # m
  BY <1>2, <1>5, <1>6, Shift DEF Links
<1>8. Path(next, next[m], g)
  BY <1>2, <1>4, <1>5, <1>6, PathShifts DEF Links
<1>9. Links(q, g)'
  <2>1. Path(next, msg_queue_head, q)' /\ Path(next, msg_queue_free, g)'
    BY <1>1, <1>2, <1>4, <1>8 DEF Links, Path
  <2>2. QED
    BY <1>1, <1>2, <1>7, <2>1 DEF Links
<1>10. MQ!Held' = MQ!Held \cup {c} /\ Cardinality(MQ!Held') = Cardinality(MQ!Held) + 1 /\ Cardinality(MQ!Held) \in Nat
  BY <1>1, <1>3, <1>4, <1>5, HeldMore, Facts
<1>11. msg'[c] = m /\ \A e \in MQ!Held : msg'[e] = msg[e] /\ e # c
  BY <1>1, <1>3, <1>4, Facts DEF MQ!Held
<1>12. c \notin MQ!Held /\ \A e \in MQ!Held : msg[e] # m
  BY <1>2, <1>3, <1>5 DEF Places, MQ!Held
<1>13. Places(q, g)'
  <2>1. \A x \in MQ!Msgs : In(q, x) => ~In(g, x)
    BY <1>2, <1>7 DEF Places
  <2>2. ~In(q, m) /\ ~In(g, m)
    BY <1>2, <1>5, <1>7 DEF Places
  <2>3. \A e \in MQ!Held' : ~In(q, msg'[e]) /\ ~In(g, msg'[e])
    BY <1>2, <1>7, <1>10, <1>11, <2>2 DEF Places
  <2>4. ASSUME NEW a \in MQ!Held', NEW b \in MQ!Held', msg'[a] = msg'[b] PROVE a = b
    BY <1>2, <1>10, <1>11, <1>12, <2>4 DEF Places
  <2>5. ASSUME NEW x \in MQ!Msgs PROVE In(q, x) \/ In(g, x) \/ \E e \in MQ!Held' : msg'[e] = x
    BY <1>2, <1>7, <1>10, <1>11 DEF Places
  <2>6. Len(q) + Len(g) + Cardinality(MQ!Held') = MQ!max_msgs
    <3>1. Len(q) + Len(f) + Cardinality(MQ!Held) = MQ!max_msgs
      BY <1>2 DEF Places
    <3>2. Len(q) \in Nat /\ Len(f) \in Nat
      OBVIOUS
    <3>3. QED
      BY <1>7, <1>10, <3>1, <3>2
  <2>7. QED
    BY <2>1, <2>3, <2>4, <2>5, <2>6 DEF Places
<1>14. Sent(q)'
  BY <1>1, <1>2 DEF Sent
<1>15. [k \in 1 .. size |-> d] \in Seq(Data) /\ Len([k \in 1 .. size |-> d]) = size
  <2>1. size \in Nat
    BY DEF MQ!MessageQueueAssumption
  <2>2. QED
    BY <2>1
<1>16. Hand(c)'
  <2>1. q_pc'[c] = "copy" /\ buffer'[c] = [k \in 1 .. size |-> d]
    BY <1>1, Facts
  <2>2. msg'[c] # MQ!NULL
    BY <1>5, <1>11, Facts
  <2>3. QED
    BY <1>1, <1>15, <2>1, <2>2 DEF Hand
<1>17. ASSUME NEW e \in MQ!Contexts PROVE Hand(e)'
  <2>1. CASE e = c
    BY <1>16, <2>1
  <2>2. CASE e # c
    <3>1. q_pc'[e] = q_pc[e] /\ msg'[e] = msg[e] /\ buffer'[e] = buffer[e]
      BY <1>1, <2>2, Facts
    <3>2. Hand(e)
      BY DEF MailInv
    <3>3. QED
      BY <1>1, <3>1, <3>2, HandStays
  <2>3. QED
    BY <2>1, <2>2
<1>18. MQ!TypeOK'
  <2>1. msg_queue_free' \in MQ!Msgs \cup {MQ!NULL} /\ msg' \in [MQ!Contexts -> MQ!Msgs \cup {MQ!NULL}]
    BY <1>1, <1>4, <1>5, Facts
  <2>2. q_pc' \in [MQ!Contexts -> {"idle", "copy", "link", "release"}]
    BY <1>1, Facts
  <2>3. QED
    BY <1>1, <2>1, <2>2, Facts DEF MQ!TypeOK
<1>19. buffer' \in [MQ!Contexts -> Seq(Data \cup {MQ!Blank})] /\ q_due' \in Seq(Data)
  BY <1>1, <1>15, Facts
<1>20. QED
  BY <1>2, <1>7, <1>9, <1>13, <1>14, <1>17, <1>18, <1>19 DEF MailInv

\* ... filling it, ...
LEMMA SendCopyStep ==
  ASSUME MQ!MessageQueueAssumption, MailInv, NEW c \in MQ!Contexts, MQ!SendCopy(c)
  PROVE  MailInv'
<1>1. /\ c # MQ!Receiver /\ q_pc[c] = "copy"
      /\ next' = [next EXCEPT ![msg[c]] = MQ!NULL]
      /\ q_pc' = [q_pc EXCEPT ![c] = "link"] /\ UNCHANGED rt
      /\ UNCHANGED <<MQ!lists, msg, buffer, order, q_due>>
  BY DEF MQ!SendCopy, MQ!Goes
<1>2. body' = [body EXCEPT ![msg[c]] =
                  [k \in 1 .. MQ!msg_size |-> IF k \in DOMAIN buffer[c] THEN buffer[c][k] ELSE body[msg[c]][k]]]
  BY DEF MQ!SendCopy
<1>3. PICK q \in Seq(MQ!Msgs), f \in Seq(MQ!Msgs) : Links(q, f) /\ Places(q, f) /\ Sent(q)
  BY DEF MailInv
<1>4. Hand(c) /\ msg[c] # MQ!NULL /\ buffer[c] \in Seq(Data) /\ Len(buffer[c]) <= MQ!msg_size
  BY <1>1 DEF MailInv, Hand
<1>5. PICK m : m = msg[c]
  OBVIOUS
<1>6. m \in MQ!Msgs /\ c \in MQ!Held
  BY <1>4, <1>5, Facts DEF MQ!Held
<1>7. ~In(q, m) /\ ~In(f, m) /\ \A e \in MQ!Held : e # c => msg[e] # m
  BY <1>3, <1>5, <1>6 DEF Places
<1>8. /\ next'[m] = MQ!NULL /\ \A x \in MQ!Msgs : x # m => next'[x] = next[x] /\ body'[x] = body[x]
      /\ body'[m] = [k \in 1 .. MQ!msg_size |-> IF k \in DOMAIN buffer[c] THEN buffer[c][k] ELSE body[m][k]]
  BY <1>1, <1>2, <1>5, <1>6, Facts
<1>9. ASSUME NEW s \in Seq(MQ!Msgs), ~In(s, m), NEW x, In(s, x) PROVE x \in MQ!Msgs /\ x # m
  BY <1>9 DEF In
<1>10. Links(q, f)'
  <2>1. (\A x : In(q, x) => next'[x] = next[x]) /\ (\A x : In(f, x) => next'[x] = next[x])
    BY <1>7, <1>8, <1>9
  <2>2. Path(next', msg_queue_head, q) /\ Path(next', msg_queue_free, f)
    BY <1>3, <2>1, PathStays DEF Links
  <2>3. Path(next, msg_queue_head, q)' /\ Path(next, msg_queue_free, f)'
    BY <1>1, <2>2 DEF Path, MQ!lists
  <2>4. QED
    BY <1>1, <1>3, <2>3 DEF Links, MQ!lists
<1>11. Places(q, f)'
  <2>1. MQ!Held' = MQ!Held
    BY <1>1 DEF MQ!Held
  <2>2. QED
    BY <1>1, <1>3, <2>1 DEF Places
<1>12. Sent(q)'
  <2>1. ASSUME NEW k \in 1 .. Len(q) PROVE body'[q[k]] = body[q[k]]
    <3>1. In(q, q[k])
      BY DEF In
    <3>2. QED
      BY <1>7, <1>8, <1>9, <3>1
  <2>2. QED
    BY <1>1, <1>3, <2>1 DEF Sent
<1>13. Begins(body'[m], buffer[c])
  <2>1. DOMAIN buffer[c] = 1 .. Len(buffer[c]) /\ Len(buffer[c]) \in Nat
    BY <1>4
  <2>2. ASSUME NEW i \in 1 .. Len(buffer[c]) PROVE body'[m][i] = buffer[c][i]
    <3>1. i \in 1 .. MQ!msg_size
      BY <1>4, <2>1, Facts
    <3>2. QED
      BY <1>8, <2>1, <3>1
  <2>3. QED
    BY <1>4, <2>2 DEF Begins
<1>14. Hand(c)'
  <2>1. q_pc'[c] = "link" /\ msg'[c] = m /\ buffer'[c] = buffer[c]
    BY <1>1, <1>5, Facts
  <2>2. QED
    BY <1>1, <1>4, <1>5, <1>8, <1>13, <2>1 DEF Hand
<1>15. ASSUME NEW e \in MQ!Contexts PROVE Hand(e)'
  <2>1. CASE e = c
    BY <1>14, <2>1
  <2>2. CASE e # c
    <3>1. q_pc'[e] = q_pc[e] /\ msg'[e] = msg[e] /\ buffer'[e] = buffer[e]
      BY <1>1, <2>2, Facts
    <3>2. Hand(e)
      BY DEF MailInv
    <3>3. msg[e] # MQ!NULL => msg[e] \in MQ!Msgs /\ msg[e] # m
      BY <1>7, <2>2, Facts DEF MQ!Held
    <3>4. QED
      BY <1>1, <1>8, <3>1, <3>2, <3>3, HandStays
  <2>3. QED
    BY <2>1, <2>2
<1>16. body' \in [MQ!Msgs -> [1 .. MQ!msg_size -> Data \cup {MQ!Blank}]]
  <2>1. body'[m] \in [1 .. MQ!msg_size -> Data \cup {MQ!Blank}]
    <3>1. ASSUME NEW k \in 1 .. MQ!msg_size
          PROVE  (IF k \in DOMAIN buffer[c] THEN buffer[c][k] ELSE body[m][k]) \in Data \cup {MQ!Blank}
      <4>1. k \in DOMAIN buffer[c] => buffer[c][k] \in Data
        BY <1>4
      <4>2. body[m][k] \in Data \cup {MQ!Blank}
        BY <1>6, Facts
      <4>3. QED
        BY <4>1, <4>2
    <3>2. QED
      BY <1>8, <3>1
  <2>2. DOMAIN body' = MQ!Msgs /\ \A x \in MQ!Msgs : body'[x] \in [1 .. MQ!msg_size -> Data \cup {MQ!Blank}]
    BY <1>2, <1>8, <2>1, Facts
  <2>3. body' = [x \in MQ!Msgs |-> body'[x]]
    BY <1>2, Facts
  <2>4. QED
    BY <2>2, <2>3
<1>17. MQ!TypeOK'
  <2>1. next' \in [MQ!Msgs -> MQ!Msgs \cup {MQ!NULL}]
    BY <1>1, Facts
  <2>2. q_pc' \in [MQ!Contexts -> {"idle", "copy", "link", "release"}]
    BY <1>1, Facts
  <2>3. QED
    BY <1>1, <1>16, <2>1, <2>2, Facts DEF MQ!TypeOK, MQ!lists
<1>18. QED
  BY <1>1, <1>3, <1>10, <1>11, <1>12, <1>15, <1>17, Facts DEF MailInv

\* ... and putting it into the queue, ...
LEMMA SendLinkStep ==
  ASSUME MQ!MessageQueueAssumption, MailInv, NEW c \in MQ!Contexts, MQ!SendLink(c)
  PROVE  MailInv'
<1>1. /\ c # MQ!Receiver /\ q_pc[c] = "link"
      /\ msg' = [msg EXCEPT ![c] = MQ!NULL]
      /\ order' = Append(order, buffer[c]) /\ buffer' = [buffer EXCEPT ![c] = <<>>]
      /\ q_pc' = [q_pc EXCEPT ![c] = "idle"] /\ rt' = "EOK"
      /\ UNCHANGED <<msg_queue_free, body, q_due>>
  BY DEF MQ!SendLink, MQ!Returns
<1>2. PICK m : m = msg[c]
  OBVIOUS
<1>3. /\ next' = IF msg_queue_tail = MQ!NULL THEN next ELSE [next EXCEPT ![msg_queue_tail] = m]
      /\ msg_queue_tail' = m
      /\ msg_queue_head' = IF msg_queue_head = MQ!NULL THEN m ELSE msg_queue_head
      /\ entry' = entry + 1
  BY <1>2 DEF MQ!SendLink, MQ!Link
<1>4. PICK q \in Seq(MQ!Msgs), f \in Seq(MQ!Msgs) : Links(q, f) /\ Places(q, f) /\ Sent(q)
  BY DEF MailInv
<1>5. m # MQ!NULL /\ next[m] = MQ!NULL /\ Begins(body[m], buffer[c])
  BY <1>1, <1>2 DEF MailInv, Hand
<1>6. m \in MQ!Msgs /\ c \in MQ!Held
  BY <1>2, <1>5, Facts DEF MQ!Held
<1>7. ~In(q, m) /\ ~In(f, m) /\ \A e \in MQ!Held : e # c => msg[e] # m
  BY <1>2, <1>4, <1>6 DEF Places
<1>8. Len(q) \in Nat /\ Distinct(q) /\ Distinct(f) /\ msg_queue_tail = Final(q) /\ entry = Len(q)
      /\ Path(next, msg_queue_head, q) /\ Path(next, msg_queue_free, f)
  BY <1>4 DEF Links
<1>9. /\ Len(q) = 0 => msg_queue_tail = MQ!NULL /\ msg_queue_head = MQ!NULL
      /\ Len(q) # 0 => In(q, msg_queue_tail) /\ msg_queue_tail \in MQ!Msgs /\ msg_queue_head # MQ!NULL
  <2>1. ASSUME Len(q) # 0 PROVE In(q, msg_queue_tail) /\ msg_queue_tail \in MQ!Msgs
    <3>1. Len(q) \in 1 .. Len(q) /\ msg_queue_tail = q[Len(q)]
      BY <1>8, <2>1 DEF Final
    <3>2. QED
      BY <3>1 DEF In
  <2>2. ASSUME Len(q) # 0 PROVE msg_queue_head # MQ!NULL
    <3>1. 1 \in 1 .. Len(q) /\ msg_queue_head = q[1]
      BY <1>8, <2>2 DEF Path, First
    <3>2. QED
      BY <3>1, Facts
  <2>3. QED
    BY <1>8, <2>1, <2>2 DEF Final, Path, First
<1>10. /\ Len(q) # 0 => next'[msg_queue_tail] = m
       /\ \A x \in MQ!Msgs : (Len(q) = 0 \/ x # msg_queue_tail) => next'[x] = next[x]
  BY <1>3, <1>9, Facts
<1>11. next'[m] = MQ!NULL
  BY <1>5, <1>6, <1>7, <1>9, <1>10
<1>12. PICK t : t = Append(q, m)
  OBVIOUS
<1>13. /\ t \in Seq(MQ!Msgs) /\ Len(t) = Len(q) + 1 /\ Distinct(t) /\ t[Len(q) + 1] = m
       /\ \A k \in 1 .. Len(q) : t[k] = q[k]
       /\ \A x : In(t, x) <=> In(q, x) \/ x = m
  <2>1. q \in Seq(MQ!Msgs) /\ m \in MQ!Msgs /\ Distinct(q) /\ ~In(q, m)
    BY <1>4, <1>6, <1>7, <1>8
  <2>2. t \in Seq(MQ!Msgs) /\ Longer(t, q, m)
    BY ONLY <1>12, <2>1, Put
  <2>3. QED
    BY ONLY <2>2 DEF Longer
<1>14. ASSUME NEW s \in Seq(MQ!Msgs), NEW x, In(s, x) PROVE x \in MQ!Msgs
  BY <1>14 DEF In
<1>15. Path(next', IF Len(q) = 0 THEN m ELSE msg_queue_head, t) /\ Final(t) = m
  <2>1. Len(q) # 0 => next'[Final(q)] = m
    BY <1>8, <1>10
  <2>2. ASSUME NEW x, In(q, x), x # Final(q) PROVE next'[x] = next[x]
    BY <1>8, <1>10, <1>14, <2>2
  <2>3. PICK g : g = next'
    OBVIOUS
  <2>4. PICK n : n = msg_queue_head
    OBVIOUS
  <2>5. Path(next, n, q) /\ LedOn(next, g, q, m)
    BY <1>8, <1>11, <2>1, <2>2, <2>3, <2>4 DEF LedOn
  <2>6. Path(g, IF Len(q) = 0 THEN m ELSE n, t) /\ Final(t) = m
    <3>1. q \in Seq(MQ!Msgs) /\ m \in MQ!Msgs /\ Distinct(q) /\ ~In(q, m)
      BY <1>4, <1>6, <1>7, <1>8
    <3>2. QED
      BY ONLY <1>12, <2>5, <3>1, PathPut
  <2>7. QED
    BY <2>3, <2>4, <2>6
<1>16. Path(next', msg_queue_free, f)
  <2>1. ASSUME NEW x, In(f, x) PROVE next'[x] = next[x]
    <3>1. x \in MQ!Msgs
      BY <1>14, <2>1
    <3>2. Len(q) # 0 => x # msg_queue_tail
      BY <1>4, <1>9, <2>1 DEF Places
    <3>3. QED
      BY <1>10, <3>1, <3>2
  <2>2. QED
    BY <1>8, <2>1, PathStays
<1>17. Links(t, f)'
  <2>1. Path(next, msg_queue_head, t)'
    <3>1. msg_queue_head' = IF Len(q) = 0 THEN m ELSE msg_queue_head
      BY <1>3, <1>9
    <3>2. QED
      BY <1>15, <3>1 DEF Path
  <2>2. Path(next, msg_queue_free, f)'
    BY <1>1, <1>16 DEF Path
  <2>3. msg_queue_tail' = Final(t) /\ entry' = Len(t)
    BY <1>3, <1>8, <1>13, <1>15
  <2>4. QED
    BY <1>4, <1>8, <1>13, <2>1, <2>2, <2>3 DEF Links
<1>18. MQ!Held' = MQ!Held \ {c} /\ Cardinality(MQ!Held') = Cardinality(MQ!Held) - 1 /\ Cardinality(MQ!Held) \in Nat
  BY <1>1, <1>2, <1>5, HeldLess, Facts
<1>19. \A e \in MQ!Held' : e \in MQ!Held /\ e # c /\ msg'[e] = msg[e] /\ msg[e] # m
  BY <1>1, <1>7, <1>18, Facts DEF MQ!Held
<1>20. Places(t, f)'
  <2>1. \A x \in MQ!Msgs : In(t, x) => ~In(f, x)
    BY <1>4, <1>7, <1>13 DEF Places
  <2>2. \A e \in MQ!Held' : ~In(t, msg'[e]) /\ ~In(f, msg'[e])
    BY <1>4, <1>13, <1>19 DEF Places
  <2>3. \A a, b \in MQ!Held' : msg'[a] = msg'[b] => a = b
    BY <1>4, <1>19 DEF Places
  <2>4. ASSUME NEW x \in MQ!Msgs PROVE In(t, x) \/ In(f, x) \/ \E e \in MQ!Held' : msg'[e] = x
    <3>1. CASE In(q, x) \/ In(f, x) \/ x = m
      BY <1>13, <3>1
    <3>2. CASE \E e \in MQ!Held : msg[e] = x /\ x # m
      BY <1>2, <1>18, <1>19, <3>2
    <3>3. QED
      BY <1>4, <3>1, <3>2 DEF Places
  <2>5. Len(t) + Len(f) + Cardinality(MQ!Held') = MQ!max_msgs
    <3>1. Len(q) + Len(f) + Cardinality(MQ!Held) = MQ!max_msgs
      BY <1>4 DEF Places
    <3>2. Len(q) \in Nat /\ Len(f) \in Nat
      OBVIOUS
    <3>3. QED
      BY <1>13, <1>18, <3>1, <3>2
  <2>6. QED
    BY <2>1, <2>2, <2>3, <2>4, <2>5 DEF Places
<1>21. Sent(t)'
  <2>1. buffer[c] \in Seq(Data)
    BY <1>5 DEF Begins
  <2>2. /\ order' \in Seq(Seq(Data)) /\ Len(order') = Len(order) + 1
        /\ order'[Len(order) + 1] = buffer[c] /\ \A k \in 1 .. Len(order) : order'[k] = order[k]
    <3>1. order \in Seq(Seq(Data))
      BY <1>4 DEF Sent
    <3>2. QED
      BY <1>1, <2>1, <3>1, AppendProperties
  <2>3. Len(order) = Len(q)
    BY <1>4 DEF Sent
  <2>4. ASSUME NEW k \in 1 .. Len(t) PROVE Begins(body'[t[k]], order'[k])
    <3>1. CASE k \in 1 .. Len(q)
      <4>1. t[k] = q[k] /\ order'[k] = order[k] /\ body' = body
        BY <1>1, <1>13, <2>2, <2>3, <3>1
      <4>2. QED
        BY <1>4, <3>1, <4>1 DEF Sent
    <3>2. CASE k = Len(q) + 1
      BY <1>1, <1>5, <1>13, <2>2, <2>3, <3>2
    <3>3. QED
      BY <1>8, <1>13, <3>1, <3>2
  <2>5. Len(order') = Len(t)
    BY <1>13, <2>2, <2>3
  <2>6. QED
    BY <2>2, <2>4, <2>5 DEF Sent, Begins
<1>22. ASSUME NEW e \in MQ!Contexts PROVE Hand(e)'
  <2>1. CASE e = c
    <3>1. q_pc'[e] = "idle" /\ msg'[e] = MQ!NULL
      BY <1>1, <2>1, Facts
    <3>2. QED
      BY <1>1, <2>1, <3>1 DEF Hand
  <2>2. CASE e # c
    <3>1. q_pc'[e] = q_pc[e] /\ msg'[e] = msg[e] /\ buffer'[e] = buffer[e]
      BY <1>1, <2>2, Facts
    <3>2. Hand(e)
      BY DEF MailInv
    <3>3. msg[e] # MQ!NULL => next'[msg[e]] = next[msg[e]]
      <4>1. ASSUME msg[e] # MQ!NULL PROVE msg[e] \in MQ!Msgs /\ e \in MQ!Held
        BY <4>1, Facts DEF MQ!Held
      <4>2. ASSUME msg[e] # MQ!NULL, Len(q) # 0 PROVE msg[e] # msg_queue_tail
        BY <1>4, <1>9, <4>1, <4>2 DEF Places
      <4>3. QED
        BY <1>10, <4>1, <4>2
    <3>4. QED
      BY <1>1, <3>1, <3>2, <3>3, HandStays
  <2>3. QED
    BY <2>1, <2>2
<1>23. MQ!TypeOK'
  <2>1. next' \in [MQ!Msgs -> MQ!Msgs \cup {MQ!NULL}]
    BY <1>3, <1>6, <1>9, Facts
  <2>2. q_pc' \in [MQ!Contexts -> {"idle", "copy", "link", "release"}]
    BY <1>1, Facts
  <2>3. msg' \in [MQ!Contexts -> MQ!Msgs \cup {MQ!NULL}]
    BY <1>1, Facts
  <2>4. msg_queue_head' \in MQ!Msgs \cup {MQ!NULL} /\ msg_queue_tail' \in MQ!Msgs \cup {MQ!NULL}
    BY <1>3, <1>6 DEF MailInv, MQ!TypeOK
  <2>5. entry' \in 0 .. MQ!max_msgs
    <3>1. entry' = Len(t) /\ Len(t) + Len(f) + Cardinality(MQ!Held') = MQ!max_msgs /\ Len(t) \in Nat
          /\ Len(f) \in Nat /\ Cardinality(MQ!Held') \in Nat
      <4>1. Cardinality(MQ!Held') \in Nat
        <5>1. IsFiniteSet(MQ!Held')
          BY <1>18, Contexts0, FS_Subset DEF MQ!Held
        <5>2. QED
          BY <5>1, FS_CardinalityType
      <4>2. Len(t) + Len(f) + Cardinality(MQ!Held') = MQ!max_msgs
        BY <1>20 DEF Places
      <4>3. QED
        BY <1>3, <1>8, <1>13, <4>1, <4>2
    <3>2. QED
      BY <3>1, Facts
  <2>6. QED
    BY <1>1, <2>1, <2>2, <2>3, <2>4, <2>5, Facts DEF MQ!TypeOK
<1>24. buffer' \in [MQ!Contexts -> Seq(Data \cup {MQ!Blank})] /\ q_due' \in Seq(Data)
  BY <1>1, Facts
<1>25. QED
  BY <1>4, <1>13, <1>17, <1>20, <1>21, <1>22, <1>23, <1>24 DEF MailInv

\* ... taking the first one out of it, ...
LEMMA TakeStep ==
  ASSUME MQ!MessageQueueAssumption, MailInv, MQ!Take
  PROVE  MailInv'
<1>1. /\ q_pc[MQ!Receiver] = "idle" /\ entry # 0
      /\ msg' = [msg EXCEPT ![MQ!Receiver] = msg_queue_head]
      /\ msg_queue_head' = next[msg_queue_head]
      /\ msg_queue_tail' = IF msg_queue_tail = msg_queue_head THEN MQ!NULL ELSE msg_queue_tail
      /\ entry' = entry - 1
      /\ q_due' = order[1] /\ order' = SubSeq(order, 2, Len(order))
      /\ q_pc' = [q_pc EXCEPT ![MQ!Receiver] = "copy"] /\ UNCHANGED rt
      /\ UNCHANGED <<msg_queue_free, next, body, buffer>>
  BY DEF MQ!Take, MQ!Goes
<1>2. PICK q \in Seq(MQ!Msgs), f \in Seq(MQ!Msgs) : Links(q, f) /\ Places(q, f) /\ Sent(q)
  BY DEF MailInv
<1>3. /\ Distinct(q) /\ Path(next, msg_queue_head, q) /\ Path(next, msg_queue_free, f)
      /\ msg_queue_tail = Final(q) /\ entry = Len(q) /\ Len(q) \in Nat /\ Len(q) # 0 /\ 1 \in 1 .. Len(q)
  BY <1>1, <1>2 DEF Links
<1>4. msg[MQ!Receiver] = MQ!NULL
  BY <1>1, Facts DEF MailInv, Hand
<1>5. PICK m : m = msg_queue_head
  OBVIOUS
<1>6. PICK t : t = Tail(q)
  OBVIOUS
<1>7. /\ t \in Seq(MQ!Msgs) /\ Len(t) = Len(q) - 1 /\ Distinct(t)
      /\ q[1] \in MQ!Msgs /\ In(q, q[1])
      /\ \A k \in 1 .. Len(t) : t[k] = q[k + 1] /\ k + 1 \in 1 .. Len(q)
      /\ \A x : In(t, x) <=> In(q, x) /\ x # q[1]
  BY <1>3, <1>6, Shift
<1>8. m = q[1] /\ Path(next, next[m], t) /\ Final(t) = (IF Len(q) = 1 THEN MQ!NULL ELSE Final(q))
  BY <1>3, <1>5, <1>6, PathShifts
<1>9. msg_queue_tail = m <=> Len(q) = 1
  BY <1>3, <1>8 DEF Final, Distinct
<1>10. Links(t, f)'
  <2>1. Path(next, msg_queue_head, t)' /\ Path(next, msg_queue_free, f)'
    BY <1>1, <1>3, <1>5, <1>8 DEF Path
  <2>2. msg_queue_tail' = Final(t) /\ entry' = Len(t)
    BY <1>1, <1>3, <1>5, <1>7, <1>8, <1>9
  <2>3. QED
    BY <1>2, <1>7, <2>1, <2>2 DEF Links
<1>11. /\ MQ!Held' = MQ!Held \cup {MQ!Receiver} /\ Cardinality(MQ!Held') = Cardinality(MQ!Held) + 1
       /\ Cardinality(MQ!Held) \in Nat
  BY <1>1, <1>4, <1>5, <1>7, <1>8, HeldMore, Facts
<1>12. msg'[MQ!Receiver] = m /\ \A e \in MQ!Held : msg'[e] = msg[e] /\ e # MQ!Receiver /\ msg[e] # m
  <2>1. \A e \in MQ!Held : msg[e] # m
    BY <1>2, <1>7, <1>8 DEF Places
  <2>2. QED
    BY <1>1, <1>4, <1>5, <2>1, Facts DEF MQ!Held
<1>13. Places(t, f)'
  <2>1. \A x \in MQ!Msgs : In(t, x) => ~In(f, x)
    BY <1>2, <1>7 DEF Places
  <2>2. ~In(t, m) /\ ~In(f, m)
    BY <1>2, <1>7, <1>8 DEF Places
  <2>3. \A e \in MQ!Held' : ~In(t, msg'[e]) /\ ~In(f, msg'[e])
    BY <1>2, <1>7, <1>11, <1>12, <2>2 DEF Places
  <2>4. ASSUME NEW a \in MQ!Held', NEW b \in MQ!Held', msg'[a] = msg'[b] PROVE a = b
    BY <1>2, <1>11, <1>12, <2>4 DEF Places
  <2>5. ASSUME NEW x \in MQ!Msgs PROVE In(t, x) \/ In(f, x) \/ \E e \in MQ!Held' : msg'[e] = x
    <3>1. CASE x = m
      BY <1>11, <1>12, <3>1
    <3>2. CASE x # m /\ (In(q, x) \/ In(f, x))
      BY <1>7, <1>8, <3>2
    <3>3. CASE \E e \in MQ!Held : msg[e] = x
      BY <1>11, <1>12, <3>3
    <3>4. QED
      BY <1>2, <3>1, <3>2, <3>3 DEF Places
  <2>6. Len(t) + Len(f) + Cardinality(MQ!Held') = MQ!max_msgs
    <3>1. Len(q) + Len(f) + Cardinality(MQ!Held) = MQ!max_msgs
      BY <1>2 DEF Places
    <3>2. Len(q) \in Nat /\ Len(f) \in Nat
      OBVIOUS
    <3>3. QED
      BY <1>7, <1>11, <3>1, <3>2
  <2>7. QED
    BY <2>1, <2>3, <2>4, <2>5, <2>6 DEF Places
<1>14. order \in Seq(Seq(Data)) /\ Len(order) = Len(q) /\ \A k \in 1 .. Len(q) : Begins(body[q[k]], order[k])
  BY <1>2 DEF Sent
<1>15. Sent(t)'
  <2>1. PICK s : s = SubSeq(order, 2, Len(order))
    OBVIOUS
  <2>2. s \in Seq(Seq(Data)) /\ Len(s) = Len(order) - 1
    BY <1>3, <1>14, <2>1
  <2>3. ASSUME NEW k \in 1 .. Len(t) PROVE Begins(body[t[k]], s[k])
    <3>1. k \in 1 .. Len(s)
      BY <1>7, <1>14, <2>2
    <3>2. s[k] = order[2 + k - 1]
      BY <1>3, <1>14, <2>1, <2>2, <3>1
    <3>3. 2 + k - 1 = k + 1 /\ t[k] = q[k + 1] /\ k + 1 \in 1 .. Len(q)
      BY <1>7
    <3>4. QED
      BY <1>14, <3>2, <3>3
  <2>4. Len(s) = Len(t)
    BY <1>7, <1>14, <2>2
  <2>5. order' = s /\ body' = body
    BY <1>1, <2>1
  <2>6. QED
    BY <2>2, <2>3, <2>4, <2>5 DEF Sent, Begins
<1>16. Begins(body[m], q_due') /\ q_due' \in Seq(Data)
  BY <1>1, <1>3, <1>8, <1>14 DEF Begins
<1>17. Hand(MQ!Receiver)'
  <2>1. q_pc'[MQ!Receiver] = "copy" /\ msg'[MQ!Receiver] = m /\ m # MQ!NULL
    BY <1>1, <1>7, <1>8, <1>12, Facts
  <2>2. QED
    BY <1>1, <1>16, <2>1 DEF Hand, Begins
<1>18. ASSUME NEW e \in MQ!Contexts PROVE Hand(e)'
  <2>1. CASE e = MQ!Receiver
    BY <1>17, <2>1
  <2>2. CASE e # MQ!Receiver
    <3>1. q_pc'[e] = q_pc[e] /\ msg'[e] = msg[e] /\ buffer'[e] = buffer[e]
      BY <1>1, <2>2, Facts
    <3>2. Hand(e)
      BY DEF MailInv
    <3>3. QED
      BY <1>1, <2>2, <3>1, <3>2 DEF Hand, Begins
  <2>3. QED
    BY <2>1, <2>2
<1>19. MQ!TypeOK'
  <2>1. msg_queue_head' \in MQ!Msgs \cup {MQ!NULL} /\ msg' \in [MQ!Contexts -> MQ!Msgs \cup {MQ!NULL}]
    BY <1>1, <1>5, <1>7, <1>8, Facts
  <2>2. q_pc' \in [MQ!Contexts -> {"idle", "copy", "link", "release"}]
    BY <1>1, Facts
  <2>3. msg_queue_tail' \in MQ!Msgs \cup {MQ!NULL}
    BY <1>1 DEF MailInv, MQ!TypeOK
  <2>4. entry' \in 0 .. MQ!max_msgs
    <3>1. entry \in 0 .. MQ!max_msgs
      BY DEF MailInv, MQ!TypeOK
    <3>2. QED
      BY <1>1, <3>1, Facts
  <2>5. QED
    BY <1>1, <2>1, <2>2, <2>3, <2>4, Facts DEF MQ!TypeOK
<1>20. QED
  BY <1>1, <1>2, <1>7, <1>10, <1>13, <1>15, <1>16, <1>18, <1>19, Facts DEF MailInv

\* ... reading that one ...
LEMMA RecvCopyStep ==
  ASSUME MQ!MessageQueueAssumption, MailInv, NEW size \in Lengths, MQ!RecvCopy(size)
  PROVE  MailInv'
<1>1. /\ q_pc[MQ!Receiver] = "copy" /\ q_pc' = [q_pc EXCEPT ![MQ!Receiver] = "release"] /\ UNCHANGED rt
      /\ UNCHANGED <<MQ!lists, next, body, msg, order, q_due>>
  BY DEF MQ!RecvCopy, MQ!Goes
<1>2. PICK n : n = IF size > MQ!msg_size THEN MQ!msg_size ELSE size
  OBVIOUS
<1>3. PICK b : b = body[msg[MQ!Receiver]]
  OBVIOUS
<1>4. PICK s : s = SubSeq(b, 1, n)
  OBVIOUS
<1>5. buffer' = [buffer EXCEPT ![MQ!Receiver] = s]
  BY <1>2, <1>3, <1>4 DEF MQ!RecvCopy
<1>6. Hand(MQ!Receiver) /\ msg[MQ!Receiver] # MQ!NULL /\ Begins(b, q_due)
  BY <1>1, <1>3, Facts DEF MailInv, Hand
<1>7. b \in [1 .. MQ!msg_size -> Data \cup {MQ!Blank}]
  BY <1>3, <1>6, Facts
<1>8. b \in Seq(Data \cup {MQ!Blank}) /\ Len(b) = MQ!msg_size
  <2>1. ASSUME NEW S, NEW i \in Nat, NEW g \in [1 .. i -> S] PROVE g \in Seq(S) /\ Len(g) = i
    OBVIOUS
  <2>2. QED
    BY <1>7, <2>1, Facts
<1>9. n \in 0 .. MQ!msg_size
  <2>1. size \in Nat
    BY DEF MQ!MessageQueueAssumption
  <2>2. QED
    BY <1>2, <2>1, Facts
<1>10. s \in Seq(Data \cup {MQ!Blank}) /\ Len(s) = n /\ DOMAIN s = 1 .. n
  BY <1>4, <1>8, <1>9
<1>11. \A k \in 1 .. n : s[k] = b[k]
  BY <1>4, <1>8, <1>9, <1>10
<1>12. PICK q \in Seq(MQ!Msgs), f \in Seq(MQ!Msgs) : Links(q, f) /\ Places(q, f) /\ Sent(q)
  BY DEF MailInv
<1>13. Links(q, f)' /\ Places(q, f)' /\ Sent(q)'
  BY <1>1, <1>12, SameLists
<1>14. Hand(MQ!Receiver)'
  <2>1. q_pc'[MQ!Receiver] = "release" /\ buffer'[MQ!Receiver] = s /\ msg'[MQ!Receiver] # MQ!NULL
    BY <1>1, <1>5, <1>6, Facts
  <2>2. ASSUME NEW k \in 1 .. Len(q_due), k \in DOMAIN s PROVE s[k] = q_due[k]
    BY <1>6, <1>10, <1>11, <2>2 DEF Begins
  <2>3. QED
    BY <1>1, <2>1, <2>2 DEF Hand
<1>15. ASSUME NEW e \in MQ!Contexts PROVE Hand(e)'
  <2>1. CASE e = MQ!Receiver
    BY <1>14, <2>1
  <2>2. CASE e # MQ!Receiver
    <3>1. q_pc'[e] = q_pc[e] /\ msg'[e] = msg[e] /\ buffer'[e] = buffer[e]
      BY <1>1, <1>5, <2>2, Facts
    <3>2. Hand(e)
      BY DEF MailInv
    <3>3. QED
      BY <1>1, <3>1, <3>2, HandStays
  <2>3. QED
    BY <2>1, <2>2
<1>16. MQ!TypeOK'
  <2>1. q_pc' \in [MQ!Contexts -> {"idle", "copy", "link", "release"}]
    BY <1>1, Facts
  <2>2. QED
    BY <1>1, <2>1, Facts DEF MQ!TypeOK, MQ!lists
<1>17. buffer' \in [MQ!Contexts -> Seq(Data \cup {MQ!Blank})] /\ q_due' \in Seq(Data)
  BY <1>1, <1>5, <1>10, Facts
<1>18. QED
  BY <1>12, <1>13, <1>15, <1>16, <1>17 DEF MailInv

\* ... and giving it back.
LEMMA ReleaseStep ==
  ASSUME MQ!MessageQueueAssumption, MailInv, MQ!Release
  PROVE  MailInv'
<1>1. /\ q_pc[MQ!Receiver] = "release"
      /\ next' = [next EXCEPT ![msg[MQ!Receiver]] = msg_queue_free]
      /\ msg_queue_free' = msg[MQ!Receiver]
      /\ msg' = [msg EXCEPT ![MQ!Receiver] = MQ!NULL] /\ buffer' = [buffer EXCEPT ![MQ!Receiver] = <<>>]
      /\ q_due' = <<>>
      /\ q_pc' = [q_pc EXCEPT ![MQ!Receiver] = "idle"] /\ rt' = "EOK"
      /\ UNCHANGED <<msg_queue_head, msg_queue_tail, entry, body, order>>
  BY DEF MQ!Release, MQ!Returns
<1>2. PICK m : m = msg[MQ!Receiver]
  OBVIOUS
<1>3. PICK q \in Seq(MQ!Msgs), f \in Seq(MQ!Msgs) : Links(q, f) /\ Places(q, f) /\ Sent(q)
  BY DEF MailInv
<1>4. m # MQ!NULL
  BY <1>1, <1>2, Facts DEF MailInv, Hand
<1>5. m \in MQ!Msgs /\ MQ!Receiver \in MQ!Held
  BY <1>2, <1>4, Facts DEF MQ!Held
<1>6. ~In(q, m) /\ ~In(f, m) /\ \A e \in MQ!Held : e # MQ!Receiver => msg[e] # m
  BY <1>2, <1>3, <1>5 DEF Places
<1>7. /\ Distinct(q) /\ Distinct(f) /\ Path(next, msg_queue_head, q) /\ Path(next, msg_queue_free, f)
      /\ msg_queue_tail = Final(q) /\ entry = Len(q)
  BY <1>3 DEF Links
<1>8. next'[m] = msg_queue_free /\ \A x \in MQ!Msgs : x # m => next'[x] = next[x]
  BY <1>1, <1>2, <1>5, Facts
<1>9. PICK g : g = <<m>> \o f
  OBVIOUS
<1>10. g \in Seq(MQ!Msgs) /\ Headed(g, m, f)
  <2>1. f \in Seq(MQ!Msgs) /\ m \in MQ!Msgs /\ Distinct(f) /\ ~In(f, m)
    BY <1>3, <1>5, <1>6, <1>7
  <2>2. QED
    BY ONLY <1>9, <2>1, Push
<1>11. Len(g) = Len(f) + 1 /\ Distinct(g) /\ \A x : In(g, x) <=> In(f, x) \/ x = m
  BY <1>10 DEF Headed
<1>12. ASSUME NEW s \in Seq(MQ!Msgs), ~In(s, m), NEW x, In(s, x) PROVE x \in MQ!Msgs /\ x # m
  BY <1>12 DEF In
<1>13. Links(q, g)'
  <2>1. (\A x : In(q, x) => next'[x] = next[x]) /\ (\A x : In(f, x) => next'[x] = next[x])
    BY <1>6, <1>8, <1>12
  <2>2. Path(next', msg_queue_head, q)
    BY <1>7, <2>1, PathStays
  <2>3. PICK h : h = next'
    OBVIOUS
  <2>4. PICK n : n = msg_queue_free
    OBVIOUS
  <2>5. Agree(next, h, f) /\ h[m] = n /\ Path(next, n, f)
    BY <1>7, <1>8, <2>1, <2>3, <2>4 DEF Agree
  <2>6. f \in Seq(MQ!Msgs) /\ m \in MQ!Msgs /\ Distinct(f) /\ ~In(f, m)
    BY <1>3, <1>5, <1>6, <1>7
  <2>7. Path(h, m, g)
    BY ONLY <1>9, <2>5, <2>6, PathPushed
  <2>8. Path(next, msg_queue_head, q)' /\ Path(next, msg_queue_free, g)'
    BY <1>1, <1>2, <2>2, <2>3, <2>7 DEF Path
  <2>9. QED
    BY <1>1, <1>3, <1>7, <1>10, <1>11, <2>8 DEF Links
<1>14. /\ MQ!Held' = MQ!Held \ {MQ!Receiver} /\ Cardinality(MQ!Held') = Cardinality(MQ!Held) - 1
       /\ Cardinality(MQ!Held) \in Nat
  BY <1>1, <1>2, <1>4, HeldLess, Facts
<1>15. \A e \in MQ!Held' : e \in MQ!Held /\ e # MQ!Receiver /\ msg'[e] = msg[e] /\ msg[e] # m
  BY <1>1, <1>6, <1>14, Facts DEF MQ!Held
<1>16. Places(q, g)'
  <2>1. \A x \in MQ!Msgs : In(q, x) => ~In(g, x)
    BY <1>3, <1>6, <1>11 DEF Places
  <2>2. \A e \in MQ!Held' : ~In(q, msg'[e]) /\ ~In(g, msg'[e])
    BY <1>3, <1>11, <1>15 DEF Places
  <2>3. \A a, b \in MQ!Held' : msg'[a] = msg'[b] => a = b
    BY <1>3, <1>15 DEF Places
  <2>4. ASSUME NEW x \in MQ!Msgs PROVE In(q, x) \/ In(g, x) \/ \E e \in MQ!Held' : msg'[e] = x
    <3>1. CASE In(q, x) \/ In(f, x) \/ x = m
      BY <1>11, <3>1
    <3>2. CASE \E e \in MQ!Held : msg[e] = x /\ x # m
      BY <1>2, <1>14, <1>15, <3>2
    <3>3. QED
      BY <1>3, <3>1, <3>2 DEF Places
  <2>5. Len(q) + Len(g) + Cardinality(MQ!Held') = MQ!max_msgs
    <3>1. Len(q) + Len(f) + Cardinality(MQ!Held) = MQ!max_msgs
      BY <1>3 DEF Places
    <3>2. Len(q) \in Nat /\ Len(f) \in Nat
      OBVIOUS
    <3>3. QED
      BY <1>11, <1>14, <3>1, <3>2
  <2>6. QED
    BY <2>1, <2>2, <2>3, <2>4, <2>5 DEF Places
<1>17. Sent(q)'
  BY <1>1, <1>3 DEF Sent
<1>18. ASSUME NEW e \in MQ!Contexts PROVE Hand(e)'
  <2>1. CASE e = MQ!Receiver
    <3>1. q_pc'[e] = "idle" /\ msg'[e] = MQ!NULL
      BY <1>1, <2>1, Facts
    <3>2. QED
      BY <2>1, <3>1 DEF Hand
  <2>2. CASE e # MQ!Receiver
    <3>1. q_pc'[e] = q_pc[e] /\ msg'[e] = msg[e] /\ buffer'[e] = buffer[e]
      BY <1>1, <2>2, Facts
    <3>2. Hand(e)
      BY DEF MailInv
    <3>3. q_pc[e] = "link" => next'[msg[e]] = next[msg[e]]
      <4>1. ASSUME q_pc[e] = "link" PROVE msg[e] \in MQ!Msgs /\ e \in MQ!Held
        BY <3>2, <4>1, Facts DEF MQ!Held, Hand
      <4>2. QED
        BY <1>6, <1>8, <2>2, <4>1
    <3>4. QED
      BY <1>1, <2>2, <3>1, <3>2, <3>3 DEF Hand, Begins
  <2>3. QED
    BY <2>1, <2>2
<1>19. MQ!TypeOK'
  <2>1. next' \in [MQ!Msgs -> MQ!Msgs \cup {MQ!NULL}]
    BY <1>1, Facts DEF MailInv, MQ!TypeOK
  <2>2. q_pc' \in [MQ!Contexts -> {"idle", "copy", "link", "release"}]
    BY <1>1, Facts
  <2>3. msg' \in [MQ!Contexts -> MQ!Msgs \cup {MQ!NULL}] /\ msg_queue_free' \in MQ!Msgs \cup {MQ!NULL}
    BY <1>1, Facts
  <2>4. QED
    BY <1>1, <2>1, <2>2, <2>3, Facts DEF MQ!TypeOK
<1>20. buffer' \in [MQ!Contexts -> Seq(Data \cup {MQ!Blank})] /\ q_due' \in Seq(Data)
  BY <1>1, Facts
<1>21. QED
  BY <1>3, <1>10, <1>13, <1>16, <1>17, <1>18, <1>19, <1>20 DEF MailInv

\* So every step does.
LEMMA MailStep == ASSUME MQ!MessageQueueAssumption, MailInv, [MQ!Next]_MQ!vars PROVE MailInv'
<1>1. CASE \E c \in MQ!Contexts, size \in Lengths : MQ!SendFails(c, size)
  <2>1. PICK c \in MQ!Contexts, r \in {"ERROR", "EFULL"} : q_pc[c] = "idle" /\ MQ!Returns(c, r)
    BY <1>1 DEF MQ!SendFails
  <2>2. UNCHANGED <<MQ!lists, next, body, msg, buffer, order, q_due>>
    BY <1>1 DEF MQ!SendFails
  <2>3. QED
    BY <2>1, <2>2, NothingStep
<1>2. CASE MQ!Nothing
  BY <1>2, NothingStep, Contexts0 DEF MQ!Nothing
<1>3. CASE UNCHANGED MQ!vars
  <2>1. PICK q \in Seq(MQ!Msgs), f \in Seq(MQ!Msgs) : Links(q, f) /\ Places(q, f) /\ Sent(q)
    BY DEF MailInv
  <2>2. Links(q, f)' /\ Places(q, f)' /\ Sent(q)'
    BY <1>3, <2>1, SameLists DEF MQ!vars
  <2>3. \A d \in MQ!Contexts : Hand(d)'
    BY <1>3, HandStays DEF MailInv, MQ!vars
  <2>4. MQ!TypeOK'
    BY <1>3, Facts DEF MQ!TypeOK, MQ!lists, MQ!vars
  <2>5. QED
    BY <1>3, <2>2, <2>3, <2>4, Facts DEF MailInv, MQ!vars
<1>4. QED
  BY <1>1, <1>2, <1>3, SendBeginStep, SendCopyStep, SendLinkStep, TakeStep, RecvCopyStep,
     ReleaseStep
     DEF MQ!Next, MQ!sv_eq_send, MQ!sv_eq_recv

--------------------------------------------------------------------------------
(* What the properties say of the lists.                                   *)

\* w is where the links f lead from m in N steps, and stays at the end.
Led(f, m, w, N) ==
    w = [k \in 1 .. N |-> IF k = 1 THEN m ELSE IF w[k - 1] = MQ!NULL THEN MQ!NULL ELSE f[w[k - 1]]]

\* The walk along the links exists, however long.
LEMMA LedExists ==
  ASSUME NEW f, NEW m, NEW N \in Nat PROVE \E w : Led(f, m, w, N)
<1> DEFINE Good == {n \in Nat : \E w : Led(f, m, w, n)}
<1>1. 0 \in Good
  <2>1. PICK v : v = [k \in 1 .. 0 |-> m]
    OBVIOUS
  <2>2. Led(f, m, v, 0)
    <3>1. 1 .. 0 = {}
      OBVIOUS
    <3>2. QED
      BY <2>1, <3>1 DEF Led
  <2>3. QED
    BY <2>2
<1>2. ASSUME NEW n \in Nat, n \in Good PROVE n + 1 \in Good
  <2>1. PICK w : Led(f, m, w, n)
    BY <1>2
  <2>2. PICK v : v = [k \in 1 .. n + 1 |-> IF k = 1 THEN m ELSE
                         IF w[k - 1] = MQ!NULL THEN MQ!NULL ELSE f[w[k - 1]]]
    OBVIOUS
  <2>3. ASSUME NEW k \in 1 .. n PROVE v[k] = w[k]
    <3>1. k \in 1 .. n + 1
      OBVIOUS
    <3>2. v[k] = IF k = 1 THEN m ELSE IF w[k - 1] = MQ!NULL THEN MQ!NULL ELSE f[w[k - 1]]
      BY <2>2, <3>1
    <3>3. w[k] = IF k = 1 THEN m ELSE IF w[k - 1] = MQ!NULL THEN MQ!NULL ELSE f[w[k - 1]]
      BY <2>1 DEF Led
    <3>4. QED
      BY <3>2, <3>3
  <2>4. ASSUME NEW k \in 1 .. n + 1
        PROVE  v[k] = IF k = 1 THEN m ELSE IF v[k - 1] = MQ!NULL THEN MQ!NULL ELSE f[v[k - 1]]
    <3>1. CASE k = 1
      BY <2>2, <3>1
    <3>2. CASE k # 1
      <4>1. k - 1 \in 1 .. n
        BY <3>2
      <4>2. v[k - 1] = w[k - 1]
        BY <2>3, <4>1
      <4>3. QED
        BY <2>2, <3>2, <4>2
    <3>3. QED
      BY <3>1, <3>2
  <2>5. v = [k \in 1 .. n + 1 |-> v[k]]
    BY <2>2
  <2>6. Led(f, m, v, n + 1)
    BY <2>4, <2>5 DEF Led
  <2>7. QED
    BY <2>6
<1>3. N \in Good
  <2> HIDE DEF Good
  <2> QED
    BY <1>1, <1>2, SetInduction
<1>4. QED
  BY <1>3

\* No list of distinct messages is longer than the pool.
LEMMA DistinctBound ==
  ASSUME MQ!MessageQueueAssumption, NEW q \in Seq(MQ!Msgs), Distinct(q) PROVE Len(q) <= MQ!max_msgs
<1>1. MQ!max_msgs \in Nat
  BY Sizes
<1>2. IsFiniteSet(MQ!Msgs) /\ Cardinality(MQ!Msgs) = MQ!max_msgs
  BY <1>1, FS_Interval DEF MQ!Msgs
<1>3. Len(q) \in Nat /\ q \in [1 .. Len(q) -> MQ!Msgs]
  OBVIOUS
<1>4. IsFiniteSet(1 .. Len(q)) /\ Cardinality(1 .. Len(q)) = Len(q)
  BY <1>3, FS_Interval
<1>5. SUFFICES ASSUME MQ!max_msgs < Len(q) PROVE FALSE
  BY <1>1, <1>3
<1>6. \E x, y \in 1 .. Len(q) : x # y /\ q[x] = q[y]
  BY <1>2, <1>3, <1>4, <1>5, FS_PigeonHole
<1>7. QED
  BY <1>6 DEF Distinct

\* Where a path leads is the chain.
LEMMA PathIsChain ==
  ASSUME MQ!MessageQueueAssumption, NEW m, NEW q \in Seq(MQ!Msgs), Distinct(q), Path(next, m, q)
  PROVE  MQ!Chain(m) = q
<1> DEFINE N == MQ!max_msgs + 1
           at == CHOOSE w : Led(next, m, w, N)
           n == Len(q)
           Same == {k \in Nat : k + 1 <= N => at[k + 1] = IF k + 1 <= n THEN q[k + 1] ELSE MQ!NULL}
<1>1. N \in Nat /\ N - 1 = MQ!max_msgs /\ n \in Nat /\ n <= MQ!max_msgs /\ 1 \in 1 .. N
  BY DistinctBound, Sizes
<1>2. \A k \in 1 .. N : at[k] = IF k = 1 THEN m ELSE IF at[k - 1] = MQ!NULL THEN MQ!NULL ELSE next[at[k - 1]]
  <2>1. \E w : Led(next, m, w, N)
    BY <1>1, LedExists
  <2>2. Led(next, m, at, N)
    <3> HIDE DEF N
    <3> QED BY <2>1
  <2> HIDE DEF at
  <2>3. QED
    BY <2>2 DEF Led
<1> HIDE DEF at, N
<1>3. \A k \in 1 .. n : q[k] \in MQ!Msgs /\ q[k] # MQ!NULL
  BY Contexts0
<1>4. 0 \in Same
  <2>1. at[1] = m /\ m = First(q)
    BY <1>1, <1>2 DEF Path
  <2>2. First(q) = IF 1 <= n THEN q[1] ELSE MQ!NULL
    BY <1>1 DEF First
  <2>3. QED
    BY <2>1, <2>2
<1>5. ASSUME NEW k \in Nat, k \in Same PROVE k + 1 \in Same
  <2>1. SUFFICES ASSUME (k + 1) + 1 <= N
                 PROVE  at[(k + 1) + 1] = IF (k + 1) + 1 <= n THEN q[(k + 1) + 1] ELSE MQ!NULL
    OBVIOUS
  <2>2. /\ k + 1 \in 1 .. N /\ (k + 1) + 1 \in 1 .. N /\ (k + 1) + 1 # 1 /\ ((k + 1) + 1) - 1 = k + 1
    BY <1>1, <2>1
  <2>3. at[(k + 1) + 1] = IF at[k + 1] = MQ!NULL THEN MQ!NULL ELSE next[at[k + 1]]
    BY <1>2, <2>2
  <2>4. at[k + 1] = IF k + 1 <= n THEN q[k + 1] ELSE MQ!NULL
    BY <1>5, <2>2
  <2>5. CASE k + 1 <= n
    <3>1. k + 1 \in 1 .. n
      BY <1>1, <2>5
    <3>2. next[q[k + 1]] = IF k + 1 = n THEN MQ!NULL ELSE q[(k + 1) + 1]
      BY <3>1 DEF Path
    <3>3. k + 1 = n <=> ~((k + 1) + 1 <= n)
      BY <1>1, <2>5
    <3>4. QED
      BY <1>3, <2>3, <2>4, <2>5, <3>1, <3>2, <3>3
  <2>6. CASE ~(k + 1 <= n)
    BY <1>1, <2>3, <2>4, <2>6
  <2>7. QED
    BY <2>5, <2>6
<1>6. \A k \in 1 .. N : at[k] = IF k <= n THEN q[k] ELSE MQ!NULL
  <2>1. Nat \subseteq Same
    <3> HIDE DEF Same
    <3> QED
      BY <1>4, <1>5, SetInduction
  <2>2. ASSUME NEW k \in 1 .. N PROVE k - 1 \in Nat /\ (k - 1) + 1 = k /\ k <= N
    BY <1>1
  <2>3. QED
    BY <2>1, <2>2
<1>7. {k \in 1 .. N : at[k] # MQ!NULL} = 1 .. n
  <2>1. \A k \in 1 .. N : at[k] # MQ!NULL <=> k \in 1 .. n
    BY <1>1, <1>3, <1>6
  <2>2. 1 .. n \subseteq 1 .. N
    BY <1>1
  <2>3. QED
    BY <2>1, <2>2
<1>8. Cardinality({k \in 1 .. N : at[k] # MQ!NULL}) = n
  <2>1. Cardinality(1 .. n) = n
    <3> HIDE DEF n
    <3> QED
      BY <1>1, FS_Interval
  <2>2. QED
    BY <1>7, <2>1
<1>9. MQ!Chain(m) = [k \in 1 .. MQ!Cardinality({k \in 1 .. N : at[k] # MQ!NULL}) |-> at[k]]
  BY DEF MQ!Chain, Led, at, N
<1>10. MQ!Chain(m) = [k \in 1 .. n |-> at[k]]
  BY <1>8, <1>9, SameSizes
<1>11. \A k \in 1 .. n : at[k] = q[k]
  BY <1>1, <1>6
<1>12. q = [k \in 1 .. n |-> q[k]]
  OBVIOUS
<1>13. QED
  BY <1>10, <1>11, <1>12

\* With the invariant the queue hands on what was sent, in order, and loses no message.
LEMMA MailSound == ASSUME MQ!MessageQueueAssumption, MailInv PROVE MQ!TypeOK /\ MQ!QueueKeeps
<1>1. PICK q \in Seq(MQ!Msgs), f \in Seq(MQ!Msgs) : Links(q, f) /\ Places(q, f) /\ Sent(q)
  BY DEF MailInv
<1>2. MQ!Queue = q /\ MQ!Free = f
  BY <1>1, PathIsChain DEF Links, MQ!Queue, MQ!Free
<1>3. Len(q) = entry /\ DOMAIN q = 1 .. Len(q) /\ DOMAIN f = 1 .. Len(f) /\ msg_queue_tail = Final(q)
  BY <1>1 DEF Links
<1>4. (entry # 0 => q[entry] = msg_queue_tail) /\ (entry = 0 => msg_queue_tail = MQ!NULL)
  BY <1>3 DEF Final
<1>5. {q[k] : k \in DOMAIN q} \cup {f[k] : k \in DOMAIN f} \cup {msg[c] : c \in MQ!Held} = MQ!Msgs
  <2>1. \A x \in MQ!Msgs : x \in {q[k] : k \in DOMAIN q} \cup {f[k] : k \in DOMAIN f} \cup {msg[c] : c \in MQ!Held}
    BY <1>1, <1>3 DEF Places, In
  <2>2. /\ \A k \in DOMAIN q : q[k] \in MQ!Msgs
        /\ \A k \in DOMAIN f : f[k] \in MQ!Msgs
        /\ \A c \in MQ!Held : msg[c] \in MQ!Msgs
    BY <1>3, Facts DEF MQ!Held
  <2>3. QED
    BY <2>1, <2>2
<1>6. Len(order) = entry /\ DOMAIN order = 1 .. Len(q) /\ order \in Seq(Seq(Data))
  BY <1>1, <1>3 DEF Sent
<1>7. ASSUME NEW k \in DOMAIN order PROVE SubSeq(body[q[k]], 1, Len(order[k])) = order[k]
  <2>1. PICK b : b = body[q[k]]
    OBVIOUS
  <2>2. PICK d : d = order[k]
    OBVIOUS
  <2>3. k \in 1 .. Len(q) /\ q[k] \in MQ!Msgs /\ Begins(b, d)
    <3>1. k \in 1 .. Len(q) /\ q[k] \in MQ!Msgs
      BY <1>6
    <3>2. Begins(body[q[k]], order[k])
      BY <1>1, <3>1 DEF Sent
    <3>3. QED
      BY <2>1, <2>2, <3>1, <3>2
  <2>4. b \in [1 .. MQ!msg_size -> Data \cup {MQ!Blank}] /\ MQ!msg_size \in Nat
    BY <2>1, <2>3, Facts
  <2>5. b \in Seq(Data \cup {MQ!Blank}) /\ Len(b) = MQ!msg_size
    <3>1. ASSUME NEW S, NEW i \in Nat, NEW g \in [1 .. i -> S] PROVE g \in Seq(S) /\ Len(g) = i
      OBVIOUS
    <3>2. QED
      BY <2>4, <3>1
  <2>6. d \in Seq(Data) /\ Len(d) \in 0 .. MQ!msg_size /\ \A i \in 1 .. Len(d) : b[i] = d[i]
    BY <2>3, <2>4 DEF Begins
  <2>7. PICK s : s = SubSeq(b, 1, Len(d))
    OBVIOUS
  <2>8. Len(s) = Len(d) /\ s \in Seq(Data \cup {MQ!Blank})
    BY <2>4, <2>5, <2>6, <2>7
  <2>9. ASSUME NEW i \in 1 .. Len(d) PROVE s[i] = d[i]
    <3>1. s[i] = b[i]
      BY <2>4, <2>5, <2>6, <2>7, <2>8
    <3>2. QED
      BY <2>6, <3>1
  <2>10. s = [i \in 1 .. Len(d) |-> s[i]] /\ d = [i \in 1 .. Len(d) |-> d[i]]
    BY <2>6, <2>8
  <2>11. s = d
    BY <2>9, <2>10
  <2>12. QED
    BY <2>1, <2>2, <2>7, <2>11
<1>8. ASSUME q_pc[MQ!Receiver] = "release", NEW k \in DOMAIN q_due, k \in DOMAIN buffer[MQ!Receiver]
      PROVE  buffer[MQ!Receiver][k] = q_due[k]
  <2>1. k \in 1 .. Len(q_due)
    BY Facts
  <2>2. Hand(MQ!Receiver)
    BY Facts DEF MailInv
  <2>3. QED
    BY <1>8, <2>1, <2>2 DEF Hand
<1>9. Len(q) + Len(f) + MQ!Cardinality(MQ!Held) = MQ!max_msgs
  BY <1>1, SameSizes DEF Places
<1>10. QED
  BY <1>2, <1>3, <1>4, <1>5, <1>6, <1>7, <1>8, <1>9 DEF MQ!QueueKeeps, MailInv

\* No message is lost or handed on twice, wherever a sender is preempted, for any pool and
\* any number of senders (sv_eq_send, sv_eq_recv).
THEOREM QueueKeeps == ASSUME MQ!MessageQueueAssumption PROVE MQ!Spec => [](MQ!TypeOK /\ MQ!QueueKeeps)
BY MailInit, MailStep, MailSound, PTL DEF MQ!Spec
================================================================================
