--------------------------------- MODULE AdcDma ---------------------------------
(***************************************************************************)
(* The registers of ADC1 and of its DMA channel, as the AD driver sets     *)
(* them (bsp/driver/ad/drv_ad.cpp, with lib/common/AdcLib.c, DmaLib.c and  *)
(* IexcLib.c).                                                             *)
(*                                                                         *)
(* The functions of the libraries read a register, mask it and write it    *)
(* back, so that what one of them leaves shows in the next.  A command is  *)
(* a function from the registers to the registers; Converted is what the   *)
(* converter and the DMA controller do by themselves.                      *)
(***************************************************************************)
EXTENDS Naturals, Sequences

CONSTANT SampleLen   \* def_AD_SAMPLE_LEN

Channels == {"RTD", "RHS", "PRS"}

\* How an analog value is made: the inputs, the range and the excitation.
Setting == [pins : {"none", "AIN6-AIN7", "AIN2-AGND", "AIN0-AIN1"},
            ref  : {"INTREF", "EXTREF2"}, gain : {1, 8, 16}, extbuf : BOOLEAN,
            idat : {0, 50, 400}, iexc : {"off", "AIN5", "AIN4"}]

Unset == [pins |-> "none", ref |-> "INTREF", gain |-> 1, extbuf |-> FALSE,
          idat |-> 0, iexc |-> "off"]

Registers == [set     : Setting,
              uint    : BOOLEAN,                       \* ADC1CON, bit 18
              mode    : {"IDLE", "CONT", "SINGLE"},    \* ADC1MDE, bits 0 to 2
              rdy     : BOOLEAN,                       \* ADC1STA, bit 0
              masked  : BOOLEAN,                       \* DMARMSK
              enabled : BOOLEAN,                       \* DMAEN
              left    : 0 .. SampleLen,                \* n_minus_1 + 1; 0: cycle_ctrl is STOP
              data    : Seq(Setting)]                  \* uxADC1Data

--------------------------------------------------------------------------------
(* AdcLib.  To write ADC1MDE resets the converter, its flags included.     *)

AdcGo(r, iStart) == [r EXCEPT !.mode = iStart, !.rdy = FALSE]

\* (mutant) the reference is kept
AdcRng_ref(r, iRef, iGain, iCode) == [r EXCEPT !.set.gain = iGain, !.rdy = FALSE]

(* The mask leaves bit 18 as it is, and only a 1 is written to it.         *)
AdcRng(r, iRef, iGain, iCode) ==
    [r EXCEPT !.set = [@ EXCEPT !.ref = iRef, !.gain = iGain],
              !.uint = @ \/ iCode = "UINT", !.rdy = FALSE]

AdcBuf(r, iRBufCfg) == [r EXCEPT !.set.extbuf = iRBufCfg]
AdcPin(r, pins)     == [r EXCEPT !.set.pins = pins]
AdcRd(r)            == [r EXCEPT !.rdy = FALSE]

Iexc(r, iIDAT, iPinsel) == [r EXCEPT !.set = [@ EXCEPT !.idat = iIDAT, !.iexc = iPinsel]]

--------------------------------------------------------------------------------
(* DmaLib.                                                                 *)

\* (mutant) requests are not masked
DmaSet_open(r) == [r EXCEPT !.enabled = TRUE]

DmaSet(r) == [r EXCEPT !.masked = TRUE, !.enabled = TRUE]

\* (mutant) requests stay masked
DmaClr_not(r) == r

(* A request that is waiting when the mask goes meets a descriptor that is *)
(* used up, which disables the channel.                                    *)
DmaClr(r) == [r EXCEPT !.masked = FALSE, !.enabled = @ /\ ~(r.rdy /\ r.left = 0)]

\* (mutant) n_minus_1 is written without the 1
DmaCycleCntCtrl_n(r) == [r EXCEPT !.left = SampleLen - 1]

DmaCycleCntCtrl(r) == [r EXCEPT !.left = SampleLen]

\* The whole descriptor: also where the values go.
AdcDmaReadSetup(r) == [r EXCEPT !.left = SampleLen]

--------------------------------------------------------------------------------
(* The commands.                                                           *)

\* ADC1_Switch_to_RTD, _RHS and _PrsSensor
Switch(r, c) ==
    CASE c = "RTD" -> AdcRng(AdcPin(AdcBuf(Iexc(r, 50, "AIN5"), TRUE), "AIN6-AIN7"),
                             "EXTREF2", 16, "UINT")
      [] c = "RHS" -> AdcRng(AdcPin(AdcBuf(Iexc(r, 0, "off"), FALSE), "AIN2-AGND"),
                             "INTREF", 1, "UINT")
      [] c = "PRS" -> AdcRng(AdcPin(AdcBuf(Iexc(r, 400, "AIN4"), FALSE), "AIN0-AIN1"),
                             "INTREF", 8, "INT")

\* ADC1_StartRTD_ADC, _RHS_ADC and _PRS_ADC
StartAdc(r, c) == AdcGo(DmaCycleCntCtrl(DmaClr(Switch(r, c))), "CONT")

\* ADC0_GetSglADC_RTD and _RHS, up to the wait; the latter leaves the excitation.
Single(r, c) ==
    LET idle == AdcGo(r, "IDLE")
    IN AdcGo(IF c = "RTD"
             THEN AdcRng(AdcPin(AdcBuf(Iexc(idle, 50, "AIN5"), TRUE), "AIN6-AIN7"),
                         "EXTREF2", 16, "UINT")
             ELSE AdcRng(AdcPin(AdcBuf(idle, FALSE), "AIN2-AGND"), "INTREF", 1, "UINT"),
             "SINGLE")

AD_DMAINIT(r) == [r EXCEPT !.enabled = TRUE]
ADC1_Init(r)  == AdcDmaReadSetup(AdcGo(r, "IDLE"))

\* _drv_devopen, after a reset; the first value of mode is ADCMDE_ADCMD_OFF, as good as idle.
Opened ==
    ADC1_Init(AD_DMAINIT([set |-> Unset, uint |-> FALSE, mode |-> "IDLE", rdy |-> FALSE,
                          masked |-> FALSE, enabled |-> FALSE, left |-> 0,
                          data |-> [i \in 1 .. SampleLen |-> Unset]]))

\* DMA_ADC1_Int_Handler
Handled(r) == DmaSet(AdcGo(r, "IDLE"))

--------------------------------------------------------------------------------
(* What the converter and the DMA controller do: a conversion ends, and    *)
(* its value is taken to memory, or waits for someone to read it.  With    *)
(* the last one the channel is disabled, and its interrupt raised.         *)

Transfers(r) == ~r.masked /\ r.enabled /\ r.left > 0
Last(r)      == Transfers(r) /\ r.left = 1

Converted(r) ==
    LET done == [r EXCEPT !.mode = IF @ = "SINGLE" THEN "IDLE" ELSE @]
    IN IF Transfers(r)
       THEN [done EXCEPT !.data[SampleLen + 1 - r.left] = r.set, !.left = @ - 1,
                         !.enabled = ~Last(r), !.rdy = FALSE]
       ELSE [done EXCEPT !.rdy = TRUE, !.enabled = @ /\ (r.masked \/ r.left > 0)]
================================================================================
