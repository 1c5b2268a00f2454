----------------------------- MODULE MeasureDrive -----------------------------
(***************************************************************************)
(* The measurement chain with the registers behind it: Measure, and with   *)
(* each of its steps the commands that the handler gives on the way to the *)
(* driver of the pins and to the converter (app/main.cpp).  Measure knows  *)
(* no more than meas_on, heat_high and a conversion that is in process;    *)
(* here the pins are registers, and a conversion is a block of values that *)
(* the DMA controller takes to memory one by one.                          *)
(***************************************************************************)
EXTENDS Measure, Sequences

CONSTANT SampleLen   \* def_AD_SAMPLE_LEN

MeasureDriveAssumption == SampleLen \in Nat \ {0}

P == INSTANCE Pwm
A == INSTANCE AdcDma

VARIABLES pwm,       \* the registers of the pins and of the PWM
          adc,       \* the registers of ADC1 and of its DMA channel
          raised,    \* the interrupt of the DMA channel is pending
          single     \* AD_IOC_GET_SGL_xxx_ADC waits for its conversion

registers == <<pwm, adc, raised, single>>

HeatFreq == 100
HeatDuty == 25

\* event_handle_ad, ADC_T
Begin(r) == P!Heat(P!Heat(r, "MEASURE_ON", 0), "FORCE_H", 0)

\* self_calib_handle, MODE_MEASURE_PARA
Wash(r) ==
    P!Heat(P!Heat(P!Heat(r, "MEASURE_OFF", 0), "FREQ", HeatFreq), "DUTY_CYCLE", HeatDuty)

\* (mutant) the drive is left off
Washed_off(r) == P!Heat(r, "FORCE_H", 0)

\* self_calib_handle, MODE_SENSOR_WASH
Washed(r) == P!Heat(P!Heat(r, "FORCE_H", 0), "MEASURE_ON", 0)

DriveInit == Init /\ pwm = P!Opened /\ adc = A!Opened /\ raised = FALSE /\ single = FALSE

--------------------------------------------------------------------------------
(* The foreground: each step of Measure with its commands.                 *)

Unconverted == UNCHANGED <<adc, raised, single>>
Started(c) == adc' = A!StartAdc(adc, c) /\ UNCHANGED <<raised, single>>

\* A single conversion is begun, which no more than sets registers ...
SingleBegin ==
    /\ pc \in {"rtd", "rhs"} /\ adc_stat # "IN_PROCESSING" /\ ~single
    /\ adc' = A!Single(adc, IF pc = "rtd" THEN "RTD" ELSE "RHS")
    /\ single' = TRUE
    /\ UNCHANGED <<vars, pwm, raised>>

\* ... and waited for.
SingleEnd ==
    /\ single /\ adc.rdy
    /\ RecordTemp \/ RecordRhs
    /\ adc' = A!AdcRd(adc) /\ single' = FALSE
    /\ UNCHANGED <<pwm, raised>>

DriveForeground ==
    \/ /\ HandleFirst /\ Started("RTD")
       /\ pwm' = IF got = Empty THEN Begin(pwm) ELSE pwm
    \/ HandleDew  /\ Started("RTD") /\ UNCHANGED pwm
    \/ HandleTemp /\ Started("RHS") /\ UNCHANGED pwm
    \/ HandleHumi /\ Started("PRS") /\ UNCHANGED pwm
    \/ CalibWash  /\ pwm' = Wash(pwm) /\ Unconverted
    \/ CalibFirst /\ pwm' = Washed(pwm) /\ Unconverted
    \/ SingleBegin \/ SingleEnd
    \/ /\ Poll \/ CalibWait \/ CalibLast \/ ReadAd \/ HandleIgnored \/ HandlePres \/ HandleCalc
       /\ UNCHANGED pwm /\ Unconverted

--------------------------------------------------------------------------------
(* Interrupts.                                                             *)

\* A conversion ends.
Convert ==
    /\ adc.mode # "IDLE"
    /\ adc' = A!Converted(adc)
    /\ raised' = (raised \/ A!Last(adc))
    /\ UNCHANGED <<vars, pwm, single>>

\* DMA_ADC1_Int_Handler: Measure's AdcDone, if a conversion is in process.
DmaDone ==
    /\ raised /\ raised' = FALSE
    /\ adc' = A!Handled(adc)
    /\ adc_stat' = "READABLE"
    /\ UNCHANGED <<m_ioc, conv, analog, app, due, active, pc, got, round, pwm, single>>

\* The calibration timer runs a minute at first, and the first pass is over by then.
DriveExpire == ucADC1RunStus # "ADC_T" /\ Expire /\ UNCHANGED registers

DriveNext == DriveForeground \/ Convert \/ DmaDone \/ DriveExpire

DriveSpec == DriveInit /\ [][DriveNext]_<<vars, registers>>

--------------------------------------------------------------------------------
(* Properties.                                                             *)

DriveTypeOK ==
    /\ TypeOK /\ pwm \in P!Registers /\ raised \in BOOLEAN /\ single \in BOOLEAN
    /\ adc \in A!Registers /\ Len(adc.data) = SampleLen

(* The pins do what the handlers take them to do: drive on and heater      *)
(* steady whenever a sample is to be clean, however often the pin has been *)
(* lent to the PWM for a wash and taken back.                              *)
PinsFollow == meas_on = P!Measuring(pwm) /\ heat_high = P!HeatHigh(pwm)

(* The way each channel is converted, whatever was converted before it.    *)
Proper ==
    [c \in Channels |->
       CASE c = "RTD" -> [pins |-> "AIN6-AIN7", ref |-> "EXTREF2", gain |-> 16, extbuf |-> TRUE,
                          idat |-> 50, iexc |-> "AIN5"]
         [] c = "RHS" -> [pins |-> "AIN2-AGND", ref |-> "INTREF", gain |-> 1, extbuf |-> FALSE,
                          idat |-> 0, iexc |-> "off"]
         [] c = "PRS" -> [pins |-> "AIN0-AIN1", ref |-> "INTREF", gain |-> 8, extbuf |-> FALSE,
                          idat |-> 400, iexc |-> "AIN4"]]

(* What the driver calls readable was converted, from the first value to   *)
(* the last, with all the settings of the channel that was asked for; and  *)
(* it calls a conversion in process just as long as values may still       *)
(* arrive, so that no value is ever written over one that is being read,   *)
(* and a single conversion never has to share the converter.               *)
BlockSound ==
    /\ adc_stat = "READABLE" => \A i \in 1 .. SampleLen : adc.data[i] = Proper[conv.chan]
    /\ adc_stat = "IN_PROCESSING" <=> adc.mode = "CONT" \/ raised
    /\ single => adc.masked

(* drv_ad.cpp:188, "Signed integer output": the pressure, which is taken   *)
(* between two inputs, is converted with its sign.                         *)
PressureSigned == adc.mode = "CONT" /\ adc.set.pins = "AIN0-AIN1" => ~adc.uint

(* main.cpp:429, "HEAT : HIGH_OFF  ON:75%": while the sensor is being      *)
(* washed the heater is pulsed, at the frequency and the duty asked for.   *)
WashHeats ==
    ucSensorRunMode = "WASH" /\ pc = "poll" =>
        pwm.LEN["HEAT"] = HeatFreq /\ pwm.COM1["HEAT"] = HeatDuty
================================================================================
