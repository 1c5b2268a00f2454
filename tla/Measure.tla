-------------------------------- MODULE Measure --------------------------------
(***************************************************************************)
(* The measurement chain and the self-calibration that interrupts it:      *)
(* event_handle_ad and self_calib_handle (app/main.cpp), device_ad         *)
(* (app/ad.cpp) and the AD driver with its DMA interrupt                   *)
(* (bsp/driver/ad/drv_ad.cpp).                                             *)
(*                                                                         *)
(* Each pass of the event loop polls the AD and the timer channel once and *)
(* then serves the ready ones, the timer first: what the AD handler finds  *)
(* may differ from what the poll saw.  The DMA interrupt and the           *)
(* calibration timer come between any two steps of the foreground.  A      *)
(* sample is a record of how it was converted, not a number.               *)
(***************************************************************************)
EXTENDS Naturals

VARIABLES adc_stat,     \* the driver's state
          m_ioc,        \* device_ad: the last command, which selects the scale
          conv,         \* the conversion in uxADC1Data, finished or not
          meas_on,      \* PWM_IOC_MEASURE_ON or _OFF
          heat_high,    \* the heater pin, steady high or pulsed
          ucSensorRunMode, ucADC1RunStus,
          m_ucCalibRecordTimes,
          m_stuSensorData,      \* the samples the datum was computed from
          due,          \* the calibration timer has expired
          active,       \* ready channels of this pass, not yet served
          pc,
          got,          \* what reading the AD device has returned
          round         \* history: rounds of measurement begun, modulo 3

analog == <<meas_on, heat_high>>
app    == <<ucSensorRunMode, ucADC1RunStus, m_ucCalibRecordTimes, m_stuSensorData>>
vars   == <<adc_stat, m_ioc, conv, analog, app, due, active, pc, got, round>>

Channels == {"RTD", "RHS", "PRS"}
Samples  == [chan : Channels \cup {"none", "garbage"}, clean : BOOLEAN, round : 0 .. 2]
\* No byte was read; bytes that no conversion produced.
Empty    == [chan |-> "none", clean |-> FALSE, round |-> 0]
Garbage  == [chan |-> "garbage", clean |-> FALSE, round |-> 0]
Stages   == {"ADC_T", "CALC_T", "CALC_RH", "CALC_P", "CALC_D", "CALC_PPM", "CALC_DEW"}

TypeOK ==
    /\ adc_stat \in {"NONE", "READABLE", "READABLE_FAKE", "IN_PROCESSING"}
    /\ m_ioc \in Channels \cup {"FAKE", "GET_SGL"}
    /\ conv \in Samples
    /\ meas_on \in BOOLEAN /\ heat_high \in BOOLEAN
    /\ ucSensorRunMode \in {"MEASURE", "WASH", "CALIB"}
    /\ ucADC1RunStus \in Stages
    /\ m_ucCalibRecordTimes \in 0 .. 9
    /\ m_stuSensorData \in [Channels -> Samples]
    /\ due \in BOOLEAN
    /\ active \subseteq {"timer", "ad"}
    /\ pc \in {"poll", "timer", "rtd", "rhs", "read", "handle"}
    /\ got \in Samples
    /\ round \in 0 .. 2

\* application::run, up to the event loop.
Init ==
    /\ adc_stat = "READABLE_FAKE" /\ m_ioc = "FAKE" /\ conv = Garbage
    /\ meas_on = TRUE /\ heat_high = TRUE
    /\ ucSensorRunMode = "MEASURE" /\ ucADC1RunStus = "ADC_T"
    /\ m_ucCalibRecordTimes = 0
    /\ m_stuSensorData = [c \in Channels |-> Empty]
    /\ due = FALSE /\ active = {} /\ pc = "poll" /\ got = Empty /\ round = 0

--------------------------------------------------------------------------------
(* Interrupts.                                                             *)

\* DMA_ADC1_Int_Handler: sixteen conversions are in memory.
AdcDone ==
    /\ adc_stat = "IN_PROCESSING"
    /\ adc_stat' = "READABLE"
    /\ UNCHANGED <<m_ioc, conv, analog, app, due, active, pc, got, round>>

\* The calibration timer is not armed while its own callback runs.
Expire ==
    /\ ~due /\ pc \notin {"timer", "rtd", "rhs"}
    /\ due' = TRUE
    /\ UNCHANGED <<adc_stat, m_ioc, conv, analog, app, active, pc, got, round>>

--------------------------------------------------------------------------------
(* AD commands.                                                            *)

Clean == meas_on' /\ heat_high'

\* AD_IOC_START_xxx_ADC
Start(c) ==
    /\ m_ioc' = c
    /\ adc_stat' = "IN_PROCESSING"
    /\ conv' = [chan |-> c, clean |-> Clean, round |-> round']

\* AD_IOC_FAKE_READABLE: have the handler called again without a conversion.
FakeReadable ==
    /\ m_ioc' = "FAKE"
    /\ adc_stat' = IF adc_stat = "NONE" THEN "READABLE_FAKE" ELSE adc_stat
    /\ UNCHANGED conv

--------------------------------------------------------------------------------
(* The foreground.                                                         *)

AfterTimer == IF "ad" \in active THEN "read" ELSE "poll"

Poll ==
    /\ pc = "poll"
    /\ active' = (IF due THEN {"timer"} ELSE {})
                 \cup (IF adc_stat \in {"READABLE", "READABLE_FAKE"} THEN {"ad"} ELSE {})
    /\ active' # {}
    /\ pc' = IF due THEN "timer" ELSE "read"
    /\ UNCHANGED <<adc_stat, m_ioc, conv, analog, app, due, got, round>>

\* The callback returns and the timer is armed again.
LeaveCallback == due' = FALSE /\ pc' = AfterTimer

\* self_calib_handle, MODE_MEASURE_PARA: heat the sensor clean.
CalibWash ==
    /\ pc = "timer" /\ ucSensorRunMode = "MEASURE"
    /\ meas_on' = FALSE /\ heat_high' = FALSE
    /\ conv' = IF adc_stat = "IN_PROCESSING" THEN [conv EXCEPT !.clean = FALSE] ELSE conv
    /\ ucSensorRunMode' = "WASH"
    /\ LeaveCallback
    /\ UNCHANGED <<adc_stat, m_ioc, ucADC1RunStus, m_ucCalibRecordTimes, m_stuSensorData,
                   active, got, round>>

\* (mutant) the counter of the last calibration is kept
CalibFirst_no_reset ==
    /\ pc = "timer" /\ ucSensorRunMode = "WASH"
    /\ meas_on' = TRUE /\ heat_high' = TRUE
    /\ pc' = "rtd"
    /\ UNCHANGED <<adc_stat, m_ioc, conv, ucSensorRunMode, ucADC1RunStus, m_stuSensorData,
                   m_ucCalibRecordTimes, due, active, got, round>>

\* MODE_SENSOR_WASH: the first record.
CalibFirst ==
    /\ pc = "timer" /\ ucSensorRunMode = "WASH"
    /\ meas_on' = TRUE /\ heat_high' = TRUE
    /\ m_ucCalibRecordTimes' = 0
    /\ pc' = "rtd"
    /\ UNCHANGED <<adc_stat, m_ioc, conv, ucSensorRunMode, ucADC1RunStus, m_stuSensorData,
                   due, active, got, round>>

\* (mutant) only the gap grows, the times are not counted
CalibWait_no_count ==
    /\ pc = "timer" /\ ucSensorRunMode = "CALIB" /\ m_ucCalibRecordTimes < 8
    /\ LeaveCallback
    /\ UNCHANGED <<adc_stat, m_ioc, conv, analog, app, active, got, round>>

\* MODE_CALIB_HUMI, up to the eighth time: wait twice as long as before.
CalibWait ==
    /\ pc = "timer" /\ ucSensorRunMode = "CALIB" /\ m_ucCalibRecordTimes < 8
    /\ m_ucCalibRecordTimes' = m_ucCalibRecordTimes + 1
    /\ LeaveCallback
    /\ UNCHANGED <<adc_stat, m_ioc, conv, analog, ucSensorRunMode, ucADC1RunStus,
                   m_stuSensorData, active, got, round>>

\* ... and the last record.
CalibLast ==
    /\ pc = "timer" /\ ucSensorRunMode = "CALIB" /\ m_ucCalibRecordTimes >= 8
    /\ m_ucCalibRecordTimes' = m_ucCalibRecordTimes + 1
    /\ pc' = "rtd"
    /\ UNCHANGED <<adc_stat, m_ioc, conv, analog, ucSensorRunMode, ucADC1RunStus,
                   m_stuSensorData, due, active, got, round>>

\* AD_IOC_GET_SGL_xxx_ADC spins while a conversion runs, then drops its sample.
GetSgl == adc_stat # "IN_PROCESSING" /\ adc_stat' = "NONE" /\ m_ioc' = "GET_SGL"

RecordTemp ==
    /\ pc = "rtd" /\ GetSgl
    /\ pc' = "rhs"
    /\ UNCHANGED <<conv, analog, app, due, active, got, round>>

RecordRhs ==
    /\ pc = "rhs" /\ GetSgl
    /\ ucSensorRunMode' = IF ucSensorRunMode = "WASH" THEN "CALIB" ELSE "MEASURE"
    /\ LeaveCallback
    /\ UNCHANGED <<conv, analog, ucADC1RunStus, m_ucCalibRecordTimes, m_stuSensorData,
                   active, got, round>>

\* device_ad::read scales by m_ioc; with a stale state it passes on garbage.
ReadAd ==
    /\ pc = "read"
    /\ adc_stat' = "NONE"
    /\ got' = CASE adc_stat \in {"NONE", "READABLE_FAKE"} /\ m_ioc = "FAKE" -> Empty
                [] adc_stat \in {"READABLE", "IN_PROCESSING"} /\ conv.chan = m_ioc -> conv
                [] OTHER -> Garbage
    /\ active' = {}
    /\ pc' = "handle"
    /\ UNCHANGED <<m_ioc, conv, analog, app, due, round>>

\* (mutant) samples are taken in every mode
Ignored_never == FALSE

\* event_handle_ad works in measure mode only.
Ignored == ucSensorRunMode # "MEASURE"

HandleIgnored ==
    /\ pc = "handle" /\ Ignored
    /\ pc' = "poll"
    /\ UNCHANGED <<adc_stat, m_ioc, conv, analog, app, due, active, got, round>>

Handling(stage) == pc = "handle" /\ ~Ignored /\ ucADC1RunStus = stage
Stage(next) == ucADC1RunStus' = next /\ pc' = "poll"
Store(c) == m_stuSensorData' = [m_stuSensorData EXCEPT ![c] = got]
HandleFrame == UNCHANGED <<ucSensorRunMode, m_ucCalibRecordTimes, due, active, got>>

\* ADC_T, once: switch the analog part on and begin the first round.
HandleFirst ==
    /\ Handling("ADC_T")
    /\ IF got = Empty THEN meas_on' = TRUE /\ heat_high' = TRUE ELSE UNCHANGED analog
    /\ Stage("CALC_T") /\ round' = (round + 1) % 3 /\ Start("RTD")
    /\ UNCHANGED m_stuSensorData /\ HandleFrame

\* Each of the three samples is stored and the next conversion started ...
HandleTemp ==
    /\ Handling("CALC_T")
    /\ Store("RTD") /\ Stage("CALC_RH") /\ UNCHANGED <<analog, round>> /\ Start("RHS")
    /\ HandleFrame

HandleHumi ==
    /\ Handling("CALC_RH")
    /\ Store("RHS") /\ Stage("CALC_P") /\ UNCHANGED <<analog, round>> /\ Start("PRS")
    /\ HandleFrame

HandlePres ==
    /\ Handling("CALC_P")
    /\ Store("PRS") /\ Stage("CALC_D") /\ UNCHANGED <<analog, round>> /\ FakeReadable
    /\ HandleFrame

\* ... density, ppm and dew point are computed from them, then it starts over.
HandleCalc ==
    /\ \/ Handling("CALC_D") /\ Stage("CALC_PPM")
       \/ Handling("CALC_PPM") /\ Stage("CALC_DEW")
    /\ FakeReadable
    /\ UNCHANGED <<analog, round, m_stuSensorData>> /\ HandleFrame

HandleDew ==
    /\ Handling("CALC_DEW")
    /\ Stage("CALC_T") /\ round' = (round + 1) % 3 /\ UNCHANGED analog /\ Start("RTD")
    /\ UNCHANGED m_stuSensorData /\ HandleFrame

Calibrate == CalibWash \/ CalibFirst \/ CalibWait \/ CalibLast \/ RecordTemp \/ RecordRhs
HandleAd == \/ HandleIgnored \/ HandleFirst \/ HandleTemp \/ HandleHumi \/ HandlePres
            \/ HandleCalc \/ HandleDew
Foreground == Poll \/ Calibrate \/ ReadAd \/ HandleAd

Next == AdcDone \/ Expire \/ Foreground

Spec == Init /\ [][Next]_vars

(* The ADC finishes what it has started and the event loop runs for ever.  *)
FairSpec == Spec /\ WF_vars(AdcDone) /\ WF_vars(Foreground)

--------------------------------------------------------------------------------
(* Properties.                                                             *)

Fresh(c) == m_stuSensorData[c] = [chan |-> c, clean |-> TRUE, round |-> round]

(* What the density is computed from belongs together: by the time a stage *)
(* of event_handle_ad uses a sample, it is this round's, of its own        *)
(* channel, and converted from start to end with the drive on and the      *)
(* heater pin steady, whenever the calibration timer came in between.      *)
SamplesSound ==
    /\ ucADC1RunStus \in Stages \ {"ADC_T", "CALC_T"} => Fresh("RTD")
    /\ ucADC1RunStus \in Stages \ {"ADC_T", "CALC_T", "CALC_RH"} => Fresh("RHS")
    /\ ucADC1RunStus \in {"CALC_D", "CALC_PPM", "CALC_DEW"} => Fresh("PRS")

(* A self-calibration that has begun ends, as long as its timer goes on    *)
(* expiring; its busy wait for the converter does too.                     *)
CalibrationEnds == []<>due => (ucSensorRunMode = "WASH" ~> ucSensorRunMode = "MEASURE")

(* Until the first self-calibration, which may be never, the sensor keeps  *)
(* measuring: each stage leads to the next and the last one to a new round. *)
Uncalibrated == ucSensorRunMode = "MEASURE" /\ m_ucCalibRecordTimes = 0
KeepsMeasuring ==
    \A r \in 0 .. 2 :
      (Uncalibrated /\ round = r) ~> (~Uncalibrated \/ round # r)

(* main.cpp:483, "Switch to normal measure": in measure mode the chain is  *)
(* running; a conversion, a sample or a fake event is there for the loop.  *)
NormalMeasure == ucSensorRunMode = "MEASURE" /\ pc = "poll" => adc_stat # "NONE"
================================================================================
