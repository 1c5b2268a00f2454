----------------------------- MODULE AdcFilter -------------------------------
(***************************************************************************)
(* From sixteen conversions to one value of the humidity: the average that *)
(* the AD driver takes when it is read (bsp/driver/ad/drv_ad.cpp), the     *)
(* moving average without its extremes, and the low-pass filter after it   *)
(* (app/ad.cpp).  Temperature and pressure end with the second.            *)
(*                                                                         *)
(* The code computes in floats; here the numbers are integers, and a       *)
(* quotient is kept as its numerator, so nothing is rounded.  A local      *)
(* variable that is read before it is written may hold anything in Stack.  *)
(***************************************************************************)
EXTENDS Integers, Sequences, SequencesExt, FiniteSetsExt

CONSTANTS SampleLen,    \* def_AD_SAMPLE_LEN
          RecordLen,    \* def_RECORD_LEN
          ChangeLimit,  \* CHANG_LIMIT
          Slope, Far,   \* 50000 and 800000 of RapidLPFilter
          Conversions,  \* what the converter may yield
          Stack         \* what an uninitialised variable may hold, in the unit it is used in

AdcFilterAssumption ==
    /\ SampleLen \in Nat \ {0} /\ RecordLen \in Nat \ 0 .. 2 /\ ChangeLimit \in Nat
    /\ Slope \in Nat \ {0} /\ Far = 16 * Slope
    /\ Conversions \subseteq Int /\ Stack \subseteq Int

\* Averages come in SampleLen-ths, the moving average in Kept-ths of these.
Kept   == RecordLen - 2
Scale  == SampleLen * Kept
Record == 0 .. RecordLen - 1

\* Half of the divisor, as one adds it to integers.
Rounding == (Kept \div 2) * SampleLen

VARIABLES fADCRHS,              \* the samples before, the latest first
          cRLPFRatioChangeNum,  \* how long it has been going up, or down
          value,                \* history: the filtered value, in 16ths of Scale-ths,
          combined, previous,   \* what RapidLPFilter was given, in Scale-ths,
          window                \* and the averages combined is over

vars == <<fADCRHS, cRLPFRatioChangeNum, value, combined, previous, window>>

Init ==
    /\ fADCRHS = [i \in Record |-> 0] /\ cRLPFRatioChangeNum = 0
    /\ value = 0 /\ combined = Rounding /\ previous = 0
    /\ window = [i \in 1 .. RecordLen |-> 0]

Total(s) == FoldLeft(+, 0, s)

\* The sum goes on from wherever fVal stands.
GetAvarageValue(iAry, fVal) == fVal + Total(iAry)

\* The queue before this sample: one of zeros is filled with the sample.
Filled(fADC) == IF fADCRHS[0] = 0 THEN [i \in Record |-> fADC] ELSE [fADCRHS EXCEPT ![0] = fADC]

\* (mutant) the queue moves up from the wrong end
Shifted_through(fAry) == [i \in Record |-> fAry[0]]

Shifted(fAry) == [i \in Record |-> IF i = 0 THEN fAry[0] ELSE fAry[i - 1]]

Extremes(all) == Max(all) + Min(all)

\* CombiFilter, over the queue with the sample in front.
CombiFilter(fAry) ==
    Total([i \in 1 .. RecordLen |-> fAry[i - 1]]) - Extremes({fAry[i] : i \in Record})
        + Rounding

Distance(a, b) == IF a < b THEN b - a ELSE a - b

\* (mutant) the ratio is not limited
Ratio_unlimited(fDelta) == fDelta \div (Slope * Scale) + 1

\* 16 is all the way.
Ratio(fDelta) == Min({fDelta \div (Slope * Scale) + 1, 16})

\* (mutant) one too many
Counted_over(n, dir) == IF dir * n < 0 THEN 0 ELSE IF dir * n > ChangeLimit THEN n ELSE n + dir

\* A turn starts from nothing; the count stops at the limit.
Counted(n, dir) == IF dir * n < 0 THEN 0 ELSE IF dir * n >= ChangeLimit THEN n ELSE n + dir

\* RapidLPFilter: the value it returns and the count it leaves.
Passed(fNewVal, fPreVal, n) ==
    LET fDelta == Distance(fNewVal, fPreVal)
        dir    == IF fNewVal > fPreVal THEN 1 ELSE -1
        ratio  == IF dir * n >= ChangeLimit THEN Ratio(fDelta) ELSE 1
    IN  IF fNewVal = 0 \/ fDelta = 0 \/ fDelta > Far * Scale
          THEN [value |-> 16 * fNewVal, num |-> n]
          ELSE [value |-> 16 * fPreVal + ratio * (fNewVal - fPreVal),
                num   |-> Counted(n, dir)]

\* The filter of the humidity, with the previous value from a local variable nobody sets.
ADC1_GetADC_RHS(fAry, fPreRHSADCVal) ==
    Passed(CombiFilter(fAry), fPreRHSADCVal, cRLPFRatioChangeNum)

\* The device is read: _drv_devread, then process_command of device_ad.
Read ==
    \E iAry \in [1 .. SampleLen -> Conversions], fVal \in Stack, fPreRHSADCVal \in Stack :
        LET fadc == GetAvarageValue(iAry, fVal)
            fAry == Filled(fadc)
            rhs  == ADC1_GetADC_RHS(fAry, fPreRHSADCVal)
        IN  /\ fADCRHS' = Shifted(fAry)
            /\ value' = rhs.value /\ cRLPFRatioChangeNum' = rhs.num
            /\ combined' = CombiFilter(fAry) /\ previous' = fPreRHSADCVal
            /\ window' = IF fADCRHS[0] = 0 THEN [i \in 1 .. RecordLen |-> fadc]
                                           ELSE SubSeq(<<fadc>> \o window, 1, RecordLen)

Next == Read

Spec == Init /\ [][Next]_vars

--------------------------------------------------------------------------------
(* Properties.                                                             *)

TypeOK ==
    /\ fADCRHS \in [Record -> Int]
    /\ cRLPFRatioChangeNum \in -ChangeLimit .. ChangeLimit
    /\ window \in Seq(Int) /\ Len(window) = RecordLen
    /\ {value, combined, previous} \subseteq Int

(* CombiFilter shifts the queue in the loop that sums it up.  What it      *)
(* yields is the sum of the last RecordLen averages without the largest    *)
(* and the smallest, each of them once, and half a unit on top; the        *)
(* averages of before a zero do not count.                                 *)
IsTrimmed ==
    combined = Total(SubSeq(SortSeq(window, <), 2, RecordLen - 1)) + Rounding

(* RapidLPFilter moves from the previous value towards the new one, by     *)
(* sixteenths, and never past it, however far they are apart.              *)
NoOvershoot ==
    value \in 16 * Min({previous, combined}) .. 16 * Max({previous, combined})
================================================================================
