------------------------------ MODULE Calendar -------------------------------
(***************************************************************************)
(* The two conversions of the time library (api/timestamp.cpp): gmtime_r,  *)
(* with which the log writes its dates, and mktime, which makes the wall   *)
(* clock start at the date of the build.                                   *)
(*                                                                         *)
(* A time is a day since 1970 and a second of that day, which is where     *)
(* both begin and end.  The fields of a date are in range, as strptime and *)
(* gmtime_r leave them, so the carries of mktime have nothing to do.       *)
(***************************************************************************)
EXTENDS Integers, FiniteSets, FiniteSetsExt

CONSTANTS Starts,   \* days from which the clock runs
          Span,     \* and for how many
          Seconds   \* of the day, at which it is read

CalendarAssumption ==
    /\ Starts \subseteq Nat /\ Span \in Nat
    /\ Seconds \subseteq 0 .. 86399

VARIABLES start, timep

vars == <<start, timep>>

\* (mutant) every fourth year is a leap year
isleap_4(year) == year % 4 = 0

isleap(year) == year % 4 = 0 /\ (year % 100 # 0 \/ year % 400 = 0)

\* The days before each month of a year of 365.
spm == <<0, 31, 59, 90, 120, 151, 181, 212, 243, 273, 304, 334>>

\* Months count from 0.
Before(mon) == spm[mon + 1]

\* The lengths of the years before, which gmtime_r takes off one by one.
DaysTo(year) == (year - 1970) * 365 + Cardinality({y \in 1970 .. year - 1 : isleap(y)})

\* The year where less than a year is left, and the day in it.
YearAndDay(day) ==
    LET year == CHOOSE y \in 1970 + day \div 366 .. 1970 + day \div 365 :
                    DaysTo(y) <= day /\ day < DaysTo(y + 1)
    IN  [year |-> year, yday |-> day - DaysTo(year)]

\* (mutant) the end of a month is in the next
MonthOf_next(work) == Max({mon \in 0 .. 11 : Before(mon) <= work + 1})

MonthOf(work) == Max({mon \in 0 .. 11 : Before(mon) <= work})

\* From February 29 on a leap year is a day behind the table.
gmtime_r(t) ==
    LET y    == YearAndDay(t.day)
        leap == isleap(y.year) /\ y.yday > 58
        work == IF leap THEN y.yday - 1 ELSE y.yday
        mon  == MonthOf(work)
    IN  [year |-> y.year - 1900, mon |-> mon,
         mday |-> 1 + (IF leap /\ y.yday = 59 THEN 1 ELSE 0) + work - Before(mon),
         hour |-> t.sec \div 3600, min |-> (t.sec \div 60) % 60, sec |-> t.sec % 60,
         wday |-> (4 + t.day) % 7, yday |-> y.yday]

\* (mutant) 2400 is taken for a year like 2300
CenturyDays_all(years) == IF years >= 131 THEN (years - 131) \div 100 + 1 ELSE 0

\* What the rule of four counts too many from 2100 on; a fourth century is right.
CenturyDays(years) ==
    LET n == (years - 131) \div 100
    IN  IF years < 131 THEN 0
        ELSE (n \div 4) * 3 + 1 + (IF n % 4 = 3 THEN 2 ELSE n % 4)

yday(tm) == Before(tm.mon) + tm.mday - 1
                + (IF isleap(tm.year + 1900) /\ tm.mon > 1 THEN 1 ELSE 0)

mktime(tm) ==
    LET years == tm.year - 70
    IN  [day |-> years * 365 + (years + 1) \div 4 - CenturyDays(years) + yday(tm),
         sec |-> (tm.hour * 60 + tm.min) * 60 + tm.sec]

\* mktime puts the day of the week into the date.
wday(tm) == (mktime(tm).day + 4) % 7

Init == /\ start \in Starts
        /\ timep \in [day : {start}, sec : Seconds]

\* The clock is read again a day later.
Pass == /\ timep.day < start + Span
        /\ \E sec \in Seconds : timep' = [day |-> timep.day + 1, sec |-> sec]
        /\ UNCHANGED start

Next == Pass

Spec == Init /\ [][Next]_vars

--------------------------------------------------------------------------------
(* Properties.                                                             *)

\* The days of a month, as everyone knows them.
MonthLength(year, mon) ==
    CASE mon \in {3, 5, 8, 10} -> 30
      [] mon = 1 -> IF (year % 4 = 0 /\ year % 100 # 0) \/ year % 400 = 0 THEN 29 ELSE 28
      [] OTHER -> 31

Date(tm) == <<tm.year + 1900, tm.mon, tm.mday>>

Tomorrow(d) ==
    IF d[3] < MonthLength(d[1], d[2]) THEN <<d[1], d[2], d[3] + 1>>
    ELSE IF d[2] < 11 THEN <<d[1], d[2] + 1, 1>>
    ELSE <<d[1] + 1, 0, 1>>

\* The fields of a date stay in their ranges.
TypeOK ==
    LET tm == gmtime_r(timep)
    IN  /\ timep \in [day : Nat, sec : Seconds] /\ start \in Starts
        /\ tm.mon \in 0 .. 11 /\ tm.mday \in 1 .. 31 /\ tm.yday \in 0 .. 365
        /\ tm.hour \in 0 .. 23 /\ tm.min \in 0 .. 59 /\ tm.sec \in 0 .. 59

(* The two conversions use different rules for leap years, one by adding   *)
(* up years and one by a formula with centuries: mktime gives back the     *)
(* time of every date that gmtime_r makes, and the day of the week.        *)
RoundTrip == LET tm == gmtime_r(timep)
             IN  mktime(tm) = timep /\ yday(tm) = tm.yday /\ wday(tm) = tm.wday

(* gmtime_r counts the days of the calendar one after another: months      *)
(* have their lengths, and February 29 comes in its years and only there.  *)
DayByDay ==
    Date(gmtime_r([timep EXCEPT !.day = @ + 1])) = Tomorrow(Date(gmtime_r(timep)))
================================================================================
