-------------------------------- MODULE Strptime --------------------------------
(***************************************************************************)
(* strptime (api/timestamp.cpp), from which the wall clock gets the date   *)
(* of the build: main.cpp reads what the compiler writes for __DATE__ and  *)
(* __TIME__ with "%b %d %Y %H:%M:%S".                                       *)
(*                                                                         *)
(* A directive is <<modifier, letter>>, a character of the format that is  *)
(* none is <<"lit", character>>.  A text is a sequence of characters in    *)
(* which the abbreviation of a name and the rest of it are one character   *)
(* each; upper and lower case are the same.                                *)
(***************************************************************************)
EXTENDS Integers, Sequences, SequencesExt, FiniteSetsExt

CONSTANTS Starts, Span, Seconds,   \* of Calendar
          Formats                  \* how a text is written, and how it is read

VARIABLES start, timep,            \* Calendar: the time the text tells
          format,
          bp, fmt,                 \* what is left of the text and of the format
          tm, century, relyear,
          returned                 \* "no", "end" or "NULL"

vars == <<start, timep, format, bp, fmt, tm, century, relyear, returned>>

Calendar == INSTANCE Calendar

TM_YEAR_BASE == 1900

\* Names by abbreviation and rest, as they are and, below, as the tables have them.
Day == << <<"Sun", "day">>, <<"Mon", "day">>, <<"Tue", "sday">>, <<"Wed", "nesday">>,
          <<"Thu", "rsday">>, <<"Fri", "day">>, <<"Sat", "urday">> >>
Mon == << <<"Jan", "uary">>, <<"Feb", "ruary">>, <<"Mar", "ch">>, <<"Apr", "il">>, <<"May">>,
          <<"Jun", "e">>, <<"Jul", "y">>, <<"Aug", "ust">>, <<"Sep", "tember">>,
          <<"Oct", "ober">>, <<"Nov", "ember">>, <<"Dec", "ember">> >>
day == [Day EXCEPT ![4] = <<"Wendesday">>]
mon == [Mon EXCEPT ![8] = <<"Aguest">>]

Digit   == [c \in {"0", "1", "2", "3", "4", "5", "6", "7", "8", "9"} |->
                CHOOSE n \in 0 .. 9 : ToString(n) = c]
Value(s) == FoldLeft(LAMBDA n, c : 10 * n + Digit[c], 0, s)

\* The lengths at which the text begins with a number; no limit has five digits.
Numbers == {n \in 1 .. Min({5, Len(bp)}) : \A i \in 1 .. n : bp[i] \in DOMAIN Digit}

\* (mutant) digits are taken as long as the number stays in range
Width_zeros(ulim) ==
    Min({n \in Numbers : n + 1 \notin Numbers \/ Value(SubSeq(bp, 1, n)) * 10 > ulim})

\* How many digits a number takes: no more than its limit has.
Width(ulim) ==
    Min({n \in Numbers : n + 1 \notin Numbers \/ Value(SubSeq(bp, 1, n)) * 10 > ulim
                            \/ ulim \div 10 ^ n = 0})

Rest(s, n) == SubSeq(s, n + 1, Len(s))

Fail == /\ returned' = "NULL"
        /\ UNCHANGED <<start, timep, format, bp, fmt, tm, century, relyear>>

\* The rest of the text is after, and goes by the rest of the format.
Go(after) == /\ bp' = after /\ fmt' = Tail(fmt)
             /\ UNCHANGED <<start, timep, format, returned>>

Head1 == IF fmt = <<>> THEN <<"", "">> ELSE fmt[1]
Here(letters) == returned = "no" /\ Head1[2] \in letters /\ Head1[1] # "lit"

\* The modifiers a directive allows.
Legal == [c \in {"C", "Y", "y", "d", "e", "H", "I", "M", "m", "S", "U", "W", "w"} |->
            CASE c \in {"C", "Y"} -> {"", "E"} [] c = "y" -> {"", "E", "O"} [] OTHER -> {"", "O"}]
IsLegal(d) == d[1] = "" \/ (d[2] \in DOMAIN Legal /\ d[1] \in Legal[d[2]])

WhiteSpace ==
    /\ returned = "no" /\ (Head1 = <<"lit", " ">> \/ Head1 \in {<<"", "n">>, <<"", "t">>})
    /\ \E n \in 0 .. Len(bp) :
          /\ \A i \in 1 .. n : bp[i] = " "
          /\ n < Len(bp) => bp[n + 1] # " "
          /\ Go(Rest(bp, n))
    /\ UNCHANGED <<tm, century, relyear>>

Literal ==
    /\ returned = "no" /\ Head1 # <<"lit", " ">> /\ (Head1[1] = "lit" \/ Head1[2] = "%")
    /\ IF bp # <<>> /\ bp[1] = Head1[2]
       THEN Go(Tail(bp)) /\ UNCHANGED <<tm, century, relyear>> ELSE Fail

Lit(s)  == [i \in DOMAIN s |-> IF s[i] \in {":", "/", " "} THEN <<"lit", s[i]>> ELSE <<"", s[i]>>]
Complex == [D |-> Lit(<<"m", "/", "d", "/", "y">>), R |-> Lit(<<"H", ":", "M">>),
            r |-> Lit(<<"I", ":", "M", ":", "S", " ", "p">>), T |-> Lit(<<"H", ":", "M", ":", "S">>)]

\* The recursion leaves century and relyear to the caller.
Recursive ==
    /\ Here(DOMAIN Complex)
    /\ IF IsLegal(Head1) THEN /\ fmt' = Complex[Head1[2]] \o Tail(fmt)
                              /\ UNCHANGED <<start, timep, format, bp, tm, century, relyear, returned>>
       ELSE Fail

\* The entries of a table that the text begins with; the full name goes first.
Full(names)  == {i \in DOMAIN names : IsPrefix(names[i], bp)}
Short(names) == {i \in DOMAIN names : bp # <<>> /\ bp[1] = names[i][1]}

Name(letters, names, Abbr, field) ==
    /\ Here(letters)
    /\ IF IsLegal(Head1) /\ Full(names) \cup Short(Abbr) # {}
       THEN /\ \E i \in Full(names) \cup Short(Abbr) :
                  /\ Go(Rest(bp, IF i \in Full(names) THEN Len(names[i]) ELSE 1))
                  /\ tm' = [tm EXCEPT ![field] = i - 1]
            /\ UNCHANGED <<century, relyear>>
       ELSE Fail

\* The limits of a number.
Limits == [C |-> <<0, 99>>, d |-> <<1, 31>>, e |-> <<1, 31>>, k |-> <<0, 23>>, H |-> <<0, 23>>,
           l |-> <<1, 12>>, I |-> <<1, 12>>, j |-> <<1, 366>>, M |-> <<0, 59>>, m |-> <<1, 12>>,
           S |-> <<0, 61>>, U |-> <<0, 53>>, W |-> <<0, 53>>, w |-> <<0, 6>>, Y |-> <<0, 9999>>,
           y |-> <<0, 99>>]

\* Where a number goes, but for years and weeks, and what it counts from.
Field == [d |-> "mday", e |-> "mday", k |-> "hour", H |-> "hour", l |-> "hour", I |-> "hour",
          j |-> "yday", M |-> "min", m |-> "mon", S |-> "sec", w |-> "wday"]

\* (mutant) months are stored as they are written
Stored_one(c, n) == IF c = "j" THEN n - 1 ELSE n

Stored(c, n) == IF c \in {"j", "m"} THEN n - 1 ELSE n

_conv_num ==
    /\ Here(DOMAIN Limits)
    /\ LET c   == Head1[2]
           w   == Width(Limits[c][2])
           n   == Value(SubSeq(bp, 1, w))
       IN  IF /\ IsLegal(Head1) /\ Numbers # {}
              /\ n \in Limits[c][1] .. Limits[c][2]
           THEN /\ Go(Rest(bp, w))
                /\ tm' = IF c = "Y" THEN [tm EXCEPT !.year = n - TM_YEAR_BASE]
                         ELSE IF c \in DOMAIN Field THEN [tm EXCEPT ![Field[c]] = Stored(c, n)]
                         ELSE tm
                /\ century' = IF c = "C" THEN n * 100 ELSE century
                /\ relyear' = IF c = "Y" THEN -1 ELSE IF c = "y" THEN n ELSE relyear
           ELSE Fail

Unknown ==
    /\ returned = "no" /\ fmt # <<>> /\ Head1[1] # "lit"
    /\ Head1[2] \notin DOMAIN Limits \cup DOMAIN Complex \cup {"A", "a", "B", "b", "h", "%"}
    /\ Head1 \notin {<<"", "n">>, <<"", "t">>}
    /\ Fail

\* Two digits of a year count from 1969 unless there is a century.
YearOf ==
    IF relyear = -1 THEN tm.year
    ELSE IF century # TM_YEAR_BASE THEN relyear + century - TM_YEAR_BASE
    ELSE IF relyear <= 68 THEN relyear + 2000 - TM_YEAR_BASE ELSE relyear

Return ==
    /\ returned = "no" /\ fmt = <<>>
    /\ returned' = "end" /\ tm' = [tm EXCEPT !.year = YearOf]
    /\ UNCHANGED <<start, timep, format, bp, fmt, century, relyear>>

Next == \/ WhiteSpace \/ Literal \/ Recursive \/ _conv_num \/ Unknown \/ Return
        \/ Name({"A", "a"}, day, Day, "wday") \/ Name({"B", "b", "h"}, mon, Mon, "mon")

--------------------------------------------------------------------------------
(* The texts: what strftime makes of a time, or the compiler of the time   *)
(* of the build.                                                           *)

Pad(n, width) == [i \in 1 .. width |-> ToString((n \div 10 ^ (width - i)) % 10)]

Text(c, t) ==
    CASE c = "Y" -> Pad(t.year + TM_YEAR_BASE, 4) [] c = "y" -> Pad(t.year % 100, 2)
      [] c = "C" -> Pad((t.year + TM_YEAR_BASE) \div 100, 2)
      [] c = "m" -> Pad(t.mon + 1, 2) [] c = "d" -> Pad(t.mday, 2) [] c = "H" -> Pad(t.hour, 2)
      [] c = "M" -> Pad(t.min, 2) [] c = "S" -> Pad(t.sec, 2) [] c = "j" -> Pad(t.yday + 1, 3)
      [] c = "e" -> IF t.mday < 10 THEN <<" ">> \o Pad(t.mday, 1) ELSE Pad(t.mday, 2)
      [] c = "b" -> <<Mon[t.mon + 1][1]>> [] c = "B" -> Mon[t.mon + 1]
      [] c = "a" -> <<Day[t.wday + 1][1]>> [] c = "A" -> Day[t.wday + 1]
      [] OTHER   -> <<c>>

Write(letters, t) == FlattenSeq([i \in DOMAIN letters |-> Text(letters[i], t)])

TwoDigits(f) == "y" \in {f.write[i] : i \in DOMAIN f.write} /\ "C" \notin {f.write[i] : i \in DOMAIN f.write}

\* The structure is on the stack: it holds anything before.
Begin ==
    /\ format \in Formats
    /\ TwoDigits(format) => Calendar!gmtime_r(timep).year <= 168
    /\ bp = Write(format.write, Calendar!gmtime_r(timep)) /\ fmt = format.read
    /\ tm = [f \in {"year", "mon", "mday", "hour", "min", "sec", "wday", "yday"} |-> -1]
    /\ century = TM_YEAR_BASE /\ relyear = -1 /\ returned = "no"

Init == Calendar!Init /\ Begin

Spec == Init /\ [][Next]_vars

--------------------------------------------------------------------------------
(* Properties.                                                             *)

\* The types.
TypeOK ==
    /\ \A f \in DOMAIN tm : tm[f] \in -1900 .. 8099
    /\ century \in 0 .. 9900 /\ relyear \in -1 .. 99 /\ returned \in {"no", "end", "NULL"}

\* Two names are misspelt in the tables (timestamp.cpp:325 and 332).
Misspelt == LET t == Calendar!gmtime_r(timep)
                w == {format.write[i] : i \in DOMAIN format.write}
            IN  ("B" \in w /\ t.mon = 7) \/ ("A" \in w /\ t.wday = 3)

(* main.cpp:231: what was written for a time is read to the end and gives  *)
(* that time back, with or without anything between the numbers, with the  *)
(* year in two parts or in two digits; a format with a directive that is   *)
(* not supported, or with a modifier where it does not belong, is refused. *)
ReadsBack ==
    /\ returned = "NULL" => Misspelt \/ format.refused
    /\ returned = "end" => ~format.refused /\ bp = <<>> /\ Calendar!mktime(tm) = timep
================================================================================
