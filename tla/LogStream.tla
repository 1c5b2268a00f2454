------------------------------- MODULE LogStream -------------------------------
(***************************************************************************)
(* What a line of the log reads (api/log): a Logger begins a line with     *)
(* time and level, its stream takes texts and numbers as long as there is  *)
(* room, and the destructor ends the line and hands it over.  Sending has  *)
(* the lengths of the lines the program writes; here are the characters.   *)
(*                                                                         *)
(* The fixed texts of a line are one character each.                       *)
(***************************************************************************)
EXTENDS Integers, Sequences, SequencesExt

CONSTANTS kSmallBuffer,     \* size of the buffer
          kMaxNumericSize,  \* room a number asks for
          IntWidth,         \* bits of an int, and of a pointer
          Shown,            \* values that are written
          Files,            \* values of __FILE__
          MaxPieces         \* bound: pieces of a line

Signed(v)   == v \in -(2 ^ (IntWidth - 1)) .. 2 ^ (IntWidth - 1) - 1
Unsigned(v) == v \in 0 .. 2 ^ IntWidth - 1

Levels     == <<"TRACE", "DEBUG", "INFO", "WARN", "ERROR", "FATAL">>
Statements == ToSet(Levels) \cup {"SYSERR", "SYSFATAL"}

VARIABLES g_logLevel,  \* lines below it are not written
          g_output,    \* the output is set
          level_,      \* level of the line being written, 0 for none
          buffer_,     \* what the line reads so far
          said,        \* history: the values the line has taken
          reach,       \* history: how far the buffer has been written
          pieces,      \* bound: values the line has been offered
          printed,     \* what has been handed over last
          told         \* history: the values of it

line == <<level_, buffer_, said, reach, pieces>>
vars == <<g_logLevel, g_output, line, printed, told>>

--------------------------------------------------------------------------------
(* Numbers.                                                                *)

\* Division and remainder of C: they round towards zero.
Quotient(a, b)  == IF a >= 0 THEN a \div b ELSE -((-a) \div b)
Remainder(a, b) == a - b * Quotient(a, b)

digits    == <<"9", "8", "7", "6", "5", "4", "3", "2", "1", "0",
               "1", "2", "3", "4", "5", "6", "7", "8", "9">>
digitsHex == <<"0", "1", "2", "3", "4", "5", "6", "7", "8", "9", "A", "B", "C", "D", "E", "F">>

\* The character of a digit, or of the remainder of a negative number.
Zero(lsd) == digits[10 + lsd]

\* What the loop of convert writes, lowest digit first.
Lowest[i \in Int] ==
    <<Zero(Remainder(i, 10))>> \o
    (IF Quotient(i, 10) = 0 THEN <<>> ELSE Lowest[Quotient(i, 10)])

LowestHex[i \in Nat] ==
    <<digitsHex[(i % 16) + 1]>> \o (IF i \div 16 = 0 THEN <<>> ELSE LowestHex[i \div 16])

\* (mutant) the sign after the digits have been turned
convert_late(value) ==
    Reverse(Lowest[value]) \o (IF value < 0 THEN <<"-">> ELSE <<>>)

convert(value) == Reverse(Lowest[value] \o (IF value < 0 THEN <<"-">> ELSE <<>>))

convertHex(value) == Reverse(LowestHex[value])

--------------------------------------------------------------------------------
(* The stream: st has the fields buf, said and reach.                      *)

Avail(st) == kSmallBuffer - Len(st.buf)

Taken(st, v, text, end) ==
    [buf |-> st.buf \o text, said |-> Append(st.said, v),
     reach |-> IF end > st.reach THEN end ELSE st.reach]

\* FixedBuffer::append: all of a text or nothing.
append(st, v, text) ==
    IF Avail(st) > Len(text) THEN Taken(st, v, text, Len(st.buf) + Len(text)) ELSE st

\* (mutant) a number is written where there is room for a digit
formatInteger_digit(st, v, text) ==
    IF Avail(st) > 1 THEN Taken(st, v, text, Len(st.buf) + Len(text) + 1) ELSE st

\* Numbers are written in place, with an end of string behind them.
formatInteger(st, v, text) ==
    IF Avail(st) >= kMaxNumericSize THEN Taken(st, v, text, Len(st.buf) + Len(text) + 1) ELSE st

Number(v)  == [kind |-> "int", value |-> v]
Text(text) == [kind |-> "text", value |-> text]

\* operator<< of LogStream.  A short is widened to int; what a double reads
\* (the C library) is in its value.
Put(st, v) ==
    CASE v.kind = "bool"    -> append(st, v, IF v.value THEN <<"1">> ELSE <<"0">>)
      [] v.kind = "text"    -> append(st, v, v.value)
      [] v.kind = "int"     -> formatInteger(st, v, convert(v.value))
      [] v.kind = "pointer" -> formatInteger(st, v, <<"0", "x">> \o convertHex(v.value))
      [] v.kind = "double"  -> formatInteger(st, v, v.value)

Stream      == [buf |-> buffer_, said |-> said, reach |-> reach]
Says(st)    == buffer_' = st.buf /\ said' = st.said /\ reach' = st.reach
PutAll(st, values) == FoldLeft(Put, st, values)

--------------------------------------------------------------------------------
(* The lines.                                                              *)

Init ==
    /\ g_logLevel = 1 /\ g_output = FALSE /\ level_ = 0
    /\ buffer_ = <<>> /\ said = <<>> /\ reach = 0 /\ pieces = 0
    /\ printed = <<>> /\ told = <<>>

setLogLevel ==
    /\ level_ = 0
    /\ g_logLevel' \in DOMAIN Levels
    /\ UNCHANGED <<g_output, line, printed, told>>

setOutput ==
    /\ level_ = 0
    /\ g_output' = TRUE /\ UNCHANGED <<g_logLevel, line, printed, told>>

LevelOf(s) ==
    CASE s = "SYSERR"   -> 5
      [] s = "SYSFATAL" -> 6
      [] OTHER          -> CHOOSE l \in DOMAIN Levels : Levels[l] = s

\* The macros LOG_TRACE to LOG_INFO ask for the level, the others write always.
Enabled(s) == s \in {"TRACE", "DEBUG", "INFO"} => g_logLevel <= LevelOf(s)

\* formatTime, the process and the level; errno is 0, nothing sets it.
Stamp == <<Text(<<"time">>), Text(<<".ms">>), Text(<<"pid">>)>>
Function(s) == IF s \in {"TRACE", "DEBUG"} THEN <<Text(<<"func">>), Text(<<" ">>)>> ELSE <<>>

Logger(s) ==
    /\ level_ = 0 /\ Enabled(s)
    /\ level_' = LevelOf(s) /\ pieces' = 0
    /\ Says(PutAll([buf |-> <<>>, said |-> <<>>, reach |-> 0],
                   Stamp \o <<Text(<<Levels[LevelOf(s)]>>)>> \o Function(s)))
    /\ printed' = <<>> /\ told' = <<>>
    /\ UNCHANGED <<g_logLevel, g_output>>

Add(v) ==
    /\ level_ # 0 /\ pieces < MaxPieces
    /\ pieces' = pieces + 1
    /\ Says(Put(Stream, v))
    /\ UNCHANGED <<g_logLevel, g_output, level_, printed, told>>

\* SourceFile: what stands behind the last backslash.
Basename(filename) ==
    SelectSeq([i \in DOMAIN filename |->
                 IF \E j \in i .. Len(filename) : filename[j] = "\\" THEN "" ELSE filename[i]],
              LAMBDA ch : ch # "")

Ending(file, number) ==
    <<Text(<<" ", "-", " ">>), Text(Basename(file)), Text(<<":">>), Number(number),
      Text(<<"\n">>)>>

\* Logger::~Logger; g_flush does nothing.
LoggerEnd(file, number) ==
    /\ level_ # 0
    /\ LET st == PutAll(Stream, Ending(file, number))
       IN  /\ printed' = IF g_output THEN st.buf ELSE printed
           /\ told' = IF g_output THEN st.said ELSE told
           /\ reach' = st.reach
    /\ level_' = 0 /\ buffer_' = <<>> /\ said' = <<>> /\ pieces' = 0
    /\ UNCHANGED <<g_logLevel, g_output>>

Next ==
    \/ setLogLevel \/ setOutput
    \/ \E s \in Statements : Logger(s)
    \/ \E v \in Shown : Add(v)
    \/ \E file \in Files : LoggerEnd(file, 42)

Spec == Init /\ [][Next]_vars

--------------------------------------------------------------------------------
(* What a value reads, highest digit first.                                *)

Decimal[n \in Nat] ==
    (IF n < 10 THEN <<>> ELSE Decimal[n \div 10]) \o <<digitsHex[(n % 10) + 1]>>

Hex[n \in Nat] == (IF n < 16 THEN <<>> ELSE Hex[n \div 16]) \o <<digitsHex[(n % 16) + 1]>>

Reading(v) ==
    CASE v.kind = "bool"    -> IF v.value THEN <<"1">> ELSE <<"0">>
      [] v.kind = "int"     -> IF v.value < 0 THEN <<"-">> \o Decimal[-v.value]
                                              ELSE Decimal[v.value]
      [] v.kind = "pointer" -> <<"0", "x">> \o Hex[v.value]
      [] OTHER              -> v.value

Reads(text, values) == text = FlattenSeq([i \in DOMAIN values |-> Reading(values[i])])

LogStreamAssumption ==
    /\ \A v \in Shown :
          /\ v.kind \in {"bool", "text", "int", "pointer", "double"}
          /\ v.kind = "int" => Signed(v.value) \/ Unsigned(v.value)
          /\ v.kind = "pointer" => Unsigned(v.value)
          /\ v.kind \in {"int", "pointer", "double"} => Len(Reading(v)) < kMaxNumericSize
    /\ kSmallBuffer \in Nat /\ MaxPieces \in Nat

TypeOK ==
    /\ g_logLevel \in DOMAIN Levels /\ g_output \in BOOLEAN
    /\ level_ \in {0} \cup DOMAIN Levels /\ pieces \in 0 .. MaxPieces
    /\ Len(buffer_) <= reach

\* A line reads what was put into it, every value whole or not at all and
\* in its order, and nothing is written behind the buffer, be it the end of
\* string of a number (log_stream.cpp convert, log_stream.h FixedBuffer).
LineReads == Reads(buffer_, said) /\ Reads(printed, told) /\ reach <= kSmallBuffer
================================================================================
