--------------------------------- MODULE MCTime ---------------------------------
(***************************************************************************)
(* The users of the tick, for TLC: the software timers, the clock of the   *)
(* log, the calendar it is written in, and the date it starts from.  part  *)
(* says which of them a behaviour is about; the variables of the others    *)
(* stay as they were.                                                      *)
(***************************************************************************)
EXTENDS SvTimer, Sequences

CONSTANTS TICK_PER_SECOND, ClockTickMod, Built, ClockSeconds,
          Starts, Span, Seconds,
          Written   \* days whose dates are written and read

VARIABLES part,
          c_tick, s_tick_for_xtime, xtime, c_pc, tv_sec, stamp, t_lastSecond, t_time, called,
          start, timep,
          format, bp, fmt, tm, century, relyear, returned

WC == INSTANCE WallClock
        WITH s_tick <- c_tick, pc <- c_pc, TickMod <- ClockTickMod, MaxSeconds <- ClockSeconds
CA == INSTANCE Calendar

(* How texts are written and read: as main.cpp does it, without anything   *)
(* between the numbers, with the year in two parts and in two digits, with *)
(* names; and what is not supported or not legal.                          *)
Form(write, read) ==
    [write |-> write, refused |-> FALSE,
     read |-> [i \in DOMAIN read |->
                  <<IF read[i] \in {":", "/", " "} THEN "lit" ELSE "", read[i]>>]]

Build == Form(<<"b", " ", "e", " ", "Y", " ", "H", ":", "M", ":", "S">>,
              <<"b", " ", "d", " ", "Y", " ", "H", ":", "M", ":", "S">>)

MCFormats ==
    {Build,
     Form(<<"Y", "m", "d", "H", "M", "S">>, <<"Y", "m", "d", "H", "M", "S">>),
     Form(<<"d", "/", "m", "/", "C", "y", " ", "H", ":", "M", ":", "S">>,
          <<"e", "/", "m", "/", "C", "y", "n", "T">>),
     Form(<<"a", " ", "B", " ", "e", " ", "H", ":", "M", ":", "S", " ", "Y">>,
          <<"A", " ", "b", " ", "e", " ", "T", " ", "Y">>),
     Form(<<"m", "/", "d", "/", "y", " ", "j", " ", "A", " ", "H", ":", "M", ":", "S">>,
          <<"D", " ", "j", " ", "a", " ", "R", ":", "S">>),
     [Form(<<"Y", " ", "H", ":", "M", ":", "S">>, <<"Y", " ", "r">>) EXCEPT !.refused = TRUE],
     [Form(<<"Y", "m", "d">>, <<"Y", "d", "m">>) EXCEPT
         !.read = <<<<"E", "Y">>, <<"O", "m">>, <<"E", "d">>>>, !.refused = TRUE],
     [Form(<<"Y", "m", "d">>, <<"Y", ":", "d">>) EXCEPT !.refused = TRUE]}

SP == INSTANCE Strptime WITH Starts <- Written, Formats <- MCFormats

ASSUME WC!WallClockAssumption /\ CA!CalendarAssumption

clockvars    == <<c_tick, s_tick_for_xtime, xtime, c_pc, tv_sec, stamp, t_lastSecond, t_time,
                  called>>
calendarvars == <<start, timep>>
parsevars    == <<format, bp, fmt, tm, century, relyear, returned>>

MCInit ==
    /\ part \in {"timers", "clock", "calendar", "parse"}
    /\ Init /\ WC!Init
    /\ IF part = "parse" THEN SP!Calendar!Init ELSE CA!Init
    /\ SP!Begin
    /\ part # "timers" => s_tick = 0
    /\ part \notin {"calendar", "parse"} => start = 0 /\ timep = [day |-> 0, sec |-> 0]
    /\ part # "parse" => format = Build

MCNext ==
    /\ UNCHANGED part
    /\ \/ part = "timers"   /\ Next
       \/ part = "clock"    /\ WC!Next
       \/ part = "calendar" /\ CA!Next
       \/ part = "parse"    /\ SP!Next
    /\ part # "timers"   => UNCHANGED vars
    /\ part # "clock"    => UNCHANGED clockvars
    /\ part # "calendar" => UNCHANGED calendarvars
    /\ part # "parse"    => UNCHANGED parsevars

mcvars == <<part, vars, clockvars, calendarvars, parsevars>>

(* The fairness of SvTimer, while it is the one that runs.                 *)
MCSpec ==
    /\ MCInit /\ [][MCNext]_mcvars
    /\ WF_vars(part = "timers" /\ SysTick)
    /\ WF_vars(part = "timers" /\ InCall)
    /\ WF_vars(part = "timers" /\ Serve)
    /\ SF_vars(part = "timers" /\ PollTimer)

(* The invariants of time: both conversions of dates agree, their days     *)
(* follow each other, and a date that was written is read back.            *)
DateSound ==
    /\ part = "clock"    => WC!TypeOK
    /\ part = "calendar" => CA!TypeOK /\ CA!RoundTrip /\ CA!DayByDay
    /\ part = "parse"    => SP!TypeOK /\ SP!ReadsBack

(* What a line of the log is stamped with is near the time of the call,    *)
(* and its text is that of the stamp.                                      *)
StampSound == [][part = "clock" => WC!NearNow /\ WC!Formatted]_clockvars
================================================================================
