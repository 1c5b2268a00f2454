------------------------------ MODULE WallClock ------------------------------
(***************************************************************************)
(* The wall clock: SysTick counts ticks and seconds (includes/service.cpp, *)
(* sv_tick_increase), the foreground sets the clock once as it starts and  *)
(* reads it for every line of the log: gettimeofday takes the seconds in a *)
(* critical section and the ticks after it, and formatTime of api/log      *)
(* keeps the text of the last second.                                      *)
(*                                                                         *)
(* Fractions of a second are in ticks.                                     *)
(***************************************************************************)
EXTENDS Integers

CONSTANTS TICK_PER_SECOND,
          TickMod,  \* where the 32-bit tick wraps
          Built,    \* when the program was compiled, which the clock is set to
          MaxSeconds  \* the bound of the model on seconds

WallClockAssumption ==
    /\ TICK_PER_SECOND \in Nat \ {0} /\ TickMod \in Nat \ {0}
    /\ Built \in Nat \ {0} /\ MaxSeconds \in Nat

VARIABLES s_tick, s_tick_for_xtime, xtime,
          pc,            \* the foreground: "boot", "idle", in now() past the seconds, past it
          tv_sec,        \* the seconds it has read
          stamp,         \* the time it makes of them
          t_lastSecond, t_time,  \* the second of the log's text, and the one the text says
          called         \* history: the time when now() was called

vars == <<s_tick, s_tick_for_xtime, xtime, pc, tv_sec, stamp, t_lastSecond, t_time, called>>
clock == <<s_tick, s_tick_for_xtime, xtime>>

\* The second that the log's text begins with: none that a stamp can have.
NoSecond == -1

\* What the clock shows if it is read in one go.
Now == xtime * TICK_PER_SECOND + s_tick_for_xtime

TypeOK ==
    /\ s_tick \in 0 .. TickMod - 1
    /\ s_tick_for_xtime \in 0 .. TICK_PER_SECOND - 1
    /\ xtime \in Nat /\ tv_sec \in Nat /\ stamp \in Nat /\ called \in Nat
    /\ pc \in {"boot", "idle", "seconds", "stamped"}
    /\ t_lastSecond \in Nat \cup {NoSecond} /\ t_time \in Nat \cup {NoSecond}

\* There is no text yet.
Init ==
    /\ s_tick = 0 /\ s_tick_for_xtime = 0 /\ xtime = 0
    /\ pc = "boot" /\ tv_sec = 0 /\ stamp = 0 /\ called = 0
    /\ t_lastSecond = NoSecond /\ t_time = NoSecond

\* (mutant) a second has a tick more
SecondIsUp_late(n) == n > TICK_PER_SECOND

SecondIsUp(n) == n >= TICK_PER_SECOND

\* sv_tick_increase.
SysTick ==
    /\ xtime < MaxSeconds
    /\ s_tick' = (s_tick + 1) % TickMod
    /\ IF SecondIsUp(s_tick_for_xtime + 1)
         THEN s_tick_for_xtime' = 0 /\ xtime' = xtime + 1
         ELSE s_tick_for_xtime' = s_tick_for_xtime + 1 /\ UNCHANGED xtime
    /\ UNCHANGED <<pc, tv_sec, stamp, t_lastSecond, t_time, called>>

sv_xtime_set == pc' = "idle" /\ xtime' = Built

\* application::init sets the clock before it opens a device, so before any line.
SetClock ==
    /\ pc = "boot" /\ sv_xtime_set
    /\ UNCHANGED <<s_tick, s_tick_for_xtime, tv_sec, stamp, t_lastSecond, t_time, called>>

\* sv_xtime_get, in gettimeofday.
ReadSeconds ==
    /\ pc = "idle" /\ pc' = "seconds"
    /\ tv_sec' = xtime /\ called' = Now
    /\ UNCHANGED <<clock, stamp, t_lastSecond, t_time>>

Fraction == s_tick % TICK_PER_SECOND

\* Timestamp::now.
ReadTick ==
    /\ pc = "seconds" /\ pc' = "stamped"
    /\ stamp' = tv_sec * TICK_PER_SECOND + Fraction
    /\ UNCHANGED <<clock, tv_sec, t_lastSecond, t_time, called>>

\* (mutant) a text that was made once is kept
Cached_once(seconds) == t_lastSecond # NoSecond

Cached(seconds) == seconds = t_lastSecond

\* formatTime: the text is made anew in another second.
FormatTime ==
    /\ pc = "stamped" /\ pc' = "idle"
    /\ LET seconds == stamp \div TICK_PER_SECOND
       IN  /\ t_lastSecond' = seconds
           /\ t_time' = IF Cached(seconds) THEN t_time ELSE seconds
    /\ UNCHANGED <<clock, tv_sec, stamp, called>>

Next == SysTick \/ SetClock \/ ReadSeconds \/ ReadTick \/ FormatTime

Spec == Init /\ [][Next]_vars

--------------------------------------------------------------------------------
(* Properties.                                                             *)

(* The seconds and the ticks are read apart, SysTick may come in between,  *)
(* and the ticks are out of step with the seconds once they have wrapped,  *)
(* as a wrap is no whole number of seconds.  Still, a time stamp is off by *)
(* less than a second: later than a second before now() was called, and    *)
(* earlier than a second after it returned.                                *)
NearNow == ReadTick => /\ stamp' > called - TICK_PER_SECOND
                       /\ stamp' < Now + TICK_PER_SECOND
Near == [][NearNow]_vars

(* The text of a line is that of its time stamp, the first line's too: the *)
(* cache begins with no second, and follows the stamps across a wrap of    *)
(* the ticks, where a stamp may be earlier than the one before.            *)
Formatted == FormatTime => t_time' = stamp \div TICK_PER_SECOND
TextIsStamp == [][Formatted]_vars
================================================================================
