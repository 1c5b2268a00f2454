-------------------------------- MODULE SvTimer --------------------------------
(***************************************************************************)
(* The software timers: timer_manage of includes/service.cpp, driven by    *)
(* SysTick and by the timer device of the event loop.                      *)
(*                                                                         *)
(* Hard timers expire inside SysTick.  For soft timers SysTick only makes  *)
(* the timer device readable and raises m_soft_timer_handling; the         *)
(* foreground then walks the soft list and runs the callbacks with         *)
(* interrupts enabled.  Deadlines are 32-bit tick counts that wrap, and    *)
(* both lists are kept in deadline order by comparing wrapped differences  *)
(* with half the range.                                                    *)
(*                                                                         *)
(* timeout_tick of a timer that leaves its list is never read before it is *)
(* set again; the model keeps it at 0 meanwhile.                           *)
(*                                                                         *)
(* A critical section is one step.  SysTick, and the UART interrupt that   *)
(* restarts its byte timer, come between any two steps of the foreground.  *)
(***************************************************************************)
EXTENDS Integers, Sequences, SequencesExt

CONSTANTS NTimers,     \* def_MONITOR_TIME_NR
          Half,        \* TICK_MAX/2: 2^31 - 1 for the 32-bit tick_t
          TicksPerSecond,  \* TICK_PER_SECOND
          MsWord,      \* 2^32: the word the conversion from milliseconds wraps in
          Kinds,       \* the kinds of timer clients register, as flag sets
          Asked,       \* the periods they ask for, in milliseconds
          MaxInit,     \* the longest of them that is accepted
          MaxLate      \* how long the foreground keeps a due timer waiting

TickMod == 2 * Half + 2      \* TICK_MAX + 1

Timers == 0 .. NTimers - 1
Flags == {"ACTIVATED", "PERIODIC", "SOFT", "TIMEOUT", "HANDLING"}

\* (mutant) milliseconds rounded down to ticks
sv_tick_from_millisecond_down(ms) == ((TicksPerSecond * ms) % MsWord) \div 1000

\* Rounds up; the product is a 32-bit one.
sv_tick_from_millisecond(ms) == ((TicksPerSecond * ms + 999) % MsWord) \div 1000

\* The guard against periods that would look like past deadlines.
Accepted(ms) == sv_tick_from_millisecond(ms) < Half

\* The kinds of eventloop::run_after and eventloop::run_every.  The hard timers
\* of the program, of the UART and of the I2C master, are one-shot.
run_after == {"SOFT"}
run_every == {"SOFT", "PERIODIC"}

ASSUME SvTimerAssumption ==
    /\ NTimers \in Nat \ {0} /\ Half \in Nat /\ MaxInit \in Nat /\ MaxLate \in Nat
    /\ Kinds \subseteq {{}, run_after, run_every}
    /\ TicksPerSecond \in Nat /\ MsWord \in Nat \ {0} /\ Asked \subseteq Nat
    /\ \A ms \in Asked : Accepted(ms) => sv_tick_from_millisecond(ms) <= MaxInit
    \* 8 hours of ticks plus the longest callback, against 248 days
    /\ MaxInit + MaxLate + 1 < Half

VARIABLES s_tick,                 \* the tick counter
          m_bitmap,               \* registered timers
          flag, init_tick, timeout_tick,
          m_timer_list,           \* armed hard timers, in list order
          m_soft_timer_list,      \* armed soft timers, in list order
          m_soft_timer_handling,  \* SysTick has told the loop
          s_time,                 \* the timer device's counter
          pc, cur,                \* the foreground and the timer it works on
          left                    \* history: ticks to the deadline, if armed

timers == <<m_bitmap, flag, init_tick, timeout_tick, left>>
lists  == <<m_timer_list, m_soft_timer_list>>
signal == <<m_soft_timer_handling, s_time>>
vars   == <<s_tick, timers, lists, signal, pc, cur>>

(* "run": anything else, polling included.  "start", "stop", "unlinked":   *)
(* inside sv_timer_start and sv_timer_stop.  "read" to "finish": serving   *)
(* the timer channel.                                                      *)
Points == {"run", "start", "stop", "unlinked",
           "read", "handler", "callback", "finish"}

Serving == {"read", "handler", "callback", "finish"}

TypeOK ==
    /\ s_tick \in 0 .. TickMod - 1
    /\ m_bitmap \subseteq Timers
    /\ flag \in [Timers -> SUBSET Flags]
    /\ init_tick \in [Timers -> 0 .. MaxInit]
    /\ timeout_tick \in [Timers -> 0 .. TickMod - 1]
    /\ m_timer_list \in Seq(Timers)
    /\ m_soft_timer_list \in Seq(Timers)
    /\ m_soft_timer_handling \in BOOLEAN
    /\ s_time \in 0 .. 1
    /\ pc \in Points
    /\ cur \in Timers
    /\ left \in [Timers -> Int]

Init ==
    /\ s_tick \in 0 .. TickMod - 1
    /\ m_bitmap = {}
    /\ flag = [t \in Timers |-> {}]
    /\ init_tick = [t \in Timers |-> 0]
    /\ timeout_tick = [t \in Timers |-> 0]
    /\ m_timer_list = <<>>
    /\ m_soft_timer_list = <<>>
    /\ m_soft_timer_handling = FALSE
    /\ s_time = 0
    /\ pc = "run"
    /\ cur = 0
    /\ left = [t \in Timers |-> 0]

--------------------------------------------------------------------------------
(* Unsigned tick arithmetic: sums and differences of ticks are off the     *)
(* range by at most one period.                                            *)

Wrap(x) == IF x < 0 THEN x + TickMod ELSE IF x >= TickMod THEN x - TickMod ELSE x

TickAdd(a, b) == Wrap(a + b)
TickSub(a, b) == Wrap(a - b)

\* (mutant) the operands swapped
Expired_swapped(now, deadline) == TickSub(deadline, now) < Half

Expired(now, deadline) == TickSub(now, deadline) < Half

--------------------------------------------------------------------------------
(* The deadline lists.                                                     *)

Linked(l) == {l[i] : i \in DOMAIN l}
IsSoft(t) == "SOFT" \in flag[t]
Armed == Linked(m_timer_list) \cup Linked(m_soft_timer_list)

\* (mutant) deadlines compared as they are
IsPlaceFor_raw(t, deadline, l, p) ==
    /\ p \in 1 .. Len(l) + 1
    /\ \A q \in 1 .. p - 1 : deadline[l[q]] < deadline[t]
    /\ p <= Len(l) => deadline[t] <= deadline[l[p]]

(* sv_timer_start scans for the first timer that is not due before t and   *)
(* goes in front of it, or to the tail: position p of l.                   *)
IsPlaceFor(t, deadline, l, p) ==
    /\ p \in 1 .. Len(l) + 1
    /\ \A q \in 1 .. p - 1 : ~(TickSub(deadline[l[q]], deadline[t]) < Half)
    /\ p <= Len(l) => TickSub(deadline[l[p]], deadline[t]) < Half

--------------------------------------------------------------------------------
(* What clients do: poller, I2C transfer, UART, self-calibration.          *)

\* _sv_timer_init: whatever the slot was used for before.
sv_timer_init(t, kind, ticks) ==
    /\ flag' = [flag EXCEPT ![t] = kind]
    /\ init_tick' = [init_tick EXCEPT ![t] = ticks]
    /\ timeout_tick' = [timeout_tick EXCEPT ![t] = 0]

\* timer_register: the lowest free slot.
Register(kind, ms) ==
    /\ pc = "run"
    /\ Accepted(ms)
    /\ \E t \in Timers :
         /\ t \notin m_bitmap /\ \A u \in Timers : u < t => u \in m_bitmap
         /\ m_bitmap' = m_bitmap \cup {t}
         /\ sv_timer_init(t, kind, sv_tick_from_millisecond(ms))
    /\ UNCHANGED <<s_tick, lists, signal, pc, cur, left>>

\* -2: the period would look like a past deadline.  -1: no free slot.
RegisterFails(ms) ==
    /\ pc = "run"
    /\ ~Accepted(ms) \/ Timers \subseteq m_bitmap
    /\ UNCHANGED vars

\* timer_timeout, from anywhere in the foreground, callbacks included; what
\* timer_restart begins with if it is given a period.
SetPeriod(t, ms) ==
    /\ pc \in {"run", "callback"}
    /\ t \in m_bitmap /\ Accepted(ms)
    /\ init_tick' = [init_tick EXCEPT ![t] = sv_tick_from_millisecond(ms)]
    /\ UNCHANGED <<s_tick, m_bitmap, flag, timeout_tick, left, lists, signal, pc, cur>>

\* sv_timer_start computes the deadline first ...
StartBegin(t) ==
    /\ pc = "run"
    /\ t \in m_bitmap /\ "ACTIVATED" \notin flag[t]
    /\ timeout_tick' = [timeout_tick EXCEPT ![t] = TickAdd(s_tick, init_tick[t])]
    /\ left' = [left EXCEPT ![t] = init_tick[t]]
    /\ pc' = "start" /\ cur' = t
    /\ UNCHANGED <<s_tick, m_bitmap, flag, init_tick, lists, signal>>

\* The list of t's kind becomes l, the other one stays.
PutList(t, l) ==
    IF IsSoft(t) THEN m_soft_timer_list' = l /\ UNCHANGED m_timer_list
                 ELSE m_timer_list' = l /\ UNCHANGED m_soft_timer_list
ListOf(t) == IF IsSoft(t) THEN m_soft_timer_list ELSE m_timer_list

\* Flags of a timer that sv_timer_start has linked, and of an expired one.
Started(f) == (f \cup {"ACTIVATED"}) \ {"TIMEOUT", "HANDLING"}
\* (mutant) the expired timer still counts as active
TimedOut_still_active(f) == (f \cup {"TIMEOUT"}) \ {"HANDLING"}
TimedOut(f) == (f \cup {"TIMEOUT"}) \ {"ACTIVATED", "HANDLING"}

\* ... and links the timer in a critical section, later.
StartLink ==
    /\ pc = "start"
    /\ \E p \in 1 .. Len(ListOf(cur)) + 1 :
         /\ IsPlaceFor(cur, timeout_tick, ListOf(cur), p)
         /\ PutList(cur, InsertAt(ListOf(cur), p, cur))
    /\ flag' = [flag EXCEPT ![cur] = Started(@)]
    /\ pc' = "run"
    /\ UNCHANGED <<s_tick, m_bitmap, init_tick, timeout_tick, left, signal, cur>>

\* sv_timer_stop: the test, the critical section and the flags are apart.
StopBegin(t) ==
    /\ pc = "run"
    /\ t \in m_bitmap /\ "ACTIVATED" \in flag[t]
    /\ pc' = "stop" /\ cur' = t
    /\ UNCHANGED <<s_tick, timers, lists, signal>>

\* list_remove: a timer that is on no list is linked to itself and stays so.
Unlink(t) ==
    \/ \E p \in DOMAIN ListOf(t) :
         ListOf(t)[p] = t /\ PutList(t, RemoveAt(ListOf(t), p))
    \/ t \notin Armed /\ UNCHANGED lists

StopUnlink ==
    /\ pc = "stop"
    /\ Unlink(cur)
    /\ left' = [left EXCEPT ![cur] = 0]
    /\ timeout_tick' = [timeout_tick EXCEPT ![cur] = 0]
    /\ pc' = "unlinked"
    /\ UNCHANGED <<s_tick, m_bitmap, flag, init_tick, signal, cur>>

StopClear ==
    /\ pc = "unlinked"
    /\ flag' = [flag EXCEPT ![cur] = @ \ {"ACTIVATED", "TIMEOUT"}]
    /\ pc' = "run"
    /\ UNCHANGED <<s_tick, m_bitmap, init_tick, timeout_tick, left, lists, signal, cur>>

\* A callback stops its own timer: it is on no list, only the flags change.
StopOwn ==
    /\ pc = "callback" /\ "ACTIVATED" \in flag[cur]
    /\ flag' = [flag EXCEPT ![cur] = @ \ {"ACTIVATED", "TIMEOUT"}]
    /\ UNCHANGED <<s_tick, m_bitmap, init_tick, timeout_tick, left, lists, signal, pc, cur>>

\* timer_unregister does not unlink: its callers stop the timer first.
Unregister(t) ==
    /\ pc = "run"
    /\ t \in m_bitmap /\ t \notin Armed
    /\ m_bitmap' = m_bitmap \ {t}
    /\ flag' = [flag EXCEPT ![t] = @ \ {"ACTIVATED"}]
    /\ UNCHANGED <<s_tick, init_tick, timeout_tick, left, lists, signal, pc, cur>>

(* The UART interrupt starts or restarts the byte timer in one go: it      *)
(* cannot be preempted by SysTick and never touches a timer the foreground *)
(* is working on.  timer_restart refuses a periodic timer or one in its    *)
(* callback.                                                               *)
IsrOwns(t) == /\ t \in m_bitmap /\ ~IsSoft(t)
              /\ pc \in {"start", "stop", "unlinked"} => t # cur

IsrArm(t, l) ==
    LET deadline == [timeout_tick EXCEPT ![t] = TickAdd(s_tick, init_tick[t])]
    IN  \E p \in 1 .. Len(l) + 1 :
          /\ IsPlaceFor(t, deadline, l, p)
          /\ m_timer_list' = InsertAt(l, p, t)
          /\ timeout_tick' = deadline
          /\ left' = [left EXCEPT ![t] = init_tick[t]]
          /\ flag' = [flag EXCEPT ![t] = Started(@)]
          /\ UNCHANGED <<s_tick, m_bitmap, init_tick, m_soft_timer_list, signal, pc, cur>>

IsrStart(t) ==
    /\ IsrOwns(t) /\ "ACTIVATED" \notin flag[t]
    /\ IsrArm(t, m_timer_list)

IsrRestart(t) ==
    /\ IsrOwns(t) /\ "ACTIVATED" \in flag[t]
    /\ flag[t] \cap {"HANDLING", "PERIODIC"} = {}
    /\ \E p \in DOMAIN m_timer_list :
         m_timer_list[p] = t /\ IsrArm(t, RemoveAt(m_timer_list, p))

--------------------------------------------------------------------------------
(* SysTick: sv_tick_increase and timer_check.                              *)

\* The foreground never keeps a due timer waiting longer than MaxLate.
Timely == /\ m_soft_timer_handling =>
               \A t \in Linked(m_soft_timer_list) : left[t] > -MaxLate
          /\ pc = "start" => left[cur] > -MaxLate

\* (mutant) at most one timer per tick
DueHead_one(l, now, k) ==
    k = IF l # <<>> /\ Expired(now, timeout_tick[Head(l)]) THEN 1 ELSE 0

\* timer_handle on the hard list, all one-shot: the due timers at its head.
DueHead(l, now, k) ==
    /\ k \in 0 .. Len(l)
    /\ \A i \in 1 .. k : Expired(now, timeout_tick[l[i]])
    /\ k < Len(l) => ~Expired(now, timeout_tick[l[k + 1]])

SoftDue(now) == /\ m_soft_timer_list # <<>>
                /\ Expired(now, timeout_tick[Head(m_soft_timer_list)])

\* (mutant) the loop is told on every tick
TellLoop_again(now) ==
    IF SoftDue(now) THEN s_time' = s_time + 1 /\ m_soft_timer_handling' = TRUE
                    ELSE UNCHANGED signal

\* timer_check for the soft list: the loop is told, once until it has served.
TellLoop(now) ==
    IF ~m_soft_timer_handling /\ SoftDue(now)
    THEN s_time' = s_time + 1 /\ m_soft_timer_handling' = TRUE
    ELSE UNCHANGED signal

SysTick ==
    /\ Timely
    /\ s_tick' = TickAdd(s_tick, 1)
    /\ \E k \in 0 .. Len(m_timer_list) :
         /\ DueHead(m_timer_list, s_tick', k)
         /\ LET fired == {m_timer_list[i] : i \in 1 .. k}
                armed == (Armed \ fired) \cup (IF pc = "start" THEN {cur} ELSE {})
            IN  /\ m_timer_list' = SubSeq(m_timer_list, k + 1, Len(m_timer_list))
                /\ flag' = [t \in Timers |-> IF t \in fired THEN TimedOut(flag[t]) ELSE flag[t]]
                /\ left' = [t \in Timers |-> IF t \in armed THEN left[t] - 1
                                             ELSE IF t \in fired THEN 0 ELSE left[t]]
                /\ timeout_tick' = [t \in Timers |-> IF t \in fired THEN 0 ELSE timeout_tick[t]]
    /\ TellLoop(s_tick')
    /\ UNCHANGED <<m_bitmap, init_tick, m_soft_timer_list, pc, cur>>

--------------------------------------------------------------------------------
(* The foreground serves the timer channel.                                *)

PollTimer ==
    /\ pc = "run" /\ s_time # 0
    /\ pc' = "read"
    /\ UNCHANGED <<s_tick, timers, lists, signal, cur>>

\* (mutant) the flag goes down with the read
ReadDevice_lowers_both ==
    /\ pc = "read"
    /\ s_time' = 0 /\ m_soft_timer_handling' = FALSE
    /\ pc' = "handler"
    /\ UNCHANGED <<s_tick, timers, lists, cur>>

\* channel::handleEvent reads, and so clears, the device before the handler.
ReadDevice ==
    /\ pc = "read"
    /\ s_time' = 0
    /\ pc' = "handler"
    /\ UNCHANGED <<s_tick, timers, lists, m_soft_timer_handling, cur>>

(* One turn of timer_handle's loop on soft list l: the head, if due, comes *)
(* off the list and its callback runs with interrupts enabled.             *)
Deliver(l, f, deadline, togo) ==
    IF l # <<>> /\ Expired(s_tick, deadline[Head(l)])
    THEN /\ m_soft_timer_list' = Tail(l)
         /\ flag' = [f EXCEPT ![Head(l)] = @ \cup {"HANDLING"}]
         /\ left' = [togo EXCEPT ![Head(l)] = 0]
         /\ timeout_tick' = [deadline EXCEPT ![Head(l)] = 0]
         /\ pc' = "callback" /\ cur' = Head(l)
    ELSE /\ m_soft_timer_list' = l
         /\ flag' = f
         /\ left' = togo
         /\ timeout_tick' = deadline
         /\ pc' = "finish" /\ UNCHANGED cur

Handle ==
    /\ pc = "handler"
    /\ Deliver(m_soft_timer_list, flag, timeout_tick, left)
    /\ UNCHANGED <<s_tick, m_bitmap, init_tick, m_timer_list, signal>>

\* After the callback: a periodic timer is armed again, counting from now.
RearmAndGoOn ==
    /\ pc = "callback" /\ {"PERIODIC", "ACTIVATED"} \subseteq flag[cur]
    /\ LET deadline == [timeout_tick EXCEPT ![cur] = TickAdd(s_tick, init_tick[cur])]
       IN  \E p \in 1 .. Len(m_soft_timer_list) + 1 :
             /\ IsPlaceFor(cur, deadline, m_soft_timer_list, p)
             /\ Deliver(InsertAt(m_soft_timer_list, p, cur),
                        [flag EXCEPT ![cur] = Started(@)],
                        deadline,
                        [left EXCEPT ![cur] = init_tick[cur]])
    /\ UNCHANGED <<s_tick, m_bitmap, init_tick, m_timer_list, signal>>

\* Any other soft timer is done with, and its slot is given back.
RetireAndGoOn ==
    /\ pc = "callback" /\ ~({"PERIODIC", "ACTIVATED"} \subseteq flag[cur])
    /\ m_bitmap' = m_bitmap \ {cur}
    /\ Deliver(m_soft_timer_list, [flag EXCEPT ![cur] = TimedOut(@)], timeout_tick, left)
    /\ UNCHANGED <<s_tick, init_tick, m_timer_list, signal>>

\* (mutant) the flag stays up
Finish_device_only ==
    /\ pc = "finish"
    /\ s_time' = 0
    /\ pc' = "run"
    /\ UNCHANGED <<s_tick, timers, lists, m_soft_timer_handling, cur>>

\* soft_timer_handle ends: both halves of the signal go down together.
Finish ==
    /\ pc = "finish"
    /\ m_soft_timer_handling' = FALSE
    /\ s_time' = 0
    /\ pc' = "run"
    /\ UNCHANGED <<s_tick, timers, lists, cur>>

Serve == PollTimer \/ ReadDevice \/ Handle \/ RearmAndGoOn \/ RetireAndGoOn \/ Finish
InCall == StartLink \/ StopUnlink \/ StopClear

Client ==
    \/ \E ms \in Asked : \/ \E kind \in Kinds : Register(kind, ms)
                         \/ RegisterFails(ms)
                         \/ \E t \in Timers : SetPeriod(t, ms)
    \/ \E t \in Timers : \/ StartBegin(t) \/ StopBegin(t) \/ Unregister(t)
                         \/ IsrStart(t) \/ IsrRestart(t)
    \/ StopOwn

Next == Client \/ InCall \/ SysTick \/ Serve

Spec == Init /\ [][Next]_vars

(* The crystal ticks, a call that has begun ends, and eventloop::loop      *)
(* polls every channel on each pass, whatever handlers ran in between.     *)
(* Clients owe nothing.                                                    *)
FairSpec == /\ Spec
            /\ WF_vars(SysTick) /\ WF_vars(InCall) /\ WF_vars(Serve)
            /\ SF_vars(PollTimer)

--------------------------------------------------------------------------------
(* Properties.                                                             *)

(* Both lists stay in the order of the true deadlines when the tick        *)
(* counter wraps, and the unsigned test of timer_handle and timer_check    *)
(* tells the due timers from the others.                                   *)
InOrder(l, togo) == \A i, j \in DOMAIN l : i < j => togo[l[i]] <= togo[l[j]]
DeadlineOrder ==
    /\ InOrder(m_timer_list, left) /\ InOrder(m_soft_timer_list, left)
    /\ \A t \in Armed : Expired(s_tick, timeout_tick[t]) <=> left[t] <= 0

(* A timer is on one list, once, exactly if it is registered and active    *)
(* and neither stopped nor in its callback.                                *)
NoDup(l) == \A i, j \in DOMAIN l : l[i] = l[j] => i = j
InHand == IF pc \in {"unlinked", "callback"} THEN {cur} ELSE {}
LinkedIffActive ==
    /\ NoDup(m_timer_list) /\ NoDup(m_soft_timer_list)
    /\ \A t \in Linked(m_timer_list) : ~IsSoft(t)
    /\ \A t \in Linked(m_soft_timer_list) : IsSoft(t)
    /\ \A t \in Timers :
         t \in Armed <=> t \in m_bitmap /\ "ACTIVATED" \in flag[t] /\ t \notin InHand

(* SysTick stays quiet about soft timers only while the loop is on its     *)
(* way: a raised m_soft_timer_handling comes with a readable device or a   *)
(* foreground that has read it and not finished.                           *)
Handshake == m_soft_timer_handling <=> s_time # 0 \/ pc \in {"handler", "callback", "finish"}

(* No callback before its time, and none of a timer that was not armed.    *)
NeverEarly == [][\A t \in Timers :
                   "HANDLING" \in flag'[t] /\ "HANDLING" \notin flag[t] => left[t] <= 0]_vars

(* After a tick no hard timer is overdue: SysTick has fired all of them.   *)
HardOnTime == [][SysTick => \A t \in Linked(m_timer_list)' : left'[t] > 0]_vars

(* service.cpp:583 and :684, "keep the timeout tick from wrapping around":  *)
(* a period that is accepted is never shorter than the one asked for.      *)
PeriodHonoured ==
    [][\A t \in Timers, ms \in Asked :
         SetPeriod(t, ms) => 1000 * init_tick'[t] >= TicksPerSecond * ms]_vars

(* The inductive invariant behind them.  Starting is the timer between the *)
(* two halves of sv_timer_start; Pending are the timers whose deadline is  *)
(* set.                                                                    *)
Starting == IF pc = "start" THEN {cur} ELSE {}
Pending == Armed \cup Starting

ForegroundSound ==
    /\ pc = "start" => cur \in m_bitmap /\ "ACTIVATED" \notin flag[cur]
    /\ pc = "callback" => cur \in m_bitmap /\ IsSoft(cur) /\ "HANDLING" \in flag[cur]
    /\ pc = "read" => s_time # 0

\* While the loop has not been told, nothing on the soft list is later than MaxLate.
Punctual ==
    /\ \A t \in Linked(m_timer_list) \cup Starting : left[t] >= -MaxLate
    /\ ~m_soft_timer_handling \/ pc = "finish" =>
         \A t \in Linked(m_soft_timer_list) : left[t] >= -MaxLate

Timing ==
    /\ InOrder(m_timer_list, left) /\ InOrder(m_soft_timer_list, left)
    /\ \A t \in Pending : /\ timeout_tick[t] = Wrap(s_tick + left[t])
                           /\ left[t] \in -MaxLate - 1 .. MaxInit
    /\ Punctual

IInv == TypeOK /\ LinkedIffActive /\ ForegroundSound /\ Handshake /\ Timing

(* A due soft timer gets its callback, or is stopped first.                *)
SoftServed ==
    \A t \in Timers :
      (t \in Linked(m_soft_timer_list) /\ left[t] <= 0) ~> (t \notin Linked(m_soft_timer_list))
================================================================================
