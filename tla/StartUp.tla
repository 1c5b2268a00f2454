------------------------------ MODULE StartUp --------------------------------
(***************************************************************************)
(* From reset to the event loop: bsp_startup registers and initialises the *)
(* drivers (hal.cpp, drv_interface.cpp), sv_startup and application::init  *)
(* open the devices and load the configuration, application::run sets up   *)
(* the loop, its channels and its timers (reactor/), and the loop polls.   *)
(* From the moment the driver of the serial line is open, a request of the *)
(* master raises a PendSV that preempts all of this.                       *)
(*                                                                         *)
(* What the drivers and the callbacks do is in other modules; here a       *)
(* device is what the poller sees of it, readable or not.                  *)
(***************************************************************************)
EXTENDS Naturals, Sequences, SequencesExt, FiniteSets

CONSTANTS EarlyWrites,  \* the master may write before the loop runs
          MaxFrames     \* bound: requests

StartUpAssumption == EarlyWrites \in BOOLEAN /\ MaxFrames \in Nat

\* sc_pfdriverarray, the drivers in the order of their registration.
Array    == <<"event", "timer", "ad", "pin", "commu", "storage", "pwm">>
Drivers  == ToSet(Array)
Channels == {"event", "timer", "ad"}   \* named for their devices

\* Calls of main and of what it calls: what is done, and to which device.
hal_init == <<"hal_init", "all">>
BringUp  == <<hal_init, <<"irq", "on">>, <<"startup", "timer">>>>
Handler  == <<<<"pendsv", "install">>>>
OpenApp  == <<<<"open", "pin">>, <<"open", "pwm">>, <<"open", "ad">>, <<"open", "storage">>,
              <<"open", "commu">>>>
Settings == <<<<"baud", "set">>, <<"config", "load">>>>
new_timerqueue == <<<<"open", "timer">>, <<"enable", "timer">>, <<"callback", "timer">>>>
NewLoop  == <<<<"open", "event">>>> \o new_timerqueue
              \o <<<<"callback", "event">>, <<"enable", "event">>>>
Run      == <<<<"m_peventloop", "set">>, <<"run_every", "timers">>, <<"callback", "ad">>,
              <<"enable", "ad">>, <<"fake", "ad">>, <<"loop", "poll">>>>

\* (mutant) the channel of the timer is not enabled
Program_deaf ==
    BringUp \o Handler \o OpenApp \o Settings
            \o SelectSeq(NewLoop, LAMBDA c : c # <<"enable", "timer">>) \o Run

\* (mutant) the handler is installed after the devices have been opened
Program_late == BringUp \o OpenApp \o Handler \o Settings \o NewLoop \o Run

\* What main does, in its order.
Program == BringUp \o Handler \o OpenApp \o Settings \o NewLoop \o Run

\* What a driver's open lets in, of what StartUp is about: all but the one of the line
\* only set up their own hardware (see Pwm, I2cTransfer, AdcDma), or nothing at all.
event_open   == {}
timer_open   == {}
ad_open      == {}
pin_open     == {}
storage_open == {}
pwm_open     == {}
commu_open   == {"irq"}    \* uart_enableIRQ
LetsIn == [event |-> event_open, timer |-> timer_open, ad |-> ad_open, pin |-> pin_open,
           commu |-> commu_open, storage |-> storage_open, pwm |-> pwm_open]

\* What m_openFlag holds of DEVICE_FLAG_ and DEVICE_OFLAG_; no driver is STANDALONE.
OpenFlags == {"ACTIVATED", "OPEN", "NONBLOCK"}

VARIABLES pc,         \* index into Program
          at,         \* where in the current call: "call", "init", "open", "flag"
          table,      \* s_DeviceList
          openFlag,   \* m_openFlag of the drivers
          done,       \* history: which of "init" and "open" a driver has been through
          handle,     \* device objects whose m_pdevice is set
          installed,  \* fp_pendsv
          irq,        \* the interrupt of the UART is enabled
          loopSet,    \* m_peventloop is set
          channels,   \* m_channels
          callbacks,  \* channels with m_handle_cb
          active,     \* m_active_channels, what is left of it
          readable,   \* devices that would poll as DEVICE_POLLIN
          pending,    \* PendSV has been triggered
          frames,     \* requests received and not yet served
          sent,       \* bound: requests of the master
          fault       \* the processor has faulted

device  == <<table, openFlag, done, handle>>
reactor == <<loopSet, channels, callbacks, active>>
serial  == <<installed, irq, pending, frames, sent, fault>>
vars    == <<pc, at, device, reactor, serial, readable>>

TypeOK ==
    /\ pc \in 1 .. Len(Program) /\ at \in {"call", "init", "open", "flag"}
    /\ table \in Seq(Drivers) /\ Len(table) <= Cardinality(Drivers)
    /\ openFlag \in [Drivers -> SUBSET OpenFlags]
    /\ done \in [Drivers -> SUBSET {"init", "open"}]
    /\ handle \subseteq Drivers
    /\ installed \in BOOLEAN /\ irq \in BOOLEAN /\ loopSet \in BOOLEAN /\ fault \in BOOLEAN
    /\ pending \in BOOLEAN
    /\ channels \in Seq(Channels) /\ IsInjective(channels)
    /\ active \in Seq(Channels) /\ IsInjective(active)
    /\ callbacks \subseteq Channels /\ readable \subseteq Channels
    /\ frames \in Seq({"read", "write"}) /\ sent \in 0 .. MaxFrames /\ Len(frames) <= sent

Init ==
    /\ pc = 1 /\ at = "call"
    /\ table = <<>> /\ openFlag = [d \in Drivers |-> {}] /\ done = [d \in Drivers |-> {}]
    /\ handle = {} /\ installed = FALSE /\ irq = FALSE /\ loopSet = FALSE
    /\ channels = <<>> /\ callbacks = {} /\ active = <<>> /\ readable = {}
    /\ pending = FALSE /\ frames = <<>> /\ sent = 0 /\ fault = FALSE

--------------------------------------------------------------------------------
(* The foreground.  PendSV preempts it and runs to its end.                *)

Doing   == Program[pc][1]
Subject == Program[pc][2]

Does(op) == Doing = op /\ ~fault /\ ~pending

Return == pc' = pc + 1 /\ at' = "call"

\* (mutant) the drivers are registered once more
Register_twice ==
    /\ Does("hal_init") /\ at = "call" /\ at' = "init"
    /\ table' = Reverse(Array \o Array)
    /\ UNCHANGED <<pc, openFlag, done, handle, reactor, serial, readable>>

\* drv_driverregister and API_DeviceRegister: each driver goes to the head.
Register ==
    /\ Does("hal_init") /\ at = "call" /\ at' = "init"
    /\ table' = Reverse(Array)
    /\ UNCHANGED <<pc, openFlag, done, handle, reactor, serial, readable>>

\* API_DeviceInitAll: every driver returns DEVICE_OK from its init.
InitAll ==
    /\ Does("hal_init") /\ at = "init" /\ Return
    /\ openFlag' = [d \in Drivers |-> IF d \in ToSet(table) THEN {"ACTIVATED"} ELSE openFlag[d]]
    /\ done' = [d \in Drivers |-> IF d \in ToSet(table) THEN {"init"} ELSE done[d]]
    /\ UNCHANGED <<table, handle, reactor, serial, readable>>

\* The interrupts are let in; none of the line's yet.
EnableInterrupts ==
    Does("irq") /\ Return /\ UNCHANGED <<device, reactor, serial, readable>>

\* (mutant) device::open does not keep what it has found
Found_lost(d) == UNCHANGED handle

\* device::open stores what hal_devicefind returns; timer_manage::init has no device object.
Found(d) == handle' = IF Doing = "open" THEN handle \cup {d} ELSE handle

Opens == Does("open") \/ Does("startup")

OpenFind ==
    /\ Opens /\ at = "call" /\ at' = "init"
    /\ Subject \in ToSet(table) /\ Found(Subject)
    /\ UNCHANGED <<pc, table, openFlag, done, reactor, serial, readable>>

\* (mutant) a device that is open counts as busy, standalone or not
Busy_open(d) == "OPEN" \in openFlag[d]

\* API_DeviceOpen refuses a second opener of a standalone device; no driver is one.
Busy(d) == FALSE

\* API_DeviceOpen initialises the driver if its flag does not say it has been.
OpenInit ==
    /\ Opens /\ at = "init"
    /\ LET d == Subject
           activated == "ACTIVATED" \in openFlag[d]
       IN  /\ openFlag' = [openFlag EXCEPT ![d] = @ \cup {"ACTIVATED"}]
           /\ done' = IF activated THEN done ELSE [done EXCEPT ![d] = {"init"}]
           /\ IF Busy(d) THEN handle' = handle \ {d} /\ Return
                         ELSE at' = "open" /\ UNCHANGED <<pc, handle>>
    /\ UNCHANGED <<table, reactor, serial, readable>>

\* The driver's open: the one of the line enables the UART interrupt.
OpenDriver ==
    /\ Opens /\ at = "open" /\ at' = "flag"
    /\ done' = [done EXCEPT ![Subject] = @ \cup {"open"}]
    /\ irq' = (irq \/ "irq" \in LetsIn[Subject])
    /\ UNCHANGED <<pc, table, openFlag, handle, reactor, installed, pending, frames, sent, fault, readable>>

\* The mode replaces the flags, and what they said of the device.
OpenFlag ==
    /\ Opens /\ at = "flag" /\ Return
    /\ openFlag' = [openFlag EXCEPT ![Subject] = {"OPEN"}]
    /\ UNCHANGED <<table, done, handle, reactor, serial, readable>>

Open == OpenFind \/ OpenInit \/ OpenDriver \/ OpenFlag

InstallHandler ==
    /\ Does("pendsv") /\ Return /\ installed' = TRUE
    /\ UNCHANGED <<device, reactor, irq, pending, frames, sent, fault, readable>>

\* The baud rate, and the configuration (see UartLink and Config).
Settle ==
    /\ Does("baud") \/ Does("config")
    /\ Return /\ UNCHANGED <<device, reactor, serial, readable>>

\* poller::updateChannel.
Inserted(c) == IF c \in ToSet(channels) THEN channels ELSE <<c>> \o channels

Enable ==
    /\ Does("enable") /\ Return /\ channels' = Inserted(Subject)
    /\ UNCHANGED <<device, loopSet, callbacks, active, serial, readable>>

RegisterCallback ==
    /\ Does("callback") /\ Return /\ callbacks' = callbacks \cup {Subject}
    /\ UNCHANGED <<device, loopSet, channels, active, serial, readable>>

SetLoop ==
    /\ Does("m_peventloop") /\ Return /\ loopSet' = TRUE
    /\ UNCHANGED <<device, channels, callbacks, active, serial, readable>>

StartTimers ==
    Does("run_every") /\ Return /\ UNCHANGED <<device, reactor, serial, readable>>

\* AD_IOC_FAKE_READABLE: so that the callback of the AD converter starts a conversion.
FakeReadable ==
    /\ Does("fake") /\ Return /\ readable' = readable \cup {"ad"}
    /\ UNCHANGED <<device, reactor, serial>>

\* What device::poll tells the poller of a channel.
PollIn(c) == c \in handle /\ "open" \in done[c] /\ c \in readable

(* poller::poll: one round over the channels; each that is readable goes   *)
(* to the head of the active list.                                         *)
Poll ==
    /\ Does("loop") /\ active = <<>>
    /\ active' = Reverse(SelectSeq(channels, PollIn)) /\ active' # <<>>
    /\ UNCHANGED <<pc, at, device, loopSet, channels, callbacks, serial, readable>>

\* channel::handleEvent reads the device and calls back, if there is a callback.
HandleEvent ==
    /\ Does("loop") /\ active # <<>> /\ active' = Tail(active)
    /\ readable' = IF Head(active) \in callbacks THEN readable \ {Head(active)} ELSE readable
    /\ UNCHANGED <<pc, at, device, loopSet, channels, callbacks, serial>>

Foreground ==
    \/ Register \/ InitAll \/ EnableInterrupts \/ Open \/ InstallHandler \/ Settle \/ Enable
    \/ RegisterCallback \/ SetLoop \/ StartTimers \/ FakeReadable \/ Poll \/ HandleEvent

--------------------------------------------------------------------------------
(* The interrupts.                                                         *)

Looping == Doing = "loop"

\* A timer is due, once there are timers; a conversion that was started has ended.
Due ==
    /\ ~fault
    /\ \/ \E i \in 1 .. pc - 1 : Program[i][1] = "run_every" /\ readable' = readable \cup {"timer"}
       \/ Looping /\ readable' = readable \cup {"ad"}
    /\ UNCHANGED <<pc, at, device, reactor, serial>>

\* The master sends a request for this device, as soon as it is listened to.
Request ==
    /\ irq /\ ~fault /\ sent < MaxFrames /\ sent' = sent + 1
    /\ \E f \in IF Looping \/ EarlyWrites THEN {"read", "write"} ELSE {"read"} :
         frames' = Append(frames, f)
    /\ pending' = TRUE
    /\ UNCHANGED <<pc, at, device, reactor, installed, irq, fault, readable>>

\* What package_event_fetch needs, or it leaves the request in the queue.
Listens == installed /\ "commu" \in handle

\* API_DeviceControl with DEVICE_IOC_NONBLOCK.
NonBlocking(flags) == flags \cup {"NONBLOCK"}

\* package_event_fetch, which pendsv_handle calls: the line is made not to block and is read.
pendsv_handle ==
    /\ frames' = IF Listens THEN Tail(frames) ELSE frames
    /\ pending' = (Listens /\ frames' # <<>>)
    /\ openFlag' = IF Listens THEN [openFlag EXCEPT !["commu"] = NonBlocking(@)] ELSE openFlag

(* PendSV_Handler, and package_event_handler for the request that is read: *)
(* a write is posted to the loop.                                          *)
PendSV ==
    /\ pending /\ ~fault /\ pendsv_handle
    /\ LET posts == Listens /\ Head(frames) = "write"
       IN  /\ fault' = (posts /\ ~loopSet)
           /\ readable' = IF posts /\ loopSet THEN readable \cup {"event"} ELSE readable
    /\ UNCHANGED <<pc, at, table, done, handle, reactor, installed, irq, sent>>

Next == Foreground \/ Due \/ Request \/ PendSV

Spec == Init /\ [][Next]_vars /\ WF_vars(Foreground) /\ WF_vars(PendSV)

--------------------------------------------------------------------------------
(* Properties.                                                             *)

(* From the moment the line is listened to, a request finds the handler    *)
(* installed and the device object set: none is left in the queue.         *)
QuietServed == ~pending => frames = <<>>

(* The loop hears every device it is there for: what has become readable   *)
(* is read, whichever channels are handled first.                          *)
Heard == \A c \in Channels : c \in readable ~> (c \notin readable \/ fault)

(* main.cpp:526 says that m_peventloop is set only to silence a warning    *)
(* for an unused variable; package_event_handler calls run_inloop through  *)
(* it, and must never find it unset.                                       *)
PostFindsLoop == ~fault
================================================================================
