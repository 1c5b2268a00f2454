--------------------------------- MODULE Device ---------------------------------
(***************************************************************************)
(* The calls of the device layer, from reset on: what API_DeviceRead and   *)
(* its like find in the table of a driver (bsp/hal/hal.cpp, bsp/driver),   *)
(* how a device object takes their results (app/devices.cpp), and the read *)
(* that PendSV makes of the serial line (app/commu.cpp, drv_commu.cpp).    *)
(* The error of the last call is one variable for all devices and both     *)
(* contexts, and a read that may wait must not be made in PendSV.          *)
(***************************************************************************)
EXTENDS StartUp, Integers

VARIABLES s_DeviceErrorInfo,  \* s_DeviceErrorInfo
          m_offline_cnt,      \* m_offline_cnt of the device objects
          waiting,            \* PendSV waits for a frame
          read_               \* history: the last read of a channel

layer   == <<s_DeviceErrorInfo, m_offline_cnt, waiting, read_>>
devvars == <<vars, layer>>

--------------------------------------------------------------------------------
(* The functions a driver has in its table; for the others there is NULL.  *)

drv_event   == {"read", "write", "poll"}
drv_timer   == {"read", "write", "poll"}
drv_ad      == {"read", "control", "poll"}
drv_pin     == {"read", "poll"}
drv_commu   == {"read", "write", "control"}
drv_storage == {"read", "write", "control"}
drv_pwm     == {"read", "write", "control"}

Interface ==
    [event |-> drv_event, timer |-> drv_timer, ad |-> drv_ad, pin |-> drv_pin,
     commu |-> drv_commu, storage |-> drv_storage, pwm |-> drv_pwm]

(* Commands below DEVICE_IOC_USER are for API_DeviceControl itself.        *)
DEVICE_IOC_USER == 2
Numbered == [commu |-> 2, ad |-> 6, pwm |-> 10]

Commands(d) ==
    {DEVICE_IOC_USER + i : i \in 1 .. IF d \in DOMAIN Numbered THEN Numbered[d] ELSE 0}

\* What a driver makes of a command: the ones it does not know it refuses.
ioctl(d, cmd) ==
    IF cmd < DEVICE_IOC_USER THEN "OK"
    ELSE IF "control" \notin Interface[d] THEN "ENOSYS"
    ELSE IF cmd \in Commands(d) THEN "OK" ELSE "ECMD_INVALID"

Called(d, cmd) == ioctl(d, cmd) = "OK" /\ cmd >= DEVICE_IOC_USER

--------------------------------------------------------------------------------
(* Reads and writes: what is returned, how many bytes of the buffer are    *)
(* written, and what is left in s_DeviceErrorInfo.                         *)

Word == 4   \* sizeof(s_event), sizeof(float)

Least(a, b) == IF a <= b THEN a ELSE b
Result(rt, touched, error) == [rt |-> rt, touched |-> touched, error |-> error]

\* The event device and the timer device hand over their count.
CountRead(size) == {Result(Word, Word, s_DeviceErrorInfo)}

\* (mutant) the AD converter has nothing to say and says so with -1
AdRead_none(size) ==
    {Result(-1, 0, s_DeviceErrorInfo), Result(Least(size, Word), Word, s_DeviceErrorInfo)}

\* The AD converter: nothing, if it was only made to look readable, or the average.
AdRead(size) ==
    {Result(0, 0, s_DeviceErrorInfo), Result(Least(size, Word), Word, s_DeviceErrorInfo)}

API_DeviceRead(d, size) ==
    IF "read" \in Interface[d]
    THEN IF d = "ad" THEN AdRead(size) ELSE CountRead(size)
    ELSE {Result(-1, 0, "ENOSYS")}

\* Whether a write reaches the driver; what it makes of it is in UartLink and Config.
API_DeviceWrite(d) == IF "write" \in Interface[d] THEN "OK" ELSE "ENOSYS"

\* What device::read counts: timeouts in a row.
Counted(cnt, rt, error) == IF rt = -1 /\ error = "ETIMEOUT" THEN cnt + 1 ELSE 0

\* API_DeviceErrorInfoGet clears what it returns.
Left(rt, error) == IF rt = -1 THEN "OK" ELSE error

\* device_stat_get
Online(d) == m_offline_cnt[d] <= 5

--------------------------------------------------------------------------------
DeviceInit ==
    /\ Init
    /\ s_DeviceErrorInfo = "OK" /\ m_offline_cnt = [d \in Drivers |-> 0]
    /\ waiting = FALSE /\ read_ = [size |-> 1, rt |-> 0, touched |-> 0]

ChannelSize == 100   \* char data[100] of channel::handleEvent

\* The storage is read or written, for the configuration or in an event that saves it.
Accesses == Doing = "config" \/ (Doing = "loop" /\ active # <<>> /\ Head(active) = "event")

\* Any transfer of it may time out, and the next one leaves that as it is.
AfterAccess(error) == {error} \cup (IF Accesses THEN {"ETIMEOUT"} ELSE {})

\* channel::handleEvent reads the device into its buffer, if there is a callback.
Reads == Doing = "loop" /\ active # <<>> /\ Head(active) \in callbacks

ChannelRead(d) ==
    \E r \in API_DeviceRead(d, ChannelSize) :
       /\ read_' = [size |-> ChannelSize, rt |-> r.rt, touched |-> r.touched]
       /\ m_offline_cnt' = [m_offline_cnt EXCEPT ![d] = Counted(@, r.rt, r.error)]
       /\ s_DeviceErrorInfo' \in AfterAccess(Left(r.rt, r.error))

DeviceForeground ==
    /\ ~waiting /\ Foreground
    /\ IF Reads THEN ChannelRead(Head(active))
       ELSE /\ s_DeviceErrorInfo' \in AfterAccess(s_DeviceErrorInfo)
            /\ UNCHANGED <<m_offline_cnt, read_>>
    /\ UNCHANGED waiting

\* (mutant) no frame, and no error for it
NoFrame_silent == s_DeviceErrorInfo

\* What drv_commu leaves for a poll that has found no frame and need not wait.
NoFrame == "EAGAIN"

(* package_event_fetch goes on until a read fails; a frame is a read that  *)
(* does not, and is followed by one that does when none is left.  Where    *)
(* reading may wait it is for SysTick to end the wait, and SysTick has the *)
(* priority of PendSV.                                                     *)
DevicePendSV ==
    /\ ~waiting /\ PendSV
    /\ IF Listens /\ frames' = <<>>
       THEN IF "NONBLOCK" \in openFlag'["commu"]
            THEN /\ m_offline_cnt' = [m_offline_cnt EXCEPT !["commu"] = Counted(0, -1, NoFrame)]
                 /\ s_DeviceErrorInfo' = Left(-1, NoFrame)
                 /\ UNCHANGED waiting
            ELSE waiting' = TRUE /\ UNCHANGED <<m_offline_cnt, s_DeviceErrorInfo>>
       ELSE /\ m_offline_cnt' = IF Listens THEN [m_offline_cnt EXCEPT !["commu"] = 0]
                                ELSE m_offline_cnt
            /\ UNCHANGED <<s_DeviceErrorInfo, waiting>>
    /\ UNCHANGED read_

Interrupt == (Due \/ Request) /\ UNCHANGED layer

DeviceNext == DeviceForeground \/ DevicePendSV \/ Interrupt

DeviceSpec == DeviceInit /\ [][DeviceNext]_devvars

--------------------------------------------------------------------------------
DeviceTypeOK ==
    /\ TypeOK
    /\ s_DeviceErrorInfo \in {"OK", "ENOSYS", "EAGAIN", "ETIMEOUT"}
    /\ m_offline_cnt \in [Drivers -> Nat] /\ waiting \in BOOLEAN
    /\ read_.size \in Nat \ {0} /\ read_.rt \in Int /\ read_.touched \in Nat

(* PendSV never waits for a frame: the flag that says so is set before     *)
(* each read, whatever opening the device has made of it (commu.cpp:84,    *)
(* hal.cpp:392).                                                           *)
NeverWaits == ~waiting

(* The timeouts of the storage, which the foreground leaves in the common  *)
(* variable, are never taken for timeouts of another device, of the serial *)
(* line least of all (devices.cpp:86, drv_commu.cpp:91).                   *)
OwnErrors == \A d \in Drivers : Online(d) /\ m_offline_cnt[d] = 0

(* What a channel reads fits its buffer, and channel.cpp:40 may move the   *)
(* buffer by it unseen: it is never -1.                                    *)
ReadsFit == read_.rt \in 0 .. read_.size /\ read_.touched <= read_.size

(* No call of a device meets a driver without the function for it, and     *)
(* every command reaches its driver.                                       *)
CallsServed ==
    /\ \A c \in ToSet(channels) : {"read", "poll"} \subseteq Interface[c]
    /\ \A d \in {"storage", "commu"} : "read" \in Interface[d] /\ API_DeviceWrite(d) = "OK"
    /\ \A d \in Drivers : \A cmd \in Commands(d) : Called(d, cmd)
================================================================================
