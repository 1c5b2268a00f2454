# The SF6 sensor firmware, modelled in TLA+

The repository is the firmware of a gas sensor (SF6 density, humidity, dew
point) on a Cortex-M3 (ADuCM360): an event loop in the foreground, interrupts,
no operating system. It measures, calibrates itself, keeps its configuration in
an I2C EEPROM and answers a Modbus RTU master over RS-485. This directory holds
models of its control logic, the TLC runs that check them and the TLAPS proofs
about them.

## The system

### Contexts

| context | priority | runs |
|---|---|---|
| foreground | - | start-up, then `eventloop::loop`: timer, event and AD channel, in that order |
| PendSV | lowest | `application::pendsv_handle`: parses and answers received frames |
| SysTick | lowest | `timer_manage::timer_check`: the tick, hard timers, the byte timer |
| I2C | 2 | a byte of an EEPROM transfer |
| UART | 1 | a received byte: `transceiver::push` |
| DMA (UART TX, ADC) | 0 | end of a transmission, end of a block of conversions |

PendSV and SysTick never preempt each other, so each is atomic for the other;
both preempt the foreground anywhere outside `cpu_interruptDisable` /
`cpu_interruptEnable`, which save and restore PRIMASK. `timer_check` runs the
callbacks of hard timers inside such a section (`service.cpp:781`): while SysTick
closes a frame, no interrupt comes in. Every module takes its
atomic steps from this table. The table itself is checked and proved in
`Interrupts`, from the registers that start-up and the drivers write.

A Modbus request crosses most of the system: bytes arrive in the UART
interrupt, the byte timer closes the frame in SysTick, PendSV parses it, changes
registers, answers by DMA and posts an event, and the event loop saves the
registers and applies a new address or baud rate.

### Components

| component | state | hard part | correct when | modules |
|---|---|---|---|---|
| event loop and pool (`reactor/`, `service.h` events) | pool of 6 events with a bitmap, list of queued events, device counter | posts during the walk over the list; slots used again | no event is lost, freed twice or run twice; the loop wakes up | EventLoop, EventQueue, EventBuffer, LinkedList |
| timers (`service.cpp`) | tick, timer table, hard and soft list, handling flag, device counter | wrap of the tick, start and stop racing expiry, hand-over of soft timers | on time, never early, none forgotten | SvTimer |
| measurement (`main.cpp`, `drv_ad.cpp`) | run mode, stage, converter, DMA channel, pins | the calibration interrupts a round at any stage; registers are changed by read, mask and write | every stored sample was converted as its channel asks, with the heater off; measuring goes on | Measure, MeasureDrive, AdcDma, Pwm |
| filters (`ad.cpp`, `drv_ad.cpp`) | queues and counters | one loop shifts, sums and picks extremes | the trimmed sum; no overshoot | AdcFilter |
| configuration (`main.cpp`, `datum.cpp`, `drv_storage.cpp`) | registers with check sum, EEPROM, status | writes during a save, page failures, power cuts | EEPROM and registers agree once quiet; a boot gets one whole image | Config, Layout |
| I2C master (`cpu_iic.cpp`) | transfer record, FIFO, one-shot timer | late interrupts after a failure or a timeout | the page holds a front part of what was written; transfers end | I2cTransfer |
| Modbus (`modbus.cpp`, `datum.cpp`, `main.cpp`, `commu.cpp`) | holding and input registers, last parsed request, one buffer for request and reply | registers of three widths, half-way refusals, the reply built over the request | an array of registers; every change is saved; a reply answers its request | Modbus, RegisterBank, ModbusFrame, Crc16 |
| serial link (`cpu_uart.cpp`, `utils.cpp`, `commu.cpp`) | receiver, frame queue, transmitter, bus direction, byte timer, registers | half duplex with one status for several contexts; a queue shared by two interrupts | recovers, releases the line, answers; frames and lines come through whole | UartLink, FrameQueue, FrameFifo, Sending, LineSetup |
| device layer (`hal.cpp`, `devices.cpp`, drivers' tables) | device table, flags, common error variable | opened while requests come in; called from two contexts | requests find it ready; errors stay with their device | StartUp, Device |
| start-up and masking (`bsp_startup.cpp`, `cpu_interrupt.cpp`, `core_cm3.h`, vector table) | PRIMASK, priorities, enables | nested sections, priorities set by order of calls | the contexts above | StartUp, Interrupts, Vectors, LineSetup |
| clock, calendar, log (`service.cpp`, `timestamp.cpp`, `api/log/`) | seconds and ticks, cached text, line buffer | seconds and ticks read apart; leap years; room in a line | a stamp is near its time; dates there and back; lines read as written | WallClock, Calendar, Strptime, LogStream, Sending |
| message queue (`service.cpp`, compiled out) | free list and queue through one pool | senders nest between two sections | every message comes out as it was sent | MessageQueue |
| ring buffer (`utils.cpp`) | two indices and a size | data in one piece or two | bytes come out in order | RingBuffer |
| sensor formulas, unused drivers, rest of the vendor library | - | - | - | not modelled |

## Modules

State and actions have the names of the code wherever TLA+ allows it.

**The loop**

- **EventLoop** - the pool (`m_bitmap`, `m_index`, `m_param`), the intrusive
  lists as `m_next` / `m_prev`, the device counter and the foreground's place
  in `event_handle`. `run_inloop` is one step (it runs in PendSV), the
  foreground is cut wherever PendSV can see a difference; `event_free` is two
  steps, the load and the store of its read-modify-write. `StackEventIndex` is
  the index that `operator=` copies into the slot. **ForegroundProofs**.
- **EventQueue** - the promise of EventLoop: a post goes to the front, a splice
  takes everything, and what was taken is called from the front.
- **EventBuffer** - what an event carries: `append`, `prepend`, `read`,
  `retrieve` and `operator=` over a slot that still holds the last event.
- **LinkedList** - the lists of `service.cpp` pointer by pointer, as the reason
  why SvTimer and StartUp may have sequences instead.
- **RingBuffer**, **MessageQueue** - `circular_buffer`, and `sv_eq_*` with
  senders that interrupt each other between the two halves of a send.
- **Basis** - the interrupts and the structures (EventBuffer, LinkedList,
  RingBuffer, MessageQueue) side by side, as MCForeground takes them in.
  **BasisProofs**.

**Devices and start-up**

- **StartUp** - `main` as a program of calls (`Program`), each opened device in
  the steps of `API_DeviceOpen`, then the poller with its channels; requests
  come in and PendSV serves them at any point. **Device** extends it by what the
  calls read and leave in `s_DeviceErrorInfo`.
- **Interrupts** - PRIMASK, priorities, enables, the stack of running contexts
  and of critical sections. **Vectors** has the same in the bytes of the NVIC's
  registers, and the vector table.
- **LineSetup** - clocks, watchdog, pins, UART and DMA channel of the line as
  registers; a command is a function from registers to registers; the UART and
  the DMA controller then send bytes.

**Time**

- **SvTimer** - `timer_manage` with SysTick, the UART interrupt that restarts its
  byte timer, the timer device, and the callbacks of soft timers, which may
  themselves start and stop timers. **SvTimerProofs**.
- **WallClock** - `gettimeofday`, seconds in a section and ticks after it, with
  SysTick between any two steps, and the text that the log caches, of no second
  at first (`log.cpp:12`).
- **Calendar**, **Strptime** - `gmtime_r` against `mktime`, and `strptime`
  against what the compiler or `strftime` writes.

**Measurement**

- **Measure** - the stages of `event_handle_ad`, the steps of
  `self_calib_handle`, the driver's `adc_stat` and the DMA interrupt. A sample
  is a record of the channel, the cleanliness (heater off, measuring on) and
  the round of its conversion.
- **AdcDma**, **Pwm** - the registers of the converter with its DMA channel and
  of the pins; commands are functions on them. **MeasureDrive** composes both
  with Measure: each step of Measure gives the commands its handler gives.
- **AdcFilter** - `GetAvarageValue`, `CombiFilter`, `RapidLPFilter` over exact
  integers.

**Configuration and Modbus**

- **Config** - `datum_load`, `datum_save` and the retrying, page-wise access of
  the storage driver; PendSV writes registers between any two steps, a page
  fails with or without effect, the power goes at any time. **StorageProofs**.
- **Layout** - the same image as bytes: the offsets in `SENSOR_PARA`, the way
  `hold_reg_operate` finds them, the addresses in the EEPROM, the check sum.
- **I2cTransfer** - one transfer: foreground, SysTick and I2C interrupt over
  `t_iic_transfer`, with the controller and the EEPROM as external actions. **I2cProofs**.
- **RegisterBank** - an array of registers as a master sees it, and **Modbus**,
  the registers in memory as bytes, shorts and halves of longs, with
  `modbus_reply` and `package_event_handler`. **ModbusProofs**; StorageProofs
  also has the theorems of the composition in MCStorage.
- **ModbusFrame** - one frame in its buffer, a step for each place that reads or
  writes it. **Crc16** - the two tables against the polynomial.

**Serial link**

- **UartLink** - the transceiver, the frame queue, the parse and reply of
  PendSV, `uart_ios` and the log in the foreground, and a Modbus master that
  repeats an unanswered request. **SerialProofs**.
- **FrameFifo** - a bounded queue of frames that gives up the oldest.
  **FrameQueue** - the receiver's stores, and `buf_queue_get` in steps between
  which the UART interrupt may put a frame.
  **FrameQueueProofs**; SerialProofs carries its theorems to MCSerial.
- **Sending** - replies and log lines by their lengths; **LogStream** - lines by
  their characters.

**For TLC**: MCForeground, MCTime, MCStorage and MCSerial compose modules that
share no variable as a sum: a variable `part`, chosen in the initial state,
says which module a behaviour is about, and the variables of the others stay as
they were. Each module is explored fully; only their product is not, and it
would show nothing, as no action of one reads a variable of another. Where
components do interact, they are composed in the module itself (MeasureDrive,
Device over StartUp, Vectors over Interrupts, UartLink, I2cTransfer with its
bus). Fairness holds for the part that runs.

Definitions under a comment that starts with `(mutant)` are plausible bugs: each
property is shown to fail when the definition after it is replaced by one of
them.

### What is abstracted

- *EventBuffer*: reading or prepending more than there is, which the code's own
  asserts forbid, does not happen; the buffer has 3 bytes.
- *LinkedList*: a node that is inserted is in no list; nothing in the code says
  so, and every caller keeps to it.
- *MessageQueue*: `sv_eq_recv` polls; the one that waits enables interrupts in
  the middle (`service.cpp:342`) and is left out.
- *StartUp*, *Device*: PendSV is atomic for the foreground; requests are well
  formed; what callbacks and drivers do is in the other modules, here a device
  is readable or not.
- *Interrupts*: a peripheral may raise its interrupt at any time; sections nest
  `MaxNest` deep. *Vectors*: the numbers of the interrupts come from the tool
  chain's header, the priorities have three bits.
- *LineSetup*: a transmission starts in one step (UartLink has its preemption);
  the first byte, written to start the DMA, may or may not go out; the DMA
  interrupt comes before the next change of the rate; reset values are open
  where the library reads them.
- *SvTimer*: `Half` stands for 2^31 - 1; the assumption says how far periods
  and the longest callback stay below it.
- *WallClock*: fractions of a second are in ticks; any number of ticks comes
  between two steps. *Calendar*: a time is a day and a second of it.
  *Strptime*: a name is its abbreviation and the rest of it, case is ignored.
- *Measure*: conversions end by themselves, and the calibration timer, of a
  minute, is not due before the first one.
- *AdcDma*: a block of 2 values stands for 16; writing `ADC1MDE` resets the
  flags, on which `drv_ad.cpp:265` relies. *AdcFilter*: floats are integers,
  quotients their numerators; what nothing initialises is any value of `Stack`.
  *Pwm*: switching the outputs off and on, and `PwmLoad`, leave nothing.
- *Config*: the CRC never collides, so the check sum is the content it was
  computed from; a page is copied at one instant; the queue of events is a bag
  of "starts at register 0 or not"; the image is `NPages` pages. The baud rate
  is handled like the address and left out. Requests during boot are excluded:
  the 300 ms of the byte timer are longer than a boot. As in
  `drv_storage.cpp:111`, a failure of the last page counts as success.
- *Layout*: a transfer that fails starts the access over or is given up (the
  four tries are counted in Config); no register is written during a save (that
  is in Config); a page write wraps within its page.
- *I2cTransfer*: the FIFO is emptied by a missing acknowledge and by disabling
  the controller, which also takes back its request; a request is raised once
  for each freed place; interrupts come in time; the 25 ms after a write are
  longer than the programming of a page.
- *Modbus*: PendSV is atomic for the registers, as the foreground only reads
  them. The byte count of a multiple write is free, as nothing checks it.
  A frame that is damaged or for another address changes nothing.
- *ModbusFrame*: requests are well formed, or have one bit flipped, or are for
  another address; the buffer is 0 at each call; a measurement stores all input
  registers at once.
- *UartLink*: the bytes of a request are its positions, so that only the
  request itself parses. A byte that arrives while the UART interrupt is masked
  arrives after it. `buf_queue_put` and `buf_queue_get` are atomic. The byte
  timer runs out only when the master is not in the middle of a frame, as 300 ms
  are longer than a frame takes; stray bytes may come at any time. In an empty
  frame the first byte is whatever the stack holds, so the model lets the parse
  either reject it or run out of memory, which ends in the fault handler. A
  frame of one byte with the address always runs out of memory: the check sum
  is computed over 65535 bytes and the RAM has 8 KB.
- *FrameQueue*: the line is half duplex, and at most one byte comes in between
  two waits of PendSV (`room`). `buf_queue_put` is one step: SysTick runs it with
  interrupts masked, and the UART interrupt preempts PendSV, not the reverse.
- *Sending*: texts are lengths. *LogStream*: the fixed texts of a line are one
  character each, an `int` has 8 bits, the text of a double comes from the C
  library.

## Runs

Twelve: four that pass, each over one of the MC modules, and eight that show a
property violated by what the code does.

| run | module | parts | result |
|---|---|---|---|
| `event_loop` | MCForeground | loop, start, measure, filter, core, data, crc, line, frame, list, ring, mail | passes |
| `sv_timer` | MCTime | timers, clock, calendar, parse | passes |
| `config` | MCStorage | config, transfer, late, registers, layout | passes |
| `uart_link` | MCSerial | link, queue, send, text | passes |
| `event_loop_free` | EventLoop | writes finish anywhere | `NeverWild` violated |
| `event_loop_full` | EventLoop | the pool of 6 | `RoomForPost` violated |
| `start_up_write` | StartUp | a write before the loop runs | `PostFindsLoop` violated |
| `measure_stall` | Measure | - | `NormalMeasure` violated |
| `heater` | MeasureDrive | - | `WashHeats` violated |
| `pressure_code` | MeasureDrive | - | `PressureSigned` violated |
| `config_address` | Config | - | `AddressIsRegister` violated |
| `uart_link_log` | UartLink | - | `WaitsForDma` violated |

Deadlock checking is off where the program, or a part of the composition,
really stops: a foreground that has walked off its list (`event_loop_free`), a
link hung in PendSV or in the fault handler (`uart_link`), and the calendar,
which ends after its last day (`sv_timer`).

### Bounds

| part | bounds, and why they are enough |
|---|---|
| loop | the real pool of 6 and two contents of an event; the leaked slots bring it through every size down to one |
| start | three requests of a master; the table, the calls and their order are the real ones |
| measure | the real lengths of the record; every step of the calibration meets every stage |
| filter | samples of 2, queues of 4, conversions at both ends of the step; a limit of 2 turns |
| core | all six interrupts, sections two deep; the real priorities of the drivers |
| data | 3 bytes, one of prepend, numbers of one and two bytes |
| crc | each byte alone, so every entry of both tables; two messages with every damage of up to two bits and every run of up to 16 |
| line | the five real rates, lines of up to 3 characters in a buffer of 2 |
| frame | 4 holding and 2 input registers, requests of up to 2; the written word 2 keeps the link address in range, the reading 515 has two different bytes |
| list, ring, mail | 2 heads and 3 nodes; a ring of 3; 3 messages of 2 bytes, senders nested twice |
| timers | 2 timers of three kinds, so that order, restart and expiry in one tick occur; a tick of 12 values and periods up to 2, so that every relative position wraps |
| clock | 4 ticks a second, a tick that wraps at 10, so that it wraps within a second |
| calendar, parse | 1200 days from 1970, 1999, 2099 and 2399, both ends of a day; 17 days that have each month and both kinds of leap century, 8 formats |
| config | 2 pages (the first and the last differ in the code), 2 contents, one queued save besides the running one |
| transfer, late | 2 bytes and one, a sub-address of one byte or two, one missing acknowledge besides those of a busy EEPROM |
| registers | bytes of 2 values, so that a long still has two halves of two bytes; 2 byte registers with different ranges, 1 short, 2 longs; up to 2 registers per request, so that a request crosses every boundary of width |
| layout | the real sizes; registers 0, 30, 31 and 32, the ends of each width; one write, one fault or restart |
| link | requests of 2 bytes in a buffer of 3, the real queue of 3, 5 stray bytes (an overflow and a remainder), one change of the baud rate, 2 log lines |
| queue | a queue of 3, frames of up to 2 bytes, 9 bytes, so that the queue is full when a frame is put |
| send, text | the real sizes of buffer, registers and line; small lines of 16 characters with numbers of at most 5 |

### Properties

One invariant may have several parts, each with its own comment in its module:

| property | says |
|---|---|
| `TypeOK` of a run | the type invariant of its first module |
| `NoLostWakeup`, `ServedOnce` | something queued wakes the loop; the loop implements EventQueue, as long as writes come in between walks |
| `EventsSound` | `ListsSound` and `SlotZeroReturns`, likewise: lists are circles without a freed slot, and slot 0, if no other, comes back |
| `PoolSound` | `DataKept`, `ListsHold`, `InOrder`, `QueueKeeps` |
| `RequestsServed` | `QuietServed`, `NeverWaits`, `OwnErrors`, `ReadsFit`, `CallsServed` of the devices |
| `DevicesSound` | `LineSet` and `LineLeaves` of the line's registers; `IsReference`, `DamageSeen` of the check sum; `RepliesAnswer` of the frame; `IsTrimmed`, `NoOvershoot` of the filters |
| `Heard` | what has become readable is read |
| `MeasureSound` | `SamplesSound`, `PinsFollow`, `BlockSound` |
| `CalibrationEnds`, `KeepsMeasuring` | the calibration ends; before the first one rounds go on |
| `PreemptionSound` | `NeverNested`, `SectionsHold`, `NotBefore`; `Handled`: what is enabled has a handler |
| `DeadlineOrder`, `LinkedIffActive`, `Handshake`, `NeverEarly`, `HardOnTime`, `PeriodHonoured`, `SoftServed` | the timers |
| `DateSound`, `StampSound` | `RoundTrip`, `DayByDay`, `ReadsBack`; `NearNow`, `Formatted` |
| `CaughtUp`, `BootWhole`, `AccessesEnd` | the configuration (`SavedWhenQuiet` and `AddressApplied` make `CaughtUp`); every access and every transfer ends |
| `TransferSound` | `Done`, `Front`, `NackFails` |
| `RangesSound` | `RangesKept`: link address and baud rate stay in range |
| `RegistersSound` | `RegistersApart`, `NeverMixed`, `Recovered`, `NothingBeside` |
| `BankSpec`, `ChangesAreSaved` | the registers implement RegisterBank; a change is queued to be saved |
| `QuietIsReady`, `BusReleased`, `HangsForGood`, `RxRecovers`, `Answered` | the link |
| `NothingCut`, `IsFifo`, `FreeAgain` | `Whole`, `LinesWhole`, `CountTells`, `LineReads`; the queue implements FrameFifo; the transmitter gets free |

Some need a word:

- `SavedWhenQuiet`: with no save queued or running and the last access
  successful, the EEPROM equals the registers. It holds although `datum_save`
  tears (`main.cpp:190-192`), because every write queues a save of its own,
  also one that ends in an exception half-way.
- `BootWhole`: every boot ends with one whole image in the registers. It does
  not say which: a failed last page is reported as success, and a boot that
  meets it writes the defaults over a good image.
- `BankSpec`: for multiple writes it says where registers change, not to what:
  `modbus.cpp:219` takes the values one byte early.
- `Hung` in `UartLink` is the exact exception to `RxRecovers` and `Answered`:
  PendSV waits for a transmission the preempted log has marked but not started,
  or a frame of less than two bytes was parsed. `HangsForGood` shows that
  neither ends.
- `EventsSound` and `ServedOnce` are checked for writes that come in while no
  walk is under way (`PostPoints`). They are false otherwise, as
  `event_loop_free` shows; what does hold wherever writes come in is
  `NoLostWakeup`, and the theorems `OnlyReuseBreaks` and `ServedUnlessReused`.
- `TransferSound` is checked where the stop after a missing acknowledge comes
  with it, and where it may come late (part `late`). From a stop that did come
  late (`late`) to the next timeout, which resets the controller, it promises
  nothing: `cpu_iic.cpp:217` takes a failed transfer for finished.
- `OwnErrors` and `ReadsFit` hold because the poll of the line reports
  `EAGAIN`, never a timeout, and because every read of a channel has a driver.

### Fairness

- *EventLoop*: weak fairness of the foreground; writes are never owed.
- *StartUp*, *Device*: the foreground and PendSV; requests are never owed.
- *SvTimer*: SysTick keeps ticking, a call that has begun ends, the handler
  runs on, and `PollTimer` is strongly fair, as `poller::poll` looks at every
  channel on each pass however often other handlers ran.
- *Measure*, *MeasureDrive*: the converter, the DMA interrupt and the
  foreground; a conversion ends by itself and the loop never blocks.
- *Config*: the foreground. Page failures, writes and power cuts are free; the
  retries end by their counter, not by fairness.
- *I2cTransfer*: the foreground, SysTick and the handler, and not the bus: a
  transfer ends even if the controller never answers.
- *UartLink*: the active low-priority context, the end of a transmission, the
  foreground once it has begun a change or a line, and a master that has begun
  a request. Stray bytes, changes and log lines are finitely many, which the
  bounds say.
- *Sending*: the end of a transmission.
- The other modules assume none.

## Findings

Eight runs end in a counterexample of a few steps. Each property is what a line
of the code, or a comment beside it, says.

| run | property | what happens |
|---|---|---|
| `event_loop_free` | `NeverWild` | `event_loop.cpp:121` frees an event and then follows its link; a write that finishes in between takes the slot again, and the walk goes on in the other list, through its head |
| `event_loop_full` | `RoomForPost` | `service.h:480` copies index 0 into every event, so each slot but 0 is used once and lost: after six writes that were queued at once, one that waits fills the pool, the next finds no room, and `main.cpp:90` does not look |
| `start_up_write` | `PostFindsLoop` | the line is open from `main.cpp:264` and `m_peventloop` is set at `main.cpp:527`; a write in between posts through a null pointer |
| `measure_stall` | `NormalMeasure` | after a calibration that interrupted a round, `main.cpp:483` switches back to measuring and nothing starts a conversion |
| `heater` | `WashHeats` | `main.cpp:430` asks for 75 %; the library refuses both calls, as the duty after reset is 0 (`PwmLib.c:108`), and the heater stays off |
| `pressure_code` | `PressureSigned` | `AdcLib.c:77` keeps the bit that makes results unsigned; the temperature sets it, and the pressure is converted unsigned from then on |
| `config_address` | `AddressIsRegister` | `main.cpp:269` sets the address before the configuration is loaded |
| `uart_link_log` | `WaitsForDma` | `cpu_uart.cpp:234` may wait in PendSV for the foreground it preempted |

### Also seen in the code

Read while modelling; the models do what the code does here, or leave it out
where "Not modelled" says so.

Serial link and transfers:

- `cpu_uart.cpp:433`: the branch for line errors is never reached, the test
  before it catches them.
- `cpu_iic.cpp:217`: a stop that comes after the missing acknowledge turns a
  failed transfer into a finished one.
- `drv_commu.cpp:90`: no `else` after the time-out.
- `cpu_iic.cpp:71` passes the two halves of the clock in the order opposite to
  what `I2cLib.c:211-214` documents.
- `cpu_uart.cpp:195`: `UrtMod` with 0 as what to write changes nothing.
- `DmaLib.c:355-388` copies a descriptor whose end pointers were not assigned.

Application:

- `main.cpp:473`: a tenth calibration record is written into arrays of nine.
- `main.cpp:281`: the comment says that PendSV runs with interrupts disabled; it
  does not.
- `main.cpp:115-121`, `main.cpp:158-167`: a load that is given up half-way leaves
  the registers partly loaded, and `datum_load` returns -1 after a recovery that
  worked.
- `drv_storage.cpp:111` reports a failure of the last page as success, and
  nothing writes or reads the magic string of the image.
- `modbus.cpp:219` takes the values of a multiple write one byte early;
  `modbus.cpp:183` answers broadcasts; `datum.cpp:270` reads input registers as
  bytes; `datum.cpp:86` returns an uninitialised `rt` for other types.
- `datum.h:5-64`: the enumeration of the registers is not the numbering the
  code uses.

Measurement:

- `drv_ad.cpp:295` adds up into a variable nothing initialises, and the filters
  of `ad.cpp:192` use their memory before they have filled it.
- `ad.cpp:125` keeps moving by the rounding of its step.
- `drv_ad.cpp:123-141`: the single conversion of the RHS leaves the excitation
  of the RTD on.

Library:

- `service.cpp:36` reads the clock in two parts, `hal.cpp:392` replaces the flags
  of an open device, and the offline limit is above 5 where its comment says 5
  (`devices.cpp:52`); no driver's time-outs reach that counter.
- `service.cpp:615`: a timer that is unregistered stays activated.
- `channel.cpp:40` does not look at the result of a read.
- `timestamp.cpp:325`, `:332`: misspelt names; `:426`, `:555`: `%r` is always
  refused; `:647`: `%C` 19 with a `%y` of at most 68 gives a year of 20xx.
- `timestamp.cpp:236` does not terminate its text (its only caller,
  `main.cpp:240`, is compiled out); `log.cpp:7` names one error.
- `utils.cpp:450`, `:467`: two check sums with opposite byte orders;
  `utils.cpp:102` is wrong on negative numbers; `utils.cpp:152` never advances its
  pointers; `macro.h:70` does not align.
- `WdtLib.c:48` keeps the watchdog enabled and turns its time-out into an
  interrupt.

## Proofs

Eight modules, for every value of the constants that the named assumption of
the component allows: an `ASSUME` of the module where it stands alone, a
definition that the theorem names where an MC module instantiates the component
(`InterruptsAssumption`, `VectorsAssumption`, `MeasureDriveAssumption`,
`EventBufferAssumption`, `LinkedListAssumption`, `RingBufferAssumption`,
`MessageQueueAssumption`, `ModbusAssumption`, `I2cAssumption`, `FrameQueueAssumption`, and `SerialAssumption`, `StorageAssumption` for the
compositions).

| module | theorem | states |
|---|---|---|
| ForegroundProofs | `TypeCorrect` | `TypeOK` |
| | `NoEventForgotten` | `NoLostWakeup` |
| | `OnlyReuseBreaks` | queue and batch are whole circles until a write is given a slot that is still linked |
| | `ServedUnlessReused` | until then, the safety part of `ServedOnce` |
| | `PreemptionHolds` | `PreemptionSound` of MCForeground |
| | `StructuresHold` | `PoolSound` of MCForeground |
| | `StartUpServes` | `RequestsServed` of MCForeground |
| | `MeasurementSound` | `MeasureSound` of MCForeground |
| | `LinesLeaveWhole` | `LineSound` of MCForeground, a part of `DevicesSound` |
| SvTimerProofs | `TypeCorrect`, `ListsHoldTheActive`, `WrapSafe`, `SignalKept` | `TypeOK`, `LinkedIffActive`, `DeadlineOrder`, `Handshake` |
| | `HardTimersOnTime`, `CallbacksNotEarly` | `HardOnTime`, `NeverEarly` |
| | `PeriodsKept` | `PeriodHonoured`, if the product fits its word |
| BasisProofs | `TypeCorrect`, `Preempts` | `TypeOK`, `PreemptionSound` of Interrupts |
| | `EventsKeep`, `RingKeeps` | `DataKept` of EventBuffer, `InOrder` of RingBuffer, with the types |
| | `ListsKeep`, `QueueKeeps` | `ListsHold` of LinkedList, `QueueKeeps` of MessageQueue, with the types |
| ModbusProofs | `TypeCorrect`, `AddressInRange`, `IsBank`, `NothingUnsaved` | `TypeOK`, `RangesKept`, `BankSpec`, `ChangesAreSaved` of Modbus |
| I2cProofs | `TypeCorrect` | `TypeOK` of I2cTransfer |
| | `DoneWasDone`, `NothingElseWritten`, `NackReported` | `Done`, `Front`, `NackFails`: all but from a late stop to the next timeout |
| FrameQueueProofs | `TypeCorrect`, `FramesWhole`, `IsBoundedFifo` | `TypeOK`, `Whole`, `IsFifo` of FrameQueue |
| SerialProofs | `TypeCorrect`, `ReadyWhenQuiet`, `LineReleased`, `NoWayOut` | `TypeOK`, `QuietIsReady`, `BusReleased`, `HangsForGood` |
| | `FramesComeWhole`, `QueueIsFifo` | `Whole` and `IsFifo` of MCSerial |
| StorageProofs | `TypeCorrect`, `SavesCatchUp`, `BootsWhole` | `TypeOK`, `CaughtUp`, `BootWhole` |
| | `RangesHold`, `RegistersAreBank`, `ChangesSaved`, `TransfersSound` | `RangesSound`, `BankSpec`, `ChangesAreSaved`, `TransferSound` of MCStorage |

### The arguments

- **ForegroundProofs**, on the loop, wherever writes come in: between walks, in
  the middle of one, between the two halves of `event_free`. For `TypeCorrect`
  and `NoEventForgotten` the links must be known to stay within the pool:
  `SpliceLinks` and `VisitType` give that for the splice and the walk.
  `OnlyReuseBreaks` is about two sequences of distinct slots without a slot in
  common: the circle behind the queue head, and what the walk has still to do
  (`ListsWhole`). Neither asks that a linked slot is taken in the bitmap, and
  that is the point: the walk frees before it follows the link, so a linked slot
  may be free. Each action then puts one in front, hands the queue over, calls
  the first, drops the first, or leaves both circles; the one exception is
  `Reuse`, a write whose slot is still in a circle. That exception exists
  (`event_loop_free` reaches it), and it is the only one: nothing else that
  PendSV does to the bitmap or the links at any point can make a request run
  twice or out of order (`ServedUnlessReused`, the safety part of the refinement
  of EventQueue).
- **ForegroundProofs**, on the measurement. `DriveInv` has three parts.
  `StagesInv` is about the stages and the calibration that may begin between
  any two of them. `SamplesSound` alone is not inductive: that a sample is clean
  when it is stored needs that a stage in measure mode gets the very sample it
  asked for (`Chained`), which is true because a calibration that cuts a round
  short leaves nothing to read and nothing under way (`Course`), so that the
  chain stalls - the finding of `measure_stall` - before it could hand a sample
  of the washed sensor to a stage; and a channel is served only when there is
  something to read, and once (`Ready`). `ConverterInv` is about the block: while
  one is `Filling`, the values that are in were converted with the setting that
  is `Proper` for its channel; when it is `Filled` the converter goes on, but its
  values reach no memory; otherwise it is `Resting`, and only then a single
  conversion is run. `Follows` says that the three registers of the pins are as
  the handlers take them to be whatever they were before the command. The
  library's read, mask and write is followed field by field (`MadeRanged`,
  `InputsSet`, `SwitchSets`). A step of the registers is then a step of the
  stages or none (`DriveStep`).
- **ForegroundProofs**, from reset to the loop. `QuietServed` and `CallsServed`
  are about a program of calls, `Program`, that is put together from the
  functions of `main.cpp`; `ProgramIs` takes it apart again, call by call, and
  `Calls` reads off what the order is for: the handler of PendSV stands before
  the first `open`, the loop last, and only channels are enabled and called
  back. `StartInv` has four parts. `MainInv`: by the time the interrupt of the
  UART is let in there is a handler, and the device object has been found
  (`DV!Listens`). `LineInv`: PendSV is pending as long as a request waits, and
  only then; with both, a request that comes in the middle of `open` is served.
  `ChannelInv`: what is polled and called back is a channel. `ReadInv`: no read
  waits, times out or reports more than it filled, because PendSV runs only with
  a request waiting. `CallsServed` then follows from the tables of the drivers.
- **ForegroundProofs**, on the line. What a line on the wire is at any time needs
  an account of every byte of it (`LineWhole`): at most one stray byte ahead,
  then those that the DMA controller has taken over, of which one may wait in
  `COMTX`, and the rest still in `m_tx_buf` where the descriptor says. The
  setting of the UART is followed command by command (`PinsSet`, `RateSet`,
  `UartSet`); the rate is arithmetic for each of the five (`NearRate`).
- **SvTimerProofs**. Deadline order alone is not inductive: it must be known
  that every armed deadline lies within `MaxInit` ahead and `MaxLate` behind
  (`Timing`), which in turn needs that no timer is in both lists or twice in one
  (`NoDup`), and what each program point of the foreground has in hand
  (`InHand`). Wrapped differences are turned into ordinary ones once, in
  lemmas, and never met again. `PeriodsKept` assumes `AskedFits`: the tick rate
  times the period stays below the word `MsWord`. At 100 ticks a second 2^32 is
  reached after 11.9 hours; the longest period of the program is the 8 hours of
  `def_SELF_CALIB_TIME`.
- **StorageProofs**, on the configuration. The strengthening says, for each point of a save, which
  pages of the EEPROM already equal the live image unless a save is queued
  (`SaveSound`), and for each point of a boot which pages have been read or
  rewritten (`BootSound`).
- **SerialProofs**, on the link. A quiet device is ready only because a closed receiver
  always has a frame in the queue and a PendSV to look at it (`ClosedIsTold`),
  bytes in the buffer have a timer (`BytesAreTimed`), and a marked transmission
  has a DMA channel or a foreground about to start it (`BusyIsReal`); `IInv` is
  their conjunction with the type invariant.
- **BasisProofs**, on the interrupts, for any priorities of the drivers and any
  depth of sections. Exclusion is not inductive by itself. That PendSV and SysTick never
  nest needs that running handlers have pairwise different priorities
  (`Strict`) and that start-up gave both the same one (`Equals`); that a section
  holds needs that only the running context has open sections (`Open`), and that
  the PRIMASK values it has saved mirror the nesting (`Nested`), so that only
  its outermost end lets interrupts in again. `Inv` joins these with `Masked`,
  `Unmasked` and `Line`, and there is a lemma for each action. `VectorsInv` adds
  that the registers mirror the names: a bit of ISER is set exactly if its
  interrupt is enabled, each byte of IP and SHP is a priority shifted into
  place, which loses nothing of it (`Shifts`, for each number of priority bits),
  and LOAD is one less than the cycles of a tick (`TicksFit`). `AllHandled` then
  finds a handler in the vector table for whatever is enabled. ForegroundProofs
  carries the result to MCForeground as `PreemptionHolds`.
- **BasisProofs**, on the structures. Each promise is about what a reader of the
  structure sees, and each needs what the memory is in between. The event: the
  bytes from `readerIndex_` to `writerIndex_` are the data (`Holds`), and an
  operation on one event leaves the others (`Only`), the slot that is assigned
  to included. The ring: the cells in use are `size_` in number from
  `beg_index_` on, and `Rounds` says that so many are different ones wherever
  the storage wraps. The lists: the links of each lead round its items and back
  (`Linked`), no item is in two lists, and one in no list is linked to itself,
  which is why a second `list_del` does no harm; `Inserted`, `Removed` and
  `Spliced` are what the three writes of links make of a ring, and `WalkIs` turns
  links into what a walk comes across. The message queue: the free list and the
  queue are two paths along `next` (`Path`) without a message in common, the
  messages in the hands of the contexts are in neither and all different
  (`Places`), and what each context has in its hands is what it is about to
  hand on (`Hand`); so a sender that is preempted between its two sections finds
  its message untouched. `ListsHold` and `QueueKeeps` are stated with the
  recursive walks `Walk` and `Chain`, whose values are found by an induction
  over the set of numbers up to which they are right (`SetInduction`).
- **ModbusProofs**, for any radix of a byte, any map of registers and any
  table of ranges. `IInv` is the types and the ranges together: a multiple write
  that is refused half-way leaves the registers before the refusal, so a range
  is kept only if every prefix of the write keeps it (`StoresInPlace`, by
  induction over the set of its prefixes). That a bank of bytes, shorts and
  halves of longs is one array needs that the halves of a long are told apart by
  the parity of their distance from the last split, and that setting one half
  leaves the other (`Halves`, `LongRegisters`, and `SetGet` for a get after a
  set). `IsBank` is then an argument by function code.
- **I2cProofs**, for accesses of any length. `DoneIsDone` looks at the last step
  of a transfer only; what it needs is what has become of each byte before.
  `TransferInv` says it: the sub-address and then the data are, in order and
  without gaps, in the page and the FIFO (`InOrder`); the bytes read so far are
  the first ones of the EEPROM (`Reading`); what the record asks the handler to
  do next agrees with that (`Asked`); after the stop, one of `Written`,
  `Reading` to the end or a reported missing acknowledge is the case (`Ended`);
  and between transfers nothing is left in FIFO, page or status (`Quiet`), or
  the next one would begin with it. There is one lemma per action of handler,
  SysTick, foreground and bus. Whether a stop comes late is chosen at each
  missing acknowledge; from there on (`late`) only the types are kept, as
  `cpu_iic.cpp:217` may take that stop for the end of a transfer, and a timeout
  establishes the rest again, wherever the transfer then was.
- **FrameQueueProofs**, for any number of slots, size of a slot and length of
  line. `Whole` speaks of the frame handed over last; what it needs is that no
  store in between falls into the slot that is being copied. A receiver that is
  open keeps a slot free to overflow into, and one more while a frame is being
  copied out (`RoomToOverflow`), so that what is written never falls into the slot
  being copied (`Apart`, by the arithmetic of `Turn` and `Place`).
  `Progress` and `Copying` say how much of a frame the stores of the receiver
  and of the copying loop have done; `Ends` places indices and counters in the
  ring; `InOrder` orders the bytes of the line: those handed over last, those
  being copied, those of the queued frames, those being received. The abstract
  queue is the sequence of frames in the slots from `front` on, and `IsBoundedFifo`
  goes through the steps one by one: a frame that is put and the
  critical section of `get` are steps of FrameFifo, the others stutter.
- **The compositions**. `StorageInv` and the second half of SerialProofs carry
  the theorems of ModbusProofs, I2cProofs and FrameQueueProofs over to the
  specifications that TLC checks: each is the invariant of the part a behaviour
  is about, and the variables of the other parts stay as they were.

### Only model-checked

- `EventsSound`, that slot 0 comes back included, and `ServedOnce` as a whole.
- Liveness: `SoftServed`, `CalibrationEnds`, `KeepsMeasuring`, `AccessesEnd`,
  `RxRecovers`, `Answered`, `Heard`, `FreeAgain`, and that the loop gets to every
  event (`ServedOnce`): the prover has no fairness.
- `IsReference`, `DamageSeen`, `IsTrimmed`, `DateSound`, `StampSound`: what a
  fold or a recursive function computes for every input. The induction theorems
  of the library take an operator and cannot be used; what can is an induction
  over a set of numbers (`SetInduction`, from the well-foundedness of the
  naturals), which serves ForegroundProofs, BasisProofs and ModbusProofs, but each of these would need a theory of
  polynomials, of calendars or of sorting besides.
- `NeverMixed` and `Recovered` of `RegistersSound`: two images may have the same
  check sum, so they hold of the values of the run and not of all.
- The rest of `DevicesSound` (the frame and the types of the devices), the parts of `NothingCut` about replies and log lines
  (`Whole` is proved), and the rest of `RegistersSound`: they are not proved.

## Not modelled

- The formulas of `algorithm.cpp`: real numbers, no state besides the inputs.
- `drv_uart.cpp` and the template: compiled out. `protocol.cpp`: only with
  `RAW_MAC`, which the project file does not define. The monitor in `utils.cpp`:
  under `#if 0`. `dvectrs.c`: not in the project file.
- The functions of the Analog Devices library and of CMSIS that the program
  never calls, which are most of them.
- SPI and the plain pin driver: stubs that do nothing (`cpu_spi.cpp`,
  `drv_pin.cpp`).
- `sv_eq_recv` with a wait, the removal of channels, leaving the
  loop, closing a device, sleeping, the asctime family and the conversions of
  `utils.cpp`: nothing calls them.

## What could follow

- A refinement of UartLink's queue by FrameQueue, now two separate models that
  share FrameFifo only by its promise.
- One composition of a write, its event, its save and the reload after a power
  cut: `SavedWhenQuiet` has the middle of it, `ServedOnce` and `Layout` its ends.
