CONSTANTS
    NTimers = 2
    Kinds = {{}, {"SOFT"}, {"SOFT", "PERIODIC"}}
    Half = 5
    TicksPerSecond = 100
    MsWord = 65536
    Asked = {5, 20, 60}
    MaxInit = 2
    MaxLate = 1
SPECIFICATION MCSpec
INVARIANTS TypeOK DeadlineOrder LinkedIffActive Handshake DateSound
PROPERTIES NeverEarly HardOnTime PeriodHonoured SoftServed StampSound
CONSTANTS
    TICK_PER_SECOND = 4
    ClockTickMod = 10
    Built = 3
    ClockSeconds = 9
    Starts = {0, 10600, 47117, 156708}
    Span = 1200
    Seconds = {0, 86399}
    Written = {0, 10600, 20826, 20864, 20899, 20909, 20946, 20984, 21021,
               21031, 21069, 21106, 21144, 21153, 21243, 47117, 156708}
CHECK_DEADLOCK FALSE
