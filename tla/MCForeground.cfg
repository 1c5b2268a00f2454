CONSTANTS
    NSlots = 6
    Requests = {r1, r2}
    NoRequest = NoRequest
    PostPoints = {"poll", "read", "splice"}
    EarlyWrites = FALSE
    MaxFrames = 3
    SampleLen = 2
    RecordLen = 4
    ChangeLimit = 2
    Slope = 1
    Far = 16
    Conversions = {0, 16}
    Stack = {0, 2}
    Lowest = 7
    UART_IRQ_PRIO = 1
    I2CM_IRQ_PRIO = 2
    DMA_UART_TX_IRQ_PRIO = 0
    MaxNest = 2
    PrioBits = 3
    TicksPerSecond = 100
    TxSize = 2
    Symbols = {"a", "b"}
    def_EVENT_DATA_SIZE = 3
    cheapPrepend = 1
    Widths = {1, 2}
    Bytes = {0, 1}
    hold_reg_max_no = 4
    input_reg_max_no = 2
    Regs = {0, 1}
    Words = {2}
    Reading = 515
    MaxRegs = 2
    Heads = {h1, h2}
    Items = {n1, n2, n3}
    CAPACITY = 3
    RingBytes = {0, 1}
    NSenders = 2
    MsgSize = 2
    PoolSize = 20
    Data = {"x", "y"}
    Lengths = {1, 3}
SPECIFICATION MCSpec
INVARIANTS TypeOK NoLostWakeup EventsSound PoolSound DevicesSound RequestsServed MeasureSound PreemptionSound
PROPERTIES ServedOnce Heard CalibrationEnds KeepsMeasuring
