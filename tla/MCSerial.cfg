CONSTANTS
    L = 2
    Cap = 3
    QueueCap = 3
    MaxNoise = 5
    MaxIos = 1
    MaxLogs = 2
SPECIFICATION MCSpec
INVARIANTS TypeOK QuietIsReady BusReleased NothingCut
PROPERTIES HangsForGood RxRecovers Answered IsFifo FreeAgain
CHECK_DEADLOCK FALSE
CONSTANTS
    Capacity = 3
    RxSize = 2
    MaxBytes = 9
    TxSize = 300
    RequestSize = 100
    HoldMax = 57
    InputMax = 18
    LineSize = 200
    Numeric = 32
    Digits = {1, 10}
    kSmallBuffer = 16
    kMaxNumericSize = 5
    IntWidth = 8
    MaxPieces = 2
