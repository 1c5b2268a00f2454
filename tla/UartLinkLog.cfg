CONSTANTS
    L = 2
    Cap = 3
    QueueCap = 3
    MaxNoise = 4
    MaxIos = 1
    MaxLogs = 1
SPECIFICATION Spec
INVARIANT WaitsForDma
CHECK_DEADLOCK FALSE
