SPECIFICATION Spec
CONSTANTS
    EarlyWrites = TRUE
    MaxFrames = 1
INVARIANTS PostFindsLoop
CHECK_DEADLOCK FALSE
