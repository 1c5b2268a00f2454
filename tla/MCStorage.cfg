CONSTANTS
    NPages = 2
    Values = {0, 1}
    Default = 0
    MaxEvents = 1
    N = 2
    Vals = {"a", "b"}
    MaxFaults = 1
    Radix = 2
    SplitHold1 = 2
    SplitHold2 = 3
    SplitHold3 = 7
    SplitInput1 = 0
    SplitInput2 = 2
    Readings = {1}
    Sent = {1}
    MaxRegNo = 2
SPECIFICATION MCSpec
INVARIANTS TypeOK CaughtUp RangesSound RegistersSound
PROPERTIES BootWhole AccessesEnd TransferSound BankSpec ChangesAreSaved
