CONSTANTS
    NPages = 2
    Values = {0, 1}
    Default = 0
    MaxEvents = 1
SPECIFICATION Spec
INVARIANT AddressIsRegister
CHECK_DEADLOCK FALSE
