CONSTANTS
    NSlots = 3
    Requests = {r1, r2}
    NoRequest = NoRequest
    PostPoints = {"poll", "read", "splice", "call", "free", "clear", "next"}
SPECIFICATION Spec
INVARIANT NeverWild
CHECK_DEADLOCK FALSE
