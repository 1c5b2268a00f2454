CONSTANTS
    NSlots = 6
    Requests = {r1, r2}
    NoRequest = NoRequest
    PostPoints = {"poll", "read", "splice"}
SPECIFICATION Spec
INVARIANT RoomForPost
