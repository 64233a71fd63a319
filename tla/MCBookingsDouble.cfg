SPECIFICATION Spec
CONSTANTS
    None = None
    Requests = {q1, q2}
    Rooms = {"a"}
    ActiveRooms = {"a"}
    Codes = {1, 2}
    MaxAttempts = 2
    MaxTime = 2
INVARIANTS
    NoDoubleBooking
CHECK_DEADLOCK FALSE
