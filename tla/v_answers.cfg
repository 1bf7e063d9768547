SPECIFICATION Spec
CONSTANTS
    p1 = p1
    p2 = p2
    Path = {p1, p2}
    NoPath = NoPath
    NoCall = NoCall
    Calls <- AppendCalls
    ServerMayExit = FALSE
    ServerMayStall = FALSE
    MaxCalls = 3
    MaxFiles = 1
INVARIANTS SuccessIsReal
CHECK_DEADLOCK FALSE
