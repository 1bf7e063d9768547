SPECIFICATION FairSpec
CONSTANTS
    p1 = p1
    p2 = p2
    Path = {p1, p2}
    NoPath = NoPath
    NoCall = NoCall
    Calls <- AllCalls
    ServerMayExit = TRUE
    ServerMayStall = TRUE
    MaxCalls = 3
    MaxFiles = 1
INVARIANTS TypeOK AnswersTaken SuccessIsRealInStep OpenedAgree
PROPERTIES CallsReturn
CHECK_DEADLOCK FALSE
