SPECIFICATION FairSpec
CONSTANTS
    c1 = c1
    c2 = c2
    c3 = c3
    p1 = p1
    p2 = p2
    p3 = p3
    Client = {c1, c2, c3}
    NoClient = NoClient
    Path = {p1, p2}
    Hash <- OwnBucket
    MaxFiles = 2
    MaxSize = 2
    SizeMod = 8
    Requests <- WaitRequests
    NWorkers = 3
    CountBound = 2
    QueueBound = 3
    FileBound = 3
    ReplyBound = 1
INVARIANTS NoWaiterForgotten
PROPERTIES RequestsComplete FreeLockGranted
CHECK_DEADLOCK FALSE
