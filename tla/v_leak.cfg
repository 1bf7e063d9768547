SPECIFICATION FairSpec
CONSTANTS
    c1 = c1
    c2 = c2
    c3 = c3
    p1 = p1
    p2 = p2
    p3 = p3
    Client = {c1, c2}
    NoClient = NoClient
    Path = {p1, p2}
    Hash <- OwnBucket
    MaxFiles = 2
    MaxSize = 2
    SizeMod = 8
    Requests <- ContentRequests
    NWorkers = 2
    CountBound = 1
    QueueBound = 2
    FileBound = 1
    ReplyBound = 1
PROPERTIES RequestsComplete
CHECK_DEADLOCK FALSE
