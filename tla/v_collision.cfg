SPECIFICATION Spec
CONSTANTS
    c1 = c1
    c2 = c2
    c3 = c3
    p1 = p1
    p2 = p2
    p3 = p3
    Client = {c1, c2}
    NoClient = NoClient
    Path = {p1, p2}
    Hash <- SharedBucket
    MaxFiles = 2
    MaxSize = 2
    SizeMod = 8
    Requests <- ReplaceRequests
    NWorkers = 2
    CountBound = 2
    QueueBound = 3
    FileBound = 2
    ReplyBound = 1
PROPERTIES OnlyOwnerRemoves
CHECK_DEADLOCK FALSE
