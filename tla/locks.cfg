SPECIFICATION Spec
CONSTANTS
    c1 = c1
    c2 = c2
    c3 = c3
    p1 = p1
    p2 = p2
    p3 = p3
    Client = {c1, c2, c3}
    NoClient = NoClient
    Path = {p1}
    Hash <- OwnBucket
    MaxFiles = 2
    MaxSize = 2
    SizeMod = 8
    Requests <- LockRequests
    NWorkers = 3
    CountBound = 1
    QueueBound = 2
    FileBound = 2
    ReplyBound = 1
SYMMETRY ClientSymmetry
INVARIANTS TypeOK LockFieldsAgree WaitersBlocked
PROPERTIES ImplementsLockService
CHECK_DEADLOCK FALSE
