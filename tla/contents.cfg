SPECIFICATION Spec
CONSTANTS
    c1 = c1
    c2 = c2
    c3 = c3
    p1 = p1
    p2 = p2
    p3 = p3
    Client = {c1, c2}
    NoClient = NoClient
    Path = {p1, p2}
    Hash <- OwnBucket
    MaxFiles = 1
    MaxSize = 2
    SizeMod = 4
    Requests <- ContentRequests
    NWorkers = 2
    CountBound = 1
    QueueBound = 2
    FileBound = 2
    ReplyBound = 1
SYMMETRY ClientSymmetry
INVARIANTS LockFieldsAgree
PROPERTIES OnlyOwnerModifies ImplementsLockService
CHECK_DEADLOCK FALSE
