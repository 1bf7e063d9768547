SPECIFICATION Spec
CONSTANTS
    c1 = c1
    c2 = c2
    c3 = c3
    p1 = p1
    p2 = p2
    p3 = p3
    Client = {c1, c2}
    NoClient = NoClient
    Path = {p1, p2, p3}
    Hash <- OwnBucket
    MaxFiles = 3
    MaxSize = 3
    SizeMod = 8
    Requests <- ReplaceRequests
    NWorkers = 2
    CountBound = 3
    QueueBound = 3
    FileBound = 3
    ReplyBound = 1
SYMMETRY ClientSymmetry
INVARIANTS QueueResolves WriterPointerValid BytesAccounted WithinCapacity FilesCounted ReplacementSucceeds
PROPERTIES OnlyOwnerRemoves ImplementsFileCache
CHECK_DEADLOCK FALSE
