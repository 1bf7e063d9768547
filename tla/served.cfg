SPECIFICATION FairSpec
CONSTANTS
    w1 = w1
    w2 = w2
    Worker = {w1, w2}
    ClientFd = {3, 4}
    Connected = {3, 4}
    Connections = 0
    Mortal = {}
    ReadsMissing = TRUE
PROPERTIES RequestsServed ShutdownCompletes
CHECK_DEADLOCK FALSE
