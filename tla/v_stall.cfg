SPECIFICATION FairSpec
CONSTANTS
    w1 = w1
    w2 = w2
    Worker = {w1, w2}
    ClientFd = {3, 4}
    Connected = {3}
    Connections = 1
    Mortal = {}
    ReadsMissing = FALSE
PROPERTIES RequestsServed
CHECK_DEADLOCK FALSE
