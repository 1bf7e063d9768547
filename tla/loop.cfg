SPECIFICATION Spec
CONSTANTS
    w1 = w1
    w2 = w2
    Worker = {w1, w2}
    ClientFd = {3, 4}
    Connected = {}
    Connections = 3
    Mortal = {3, 4}
    ReadsMissing = FALSE
SYMMETRY WorkerSymmetry
INVARIANTS TypeOK OnePlace FdMaxCovers
PROPERTIES GracefulDrains
CHECK_DEADLOCK FALSE
