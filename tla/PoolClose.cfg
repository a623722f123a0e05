SPECIFICATION Spec
CONSTANTS
    NULL = NULL
    i1 = i1
    i2 = i2
    w1 = w1
    w2 = w2
    r1 = r1
    r2 = r2
    r3 = r3
    IoThreads = {i1, i2}
    Workers = {w1}
    Pieces <- ThreeRequests
    Bad = {r3}
    MayClose = TRUE
    RespLen = 2
    SndBuf = 3
    BUFSIZE = 2
    RING_CAPACITY = 1
INVARIANTS
    EpollCtlSkipped
CHECK_DEADLOCK FALSE
SYMMETRY IoSymmetry
