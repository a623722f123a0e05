SPECIFICATION Spec
CONSTANTS
    NULL = NULL
    s1 = s1
    s2 = s2
    p1 = p1
    p2 = p2
    m1 = m1
    m2 = m2
    m3 = m3
    m4 = m4
    m5 = m5
    m6 = m6
    Senders = {s1, s2}
    Psocks = {p1, p2}
    Replies <- Replies6
    Conn <- Conn6
    Skbs <- Skbs6
    Batch = {m5}
    SndBuf = 2
    MayFail = TRUE
INVARIANTS
    TypeOK
    WriterExclusive
    BusyMeansWritten
PROPERTIES
    LogSpec
CHECK_DEADLOCK FALSE
