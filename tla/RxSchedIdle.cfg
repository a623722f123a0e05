SPECIFICATION Spec
CONSTANTS
    p1 = p1
    p2 = p2
    m1 = m1
    m2 = m2
    m3 = m3
    NULL = NULL
    Socks = {k1, k2}
    Psocks = {p1, p2}
    Msgs = {m1, m2, m3}
    Stream <- Stream3
    Oversized = {}
    MemPressure = FALSE
    SendMayFail = FALSE
SYMMETRY SockSymmetry
INVARIANTS
    IdleOnlyWhenEmpty
CHECK_DEADLOCK FALSE
