SPECIFICATION Spec
CONSTANTS
    p1 = p1
    p2 = p2
    m1 = m1
    m2 = m2
    m3 = m3
    NULL = NULL
    Socks = {k1, k2, k3}
    Psocks = {p1, p2}
    Msgs = {m1, m2}
    Stream <- Stream2
    Oversized = {m1}
    MemPressure = TRUE
    SendMayFail = TRUE
SYMMETRY SockSymmetry
INVARIANTS
    AtMostTwo
PROPERTIES
    PoolSpec
CHECK_DEADLOCK FALSE
