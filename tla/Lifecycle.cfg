SPECIFICATION Spec
CONSTANTS
    NULL = NULL
    Ksks = {k1, k2, k3}
    Csks = {c1, c2, c3}
    Unusable = {c3}
    Psocks = {p1, p2, p3}
    NUM_RAKAIA_SOCKETS = 2
SYMMETRY LifecycleSymmetry
INVARIANTS
    CntExact
    NoDanglingSlot
    ReceiverAlive
    SlotOwned
    OopsOnlyAfterFailedAttach
PROPERTIES
    ReleaseOnlyWhenLast
    LastDetachesAll
CHECK_DEADLOCK FALSE
