SPECIFICATION Spec
CONSTANTS
    NULL = NULL
    Ksks = {k1, k2}
    Csks = {c1}
    Unusable = {}
    Psocks = {p1}
    NUM_RAKAIA_SOCKETS = 2
SYMMETRY LifecycleSymmetry
INVARIANTS
    TxWorkReturns
CHECK_DEADLOCK FALSE
