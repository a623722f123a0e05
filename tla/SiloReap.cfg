SPECIFICATION Spec
CONSTANTS
    NCores = 3
    MaxTick = 3
    NULL = NULL
    Objs = {1, 2, 3, 4, 5, 6}
    NTuples = 6
    ReadOnlyEpochMultiplier = 1
    EpochTimeMultiplier = 1
    Keys = {"a", "b"}
    Loaded <- MCLoaded
    Workloads <- ReapWorkloads
    MaxNum = 5
INVARIANTS
    Serializable
