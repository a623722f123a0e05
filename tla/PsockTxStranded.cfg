SPECIFICATION Spec
CONSTANTS
    s1 = s1
    s2 = s2
    m1 = m1
    m2 = m2
    m3 = m3
    NULL = NULL
    Work = Work
    Senders = {s1, s2}
    Replies <- Replies3
    Size <- Size3
    SizeGoal = 3
    MAX_SKB_FRAGS = 2
    SndBuf = 16
    MayFail = FALSE
    SeqSpace = 32
    Isn = 1
INVARIANTS
    WaitQueueDrained
CHECK_DEADLOCK FALSE
