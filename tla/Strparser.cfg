SPECIFICATION FairSpec
CONSTANTS
    Lens <- LensBig
    HeaderLen = 2
    MaxMsgSize = 4
    MaxSeg = 3
    MemFails = 1
    Timeout = TRUE
INVARIANTS
    Framing
PROPERTIES
    WholeMessageDelivered
    NoDeliveryAfterStop
CHECK_DEADLOCK FALSE
