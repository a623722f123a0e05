SPECIFICATION FairSpec
CONSTANTS
    NULL = NULL
    w1 = w1
    w2 = w2
    Streams = {1, 3}
    Workers = {w1}
    recv_conn_window = 8
    DataLens = {1}
    Payloads = {1}
    PeerFrames <- Frames1
    Splits = {"DATA"}
    MaxFrames = 3
    MaxControls = 1
    MaxEarly = 1
    MaxFails = 1
    Releases = TRUE
INVARIANTS
    CreditConserved
    NoStrandedControl
PROPERTIES
    RequestSpec
    WindowReopens
    ArrivalsRead
CHECK_DEADLOCK FALSE
