SPECIFICATION Spec
CONSTANTS
    NULL = NULL
    w1 = w1
    w2 = w2
    Streams = {1, 3}
    Workers = {w1}
    recv_conn_window = 8
    DataLens = {1}
    Payloads = {1, 2}
    PeerFrames <- Pings
    Splits = {"DATA"}
    MaxFrames = 3
    MaxControls = 2
    MaxEarly = 1
    MaxFails = 0
    Releases = FALSE
PROPERTIES
    PingEchoed
CHECK_DEADLOCK FALSE
