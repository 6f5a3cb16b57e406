SPECIFICATION DrainSpec
CONSTANTS
    Token = {t1}
    Conn = {c1}
    Query = {q1}
    None = None
    Ready = Ready
    PendingTTL = 0
    DisconnectedTTL = 0
    SocketBuf = 1
    MaxNow = 2
CHECK_DEADLOCK FALSE
PROPERTIES
    DrainReleasesWaiters
    StaleSessionsSwept
