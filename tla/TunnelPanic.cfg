SPECIFICATION Spec
CONSTANTS
    Token = {t1}
    Conn = {c1}
    Query = {q1}
    None = None
    Ready = Ready
    PendingTTL = 0
    DisconnectedTTL = 0
    SocketBuf = 1
    MaxNow = 1
CHECK_DEADLOCK FALSE
INVARIANT SendNeverPanics
