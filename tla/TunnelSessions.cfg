SPECIFICATION Spec
CONSTANTS
    Token = {t1}
    Conn = {c1, c2}
    Query = {q1}
    None = None
    Ready = Ready
    PendingTTL = 0
    DisconnectedTTL = 0
    SocketBuf = 1
    MaxNow = 2
SYMMETRY ConnSymmetry
CHECK_DEADLOCK FALSE
INVARIANTS
    TypeOK
    OneCliPerSession
    NoDoubleClose
    DialectOfConnectedCli
    PendingSessionsKept
PROPERTIES
    ImplementsRelay
