SPECIFICATION ReplySpec
CONSTANTS
    Token = {t1}
    Conn = {c1}
    Query = {q1, q2}
    None = None
    Ready = Ready
    PendingTTL = 0
    DisconnectedTTL = 0
    SocketBuf = 1
    MaxNow = 1
VIEW ServerView
CHECK_DEADLOCK FALSE
INVARIANTS
    WaitersReachable
    PendingOnlyLive
PROPERTIES
    EveryQueryReturns
