SPECIFICATION FairSpec
CONSTANTS
    Person = {p1, p2}
    Socket = {w1, w2, w3}
    Registry = {s1, s2}
    None = None
    Grace = 1
CHECK_DEADLOCK FALSE
INVARIANTS
    EveryRecordHasReaper
PROPERTIES
    AwayIsPurged
    UnwatchedIsFreed
