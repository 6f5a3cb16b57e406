SPECIFICATION FairSpec
CONSTANTS
    Registry = {s1, s2}
    Timer = {t1, t2}
    None = None
    Duration <- Durations
CHECK_DEADLOCK FALSE
INVARIANTS
    NoDoubleClose
    RunningIsDriven
PROPERTY
    TimerEnds
