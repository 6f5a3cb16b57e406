SPECIFICATION FairSpec
CONSTANTS
    Actionable = {a1}
    Choice = {c1}
    MaxAttempts = 2
    BusCap = 1
    MaxResponses = 1
    MaxCrashes = 1
    None = None
CHECK_DEADLOCK FALSE
INVARIANTS
    TypeOK
    RunningIsAliveOrLost
    JobAndRowAgree

PROPERTIES
    FollowUpsEnd
    PulseSettles
    DrawerReconnects
