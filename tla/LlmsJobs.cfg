SPECIFICATION FairSpec
CONSTANTS
    Job = {j1, j2}
    Url = {u1}
    MaxActive = 1
    MaxAttempts = 2
CHECK_DEADLOCK FALSE
INVARIANTS
    BilledOnce
    RowSettles
PROPERTIES
    NeverRevived
    QueueDrains
