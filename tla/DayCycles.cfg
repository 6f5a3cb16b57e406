SPECIFICATION Spec
CONSTANTS
    Setting <- MCSetting
    Day = 6
    Days = 3
    MaxJobs = 3
    MaxAttempts = 2
    Never = Never
INVARIANTS
    AskedOnceADay
    MissedDayHasACause
CHECK_DEADLOCK FALSE
