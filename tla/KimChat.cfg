SPECIFICATION FairSpec
CONSTANTS
    MaxTurns = 2
    MaxLoads = 2
    None = None
INVARIANTS
    ChatTypeOK
    TemporaryMeansOpen
    FinalMeansStored
    QuietScreenTellsConversation
    TurnsDoNotInterleave
PROPERTY
    SendingEnds
CHECK_DEADLOCK FALSE
