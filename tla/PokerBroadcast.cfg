SPECIFICATION FairSpec
CONSTANTS
    Person = {p1, p2}
    Socket = {w1, w2, w3}
    None = None
    MaxVersion = 4
VIEW ServerView
CHECK_DEADLOCK FALSE
INVARIANTS
    EveryoneHears
PROPERTY
    HandlersReturn
