SPECIFICATION FairSpec
CONSTANTS
    Callers = {c1, c2}
    Loops = {l1, l2}
    Replies <- MCLiveReplies
    QueueCap = 1
    MaxOps = 3
    MaxLog = 2
    None = None
PROPERTY
    TurnsEnd
CHECK_DEADLOCK FALSE
