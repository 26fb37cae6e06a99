SPECIFICATION Spec
CONSTANTS
    Callers = {c1, c2}
    Loops = {l1, l2}
    Replies <- MCReplies
    QueueCap = 1
    MaxOps = 3
    MaxLog = 2
    None = None
SYMMETRY Symmetry
INVARIANTS
    TypeOK
    OneExecutorUntilStop
    QuiescentIsIdle
    ToolResultsMatchCalls
    FollowUpOrder
CHECK_DEADLOCK FALSE
