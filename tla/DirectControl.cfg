SPECIFICATION FairSpec
CONSTANTS
    Callers = {c1, c2}
    Instances = {i1, i2}
    Procs = {p1, p2}
    TerminateOnClose = TRUE
    MaxCalls = 5
    MaxCrashes = 1
    None = None
INVARIANTS
    NothingUnknown
    KillSparesOthers
PROPERTIES
    CloseReturns
CHECK_DEADLOCK FALSE
