SPECIFICATION FairSpec
CONSTANTS
    Callers = {c1, c2}
    Sessions = {s1, s2}
    Placements = {"agent-direct", "tools-sandbox"}
    MaxSessions = 1
    MaxProcs = 2
    MaxCalls = 4
    MaxTicks = 1
    None = None
INVARIANTS
    TypeOK
    NothingLeaks
    ServedSessionsRun
PROPERTIES
    DestroyedIsFinal
    CloseEnds
CHECK_DEADLOCK FALSE
