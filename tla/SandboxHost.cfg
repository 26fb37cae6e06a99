SPECIFICATION Spec
CONSTANTS
    c1 = c1
    c2 = c2
    s1 = s1
    p1 = p1
    p2 = p2
    Callers = {c1, c2}
    IDs = {s1}
    Procs = {p1, p2}
    MaxSessions = 1
    MaxSnapshots = 2
    MaxContainers = 1
    Runtimes = {"gvisor", "none"}
    Workloads <- Mixes
    MaxCalls = 5
    MaxFaults = 1
    None = None
SYMMETRY Symmetry
INVARIANTS
    NothingLeaks
    SnapshotsAreSound
PROPERTIES
    DestroyingIsFinal
CHECK_DEADLOCK FALSE
