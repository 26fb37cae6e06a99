SPECIFICATION Spec
CONSTANTS
    Callers = {c1, c2}
    Instances = {i1, i2}
    Sandboxes = {s1, s2}
    MinInstances = 0
    MaxInstances = 2
    WarmPoolTarget = 1
    MaxSessionsPerInstance = 1
    HeadroomSessions = 0
    UnhealthyThreshold = 1
    HealthyThreshold = 1
    MaxConcurrentProvisions = 2
    LeaveInstancesOnClose = FALSE
    MaxAttempts = 2
    MaxCalls = 2
    MaxCrashes = 1
    None = None
SYMMETRY Symmetry
INVARIANTS
    TypeOK
    LaunchSlots
    GracefulDrainIsEmpty
PROPERTIES
    DrainsAreFinal
    StatesFitSessions
CHECK_DEADLOCK FALSE
