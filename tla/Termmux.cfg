SPECIFICATION FairSpec
CONSTANTS
    u1 = u1
    Streams = {u1}
    RingCap = 3
    SnapMax = 2
    SubCap = 2
    ChunkSizes = {1, 2, 4}
    EventCap = 2
    Workloads <- Mixes
    LineMax = 2
    MaxBytes = 5
    MaxLines = 3
    MaxEvents = 2
INVARIANTS
    OutputIsKept
    StopLeavesNoChild
PROPERTIES
    EndsAreNoticed
CHECK_DEADLOCK FALSE
