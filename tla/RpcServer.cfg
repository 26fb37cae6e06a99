SPECIFICATION Spec
CONSTANTS
    MaxCalls = 2
    Requests <- MCRequests
    HostErrors = {"ErrPoolFull"}
    Rejections = {"unauthenticated"}
    StreamCap = 1
    MaxProgress = 2
    Subscribers = {s1, s2}
    Publishers = {p1, p2}
    EventCap = 1
    MaxEvents = 3
    Burst = 2
    QueueCap = 1
    ChunkCap = 1
    MaxInputs = 2
    MaxUnits = 3
    MaxTicks = 1
INVARIANTS
    ToolAnswers
    StreamsAreOrdered
PROPERTIES
    HandlersReturn
CHECK_DEADLOCK FALSE
