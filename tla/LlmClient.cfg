SPECIFICATION ClientSpec
CONSTANTS
    Providers = {"anthropic", "openai", "google"}
    MaxBlocks = 4
    MaxFrags = 2
    MaxSent = 4
    BufferSize = 1
    Models <- MCModels
    Contents <- MCContents
    StopReasons = {"toolUse", "error"}
    MaxLog = 5
    MaxTurns = 2
    MaxResumes = 1
INVARIANTS
    MessageIsWhole
    OutcomeIsHonest
    CallsAreAnswered
    TextsAreKept
PROPERTIES
    CancelEnds
CHECK_DEADLOCK FALSE
