SPECIFICATION FairSpec
CONSTANTS
    NumRuns = 2
    Cap = 1
    MaxAttempts = 2
    NumSlots = 2
    TrackRuns = {}
    KeepSession = {TRUE}
    TailPrunes = FALSE
    SdkResults = {"completed"}
    OperatorOps = {"cancel"}
    AskKinds = {"mcp"}
    MaxOps = 1
    MaxCrashes = 1
    MaxStalls = 0
    MaxMsgs = 0
PROPERTY FreedSlotIsRefilled
CHECK_DEADLOCK FALSE
