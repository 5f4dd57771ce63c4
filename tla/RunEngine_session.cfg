SPECIFICATION Spec
CONSTANTS
    NumRuns = 1
    Cap = 1
    MaxAttempts = 2
    NumSlots = 3
    TrackRuns = {1}
    KeepSession = {TRUE, FALSE}
    TailPrunes = TRUE
    SdkResults = {"failed"}
    OperatorOps = {"cancel", "pause", "resume", "send", "interrupt", "queue", "answer"}
    AskKinds = {"mcp"}
    MaxOps = 3
    MaxCrashes = 1
    MaxStalls = 0
    MaxMsgs = 1
INVARIANT TypeOK
PROPERTY CancelSticks
PROPERTY MessageStartsTurn
PROPERTY StartsInContext
CHECK_DEADLOCK FALSE
