SPECIFICATION Spec
CONSTANTS
    NumRuns = 1
    Cap = 1
    MaxAttempts = 2
    NumSlots = 3
    TrackRuns = {}
    KeepSession = {TRUE, FALSE}
    TailPrunes = FALSE
    SdkResults = {"completed", "failed"}
    OperatorOps = {"cancel", "answer", "pause", "resume"}
    AskKinds = {"mcp", "sentinel"}
    MaxOps = 4
    MaxCrashes = 2
    MaxStalls = 2
    MaxMsgs = 0
INVARIANT NeedsInputAnswerable
INVARIANT WaiterHasQuestion
INVARIANT AnswerReachesTask
PROPERTY PauseOutlivesTurn
CHECK_DEADLOCK FALSE
