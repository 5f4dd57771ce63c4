SPECIFICATION FairSpec
CONSTANTS
    NumRuns = 2
    Cap = 2
    MaxAttempts = 2
    NumSlots = 2
    TrackRuns = {2}
    KeepSession = {TRUE}
    TailPrunes = FALSE
    SdkResults = {"completed"}
    OperatorOps = {}
    AskKinds = {}
    MaxOps = 0
    MaxCrashes = 1
    MaxStalls = 0
    MaxMsgs = 0
PROPERTY BootReturns
CHECK_DEADLOCK FALSE
