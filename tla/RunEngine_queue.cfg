SPECIFICATION FairSpec
CONSTANTS
    NumRuns = 2
    Cap = 1
    MaxAttempts = 2
    NumSlots = 2
    TrackRuns = {}
    KeepSession = {FALSE}
    TailPrunes = FALSE
    SdkResults = {"completed"}
    OperatorOps = {"cancel", "pause"}
    AskKinds = {}
    MaxOps = 1
    MaxCrashes = 2
    MaxStalls = 1
    MaxMsgs = 0
INVARIANT RetryBudget
INVARIANT RunningHasTask
INVARIANT WorkConserving
PROPERTY PumpRespectsCap
PROPERTY FifoStart
PROPERTY ImplementsScheduler
PROPERTY QueuedIsServed
PROPERTY RunSettles
CHECK_DEADLOCK FALSE
