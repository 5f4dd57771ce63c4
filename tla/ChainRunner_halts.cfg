SPECIFICATION LiveSpec
CONSTANTS
    Starts = {"plan", "docs"}
    Execute = TRUE
    Then = FALSE
    MaxDepth = 3
    AutoBudget = 1
    Discovery = TRUE
    OperatorOps = {}
    StopKinds = {"complete"}
    Faults = {"briefing"}
    MaxOps = 0
    MaxCrashes = 1
INVARIANT RecoveryBudget
INVARIANT OneAdvisory
INVARIANT ReviewedFeatureIsGated
PROPERTY HaltIsDisposed
PROPERTY CompletedMovesOn
PROPERTY DeclineIsDiagnosed
CHECK_DEADLOCK FALSE
