SPECIFICATION Spec
CONSTANTS
    Starts = {"plan", "docs"}
    Execute = FALSE
    Then = TRUE
    MaxDepth = 1
    AutoBudget = 1
    Discovery = TRUE
    OperatorOps = {"retry", "skip", "abort", "roles", "answer", "followUp", "promote", "extend"}
    StopKinds = {"complete"}
    Faults = {"target", "enqueue", "spawn", "briefing"}
    MaxOps = 2
    MaxCrashes = 0
INVARIANT DeclineIsFinal
PROPERTY ImplementsLineage
CHECK_DEADLOCK FALSE
