SPECIFICATION Spec
CONSTANTS
    Features = {"f1", "f2"}
    AfterLists <- AfterFirst
    Ops = {"remove", "escalate"}
    Faults = {"reject", "throw", "skip"}
    Extras = {"auto", "then"}
    Marks = {"complete"}
    MaxRows = 2
    MaxOps = 2
    MaxOther = 0
    MaxCrashes = 1
INVARIANT SlotOfOne
INVARIANT ClassifiedInTime
INVARIANT DependenciesDone
PROPERTY NeverRevived
CHECK_DEADLOCK FALSE
