SPECIFICATION Spec
CONSTANTS
    Features = {"f1", "f2"}
    AfterLists <- AfterFirst
    Ops = {"remove", "cancel", "move", "kickoff"}
    Faults = {}
    Extras = {"auto"}
    Marks = {"complete", "halt"}
    MaxRows = 3
    MaxOps = 1
    MaxOther = 1
    MaxCrashes = 0
INVARIANT OnePipeline
INVARIANT QueueWorks
PROPERTY EvaluatesDecided
CHECK_DEADLOCK FALSE
