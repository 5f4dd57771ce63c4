SPECIFICATION Spec
CONSTANTS
    MaxOps = 5
    MaxCrashes = 1
INVARIANT QueueOnceInOrder
INVARIANT QueuedIsDelivered
INVARIANT StatusIsTrue
PROPERTY StopIsFinal
CHECK_DEADLOCK FALSE
