SPECIFICATION Spec
CONSTANTS
    NTracks = 2
    MaxUpsets = 2
    Upsets = {"call", "abort", "retry", "pause", "crash", "checkout", "tree", "planner", "enqueue", "tip", "dirty", "fail"}
INVARIANT OnlyWholeWavesMoveOn
INVARIANT NothingOwedAtRest
PROPERTY AbortIsFinal
CHECK_DEADLOCK FALSE
