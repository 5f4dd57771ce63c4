SPECIFICATION Spec
CONSTANTS
    Releases = {1, 2}
    Bundles <- ThreeBundles
    MaxCalls = 3
    MaxUpsets = 3
    Upsets = {"throw", "kill", "stays", "dead", "late"}
INVARIANT AllOrNothing
INVARIANT WayBack
CHECK_DEADLOCK FALSE
