SPECIFICATION DisplaySpec
CONSTANTS
    Canvases = {"c1", "c2", "c3"}
    Sessions = {"recording", "clips"}
INVARIANTS DrawHasOwner
PROPERTIES LastReleaseNotInDraw RemovedIsFreed
