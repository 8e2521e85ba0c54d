SPECIFICATION Spec
CONSTANTS
    Start <- MCStart
    Sources = {"cam", "game"}
    Transforms = {"t0", "t1"}
    MaxId = 2
    MaxEvents = 4
INVARIANTS RowsCurrent OneSelection WritesHit OneUndoPerBurst
PROPERTIES LockedStays
CHECK_DEADLOCK FALSE
