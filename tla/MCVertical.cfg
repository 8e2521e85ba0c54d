SPECIFICATION FairSpec
CONSTANTS
    Outputs = {o1, o2}
    None = None
    NoJob = NoJob
    NvencRegistered = TRUE
    MaxStarts = 2
    MaxPresses = 2
CHECK_DEADLOCK FALSE
INVARIANTS SessionsHeld ClipNotStale
PROPERTIES EndsCome
