SPECIFICATION StoreFairSpec
CONSTANTS
    DebouncePolls = 2
    MaxChanges = 4
    MaxFailures = 2
    MaxRuns = 3
CHECK_DEADLOCK FALSE
INVARIANTS CleanMeansWritten UnloadSaves
PROPERTIES AutosaveWrites
