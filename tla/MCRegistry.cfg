SPECIFICATION FairSpec
CONSTANTS
    i1 = i1
    i2 = i2
    k1 = k1
    NoJob = NoJob
    Ids = {i1, i2}
    Controllers = {c1, c2, c3, c4, c5}
    Outputs = {o1, o2, o3, o4}
    Targets = {k1, nokey}
    NoKey = nokey
    Loaded <- MCLoaded
    None = None
    MaxEvents = 3
CHECK_DEADLOCK FALSE
INVARIANTS ControllersOwned LinkedStartsDistinct UnloadLeavesNothing
PROPERTIES EventsEnd
