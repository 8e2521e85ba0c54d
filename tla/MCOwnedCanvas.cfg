CONSTANTS
    Transitions <- MCTransitions
    Type <- MCType
    Custom = "stinger"
    MainScenes <- MCMainScenes
    Verticals <- MCVerticals
    MaxPosts = 2
    MaxEvents = 3
SPECIFICATION Spec
CHECK_DEADLOCK FALSE
INVARIANTS NothingDangles Settled PreparedFresh
