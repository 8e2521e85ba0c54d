CONSTANTS
    MaxLogins = 3
    MaxRequests = 2
SPECIFICATION Spec
INVARIANTS OneListener
PROPERTIES OwnResultOnce SavedWhileRunning LoginEnds
CHECK_DEADLOCK FALSE
