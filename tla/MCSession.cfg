SPECIFICATION Spec
CONSTANTS
    AfterFailures = 2
    Outputs = {o1, o2}
    Threads = {t1, t2}
    Encoders = {e1, e2, e3, e4}
    Canvases = {}
    None = None
    MaxAttempts = 1
    Configured = "hardware"
    X264Registered = TRUE
    Codes = {"network", "hard", "success", "encode"}
    UICalls = {"start", "stop", "drop"}
    MaxCalls = 4
SYMMETRY Symmetry
CHECK_DEADLOCK FALSE
INVARIANTS OneHandlePerThread SessionOwned
PROPERTIES StateMeans ImplementsSession
