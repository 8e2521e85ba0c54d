SPECIFICATION FairSpec
CONSTANTS
    AfterFailures = 3
    Outputs = {o1}
    Threads = {t1}
    Encoders = {e1, e2}
    Canvases = {c1, c2}
    None = None
    MaxAttempts = 1
    Configured = "x264"
    X264Registered = TRUE
    Codes = {"network"}
    UICalls = {"start", "stop", "remove_canvas", "drop"}
    MaxCalls = 2
CHECK_DEADLOCK FALSE
INVARIANTS CanvasAlive
PROPERTIES ImplementsFairSession CallsEnd
