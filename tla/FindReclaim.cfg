SPECIFICATION Spec
CONSTANTS
    AfterFailures = 3
    Outputs = {o1, o2}
    Threads = {t1, t2}
    Encoders = {e1, e2, e3, e4}
    Canvases = {}
    None = None
    MaxAttempts = 1
    Configured = "x264"
    X264Registered = TRUE
    Codes = {"network"}
    UICalls = {"start", "reclaim"}
    MaxCalls = 2
SYMMETRY Symmetry
INVARIANTS
    NoUseAfterRelease
CHECK_DEADLOCK FALSE
