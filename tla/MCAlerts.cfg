CONSTANTS
    Endpoints = {e1}
    None = None
    DropWindow = 1
    DropPercent = 50
    MinDrops = 1
    LowHold = 1
    LowPercent = 50
    Grace = 1
    ClearHold = 2
    Target = 2
    Rolling = 1
    Modulus = 3
    MaxSent = 2
    MaxDropped = 1
SPECIFICATION Spec
INVARIANTS ToldIsActive WindowIsMonotone
PROPERTIES NoFlap
