CONSTANTS
    ConnIdMask = 0
    GenerationMask = 0
    BgidMax = 1
    SqEntries = 2
    CqBound = 1
    UseTls = {TRUE}
    PumpModes = {"data"}
    Blocking = {TRUE}
    UnregisterMayFail = FALSE
    None = None
SPECIFICATION Spec
INVARIANT FailedConnectReturns
CHECK_DEADLOCK FALSE
