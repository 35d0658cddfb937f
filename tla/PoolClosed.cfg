CONSTANTS
    ConnIdMask = 0
    GenerationMask = 0
    BgidMax = 1
    SqEntries = 2
    CqBound = 2
    UseTls = {FALSE}
    PumpModes = {"general", "data", "spin"}
    Blocking = {FALSE}
    UnregisterMayFail = FALSE
    None = None
SPECIFICATION Spec
PROPERTY ClosedStaysClosed
CHECK_DEADLOCK FALSE
