CONSTANTS
    ConnIdMask = 0
    GenerationMask = 0
    BgidMax = 1
    SqEntries = 2
    CqBound = 1
    UseTls = {FALSE}
    PumpModes = {"data"}
    Blocking = {FALSE}
    UnregisterMayFail = FALSE
    None = None
SPECIFICATION Spec
INVARIANT SendBufferOutlivesSend
CHECK_DEADLOCK FALSE
