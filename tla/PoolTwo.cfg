CONSTANTS
    ConnIdMask = 1
    GenerationMask = 0
    BgidMax = 2
    SqEntries = 1
    CqBound = 1
    UseTls = {FALSE}
    PumpModes = {"general", "data", "spin"}
    Blocking = {FALSE, TRUE}
    UnregisterMayFail = TRUE
    None = None
SPECIFICATION Spec
INVARIANTS BgidExclusive RingsOwned ActiveCountAgrees
ACTION_CONSTRAINT KernelWhenRead
CHECK_DEADLOCK FALSE
