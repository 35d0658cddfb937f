CONSTANTS
    ConnIdMask = 0
    GenerationMask = 1
    BgidMax = 2
    SqEntries = 2
    CqBound = 2
    UseTls = {FALSE, TRUE}
    PumpModes = {"general", "data", "spin"}
    Blocking = {FALSE, TRUE}
    UnregisterMayFail = FALSE
    None = None
SPECIFICATION Spec
INVARIANTS TypeOK NoAliasing SlotsAccounted RecvAgrees SendAgrees BlockingConnectNotStuck ActiveCountAgrees
ACTION_CONSTRAINT KernelWhenRead
CHECK_DEADLOCK FALSE
