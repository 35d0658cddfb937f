CONSTANTS
    Scripts <- MCScripts
    MaxSends = 1
    MaxFrame = 2
    MaxMessage = 2
    BatchCapacity = 1
    AutoPong = TRUE
SPECIFICATION Spec
INVARIANTS TypeOK DeliveredAsSent PingsAnswered OneClose NoInternalError
PROPERTY CallReturns
CHECK_DEADLOCK FALSE
