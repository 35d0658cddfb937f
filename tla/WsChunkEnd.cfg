CONSTANTS
    Scripts <- FewScripts
    MaxSends = 0
    MaxFrame = 2
    MaxMessage = 2
    BatchCapacity = 1
    AutoPong = TRUE
SPECIFICATION Spec
INVARIANT ChunkEndIsLast
CHECK_DEADLOCK FALSE
