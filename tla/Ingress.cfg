CONSTANTS
    Contents <- MCContents
    Sizes <- MCSizes
    MaxCqes = 2
    MaxRun = 2
    MaxChunks = 2
    MaxClock = 2
    BatchCapacity = 2
    IndexMax = 1
    CopyMaxBytes = 2
    BasisPoints = 2
    MaxBasisPoints = 4
    Multiplier = 3
    Wrap = 8
SPECIFICATION Spec
INVARIANTS TypeOK MarksInOrder HistogramsAgree LatencyDecomposes CountersMatchSink IntervalsPartition
CHECK_DEADLOCK FALSE
