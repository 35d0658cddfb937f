CONSTANTS
    Frames <- MCFrames
    Raws <- MCRaws
    MaxFrames = 2
    Pieces = {1, 3, 8}
    Random <- MCRandom
    TxCapacity = 16
    RecvCapacity = 16
    PoolBytes = 6
    Lanes = 8
    Short = 3
    Base = 4
SPECIFICATION Spec
INVARIANTS TypeOK StreamIntact ReadAsWritten HeadersAgree MaskKeysFresh
CHECK_DEADLOCK FALSE
