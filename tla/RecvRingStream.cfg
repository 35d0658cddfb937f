CONSTANTS
    Entries = 2
    TailMod = 4
    BufSize = 2
    Bundles = {FALSE, TRUE}
    MaxBytes = 6
SPECIFICATION Spec
INVARIANTS TypeOK DeliveredInOrder SlotHoldsItsBuffer EveryBufferOnce
PROPERTIES RearmFindsFullRing 
