SPECIFICATION Spec
CONSTANTS
    N = 3
    Keys = {"k"}
    Values = {1}
    Increments <- MCIncrements
    MaxInt = 1
    MaxLong = 3
    MaxOps = 3
    Collecting = FALSE
    Thresholds = {1, 100}
    Decoded <- DecodedObject
    Data <- Object
    Operation <- ObjectOperation
    Empty <- NewObject
    Operations <- ObjectOperations
    Fails <- ObjectFails
    Execute <- ObjectExecute
    GarbageCollect <- Purge
CHECK_DEADLOCK FALSE
INVARIANTS
    LastWriterWins
PROPERTIES
    NothingResurfaces
