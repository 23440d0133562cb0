SPECIFICATION Spec
CONSTANTS
    N = 3
    Kinds = {"add", "move", "remove"}
    MaxOps = 3
    Collecting = FALSE
    Thresholds = {1, 100}
    Decoded <- DecodedList
    Data <- List
    Operation <- ArrayOperation
    Empty <- NewRGATreeList
    Operations <- ArrayOperations
    Fails <- ArrayFails
    Execute <- ArrayExecute
    GarbageCollect <- PurgeRemoved
CHECK_DEADLOCK FALSE
INVARIANTS
    Converged
    SameElements
    LamportBound
    ClockInv
PROPERTIES
    InsertedInPlace
