SPECIFICATION Spec
CONSTANTS
    N = 2
    Contents = {0,2}
    Attributed = {FALSE}
    Replacing = TRUE
    MaxOps = 3
    MaxTicket = 100
    Collecting = FALSE
    Thresholds = {1, 100}
    Decoded <- DecodedText
    Data <- Text
    Operation <- TextOperation
    Empty <- NewText
    Operations <- TextOperations
    Fails <- TextFails
    Execute <- TextExecute
    GarbageCollect <- CleanupRemovedNodes
CHECK_DEADLOCK FALSE
INVARIANTS
    SameText
