SPECIFICATION Spec
CONSTANTS
    N = 3
    Contents = {0,2}
    Attributed = {TRUE}
    Replacing = FALSE
    MaxOps = 3
    MaxTicket = 100
    Collecting = FALSE
    Thresholds = {3, 100}
    Decoded <- DecodedText
    Data <- Text
    Operation <- RichTextOperation
    Empty <- NewRichText
    Operations <- RichTextOperations
    Fails <- TextFails
    Execute <- RichTextExecute
    GarbageCollect <- CleanupRemovedNodes
CHECK_DEADLOCK FALSE
INVARIANTS
    SameOrder
    OnlySelectedDeleted
    NoFatal
    StyledAsSelected
