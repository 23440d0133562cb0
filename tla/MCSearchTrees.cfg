SPECIFICATION TreesSpec
CONSTANTS
    Contents = 3
    Width = 2
    MaxBlocks = 5
    MaxKey = 9
    MaxRemoved = 1
    Nodes = {0, 1, 2, 3, 4, 5, 6}
    Nil = Nil
CHECK_DEADLOCK FALSE
INVARIANTS
    IndexIsList
    WeightsSummed
    FindIsFirst
    GetIsNth
    IdsBalanced
    FloorIsGreatest
