CONSTANTS
    Tokens <- MCTokens
    Commands = {}
    Replies = {}
    Stale <- MCFlushed
    MaxWrites = 7
    ReadMax = 2
    Flash <- MCFlash
    EraseAddr = 271581184
    Blank = 255
    DIGITS = 2
    MAX_DIGITS = 4
    Mixed = {0, 1}
    Image <- MCImage3
    ChunkWords = 2
    MayCut = {}
    FaultModels <- MCFaultless
SPECIFICATION W2Spec
INVARIANT
    SettledMeansStored
CHECK_DEADLOCK FALSE
