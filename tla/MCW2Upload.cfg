CONSTANTS
    Tokens <- MCTokens
    Commands = {}
    Replies = {}
    Stale <- MCStale
    MaxWrites = 6
    ReadMax = 2
    Flash <- MCFlash
    EraseAddr = 271581184
    Blank = 255
    DIGITS = 2
    MAX_DIGITS = 4
    Mixed = {0, 1}
    Image <- MCImage2
    ChunkWords = 2
    MayCut = {3, 6}
    FaultModels <- MCStaleOrFaulty
SPECIFICATION W2Spec
INVARIANTS
    W2TypeOK
    AckedMeansStored
PROPERTIES
    TransfersImage
    ImageArrives
CHECK_DEADLOCK FALSE
