CONSTANTS
    Flash <- MCFlash
    EraseAddr = 271581184
    Blank = 255
    DIGITS = 8
    MAX_DIGITS = 16
    Mixed = {0}
    Image <- MCImage31
    FileBytes = 122
    Garbage = 99
    Programs <- MCPrograms
    BufferSize = 2
SPECIFICATION LegacySpec
INVARIANTS
    LegacyTypeOK
    
    UploadedMeansStored
    StoredInPlace
PROPERTIES
    Ends
CHECK_DEADLOCK FALSE
