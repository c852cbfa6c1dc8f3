CONSTANTS
    Flash <- MCFlash
    EraseAddr = 271581184
    Blank = 255
    DIGITS = 8
    MAX_DIGITS = 16
    Mixed = {0}
    Image <- MCImage3
    FileBytes = 12
    Garbage = 99
    Programs <- MCPrograms
    BufferSize = 2
SPECIFICATION LegacySpec
INVARIANT
    NothingBeyondImage
CHECK_DEADLOCK FALSE
