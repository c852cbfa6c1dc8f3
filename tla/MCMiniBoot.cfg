CONSTANTS
    Flash = {2, 4, 10}
    EraseAddr = 6
    Blank = 255
    DIGITS = 2
    MAX_DIGITS = 4
    Mixed = {2, 4}
    Numbers = {0, 2, 4, 13}
    MaxTokens = 8
    WordBytes = 2
    Bytes = {0, 1}
    MaxIndex = 4
    MaxDrain = 2
    MaxStream = 6
SPECIFICATION MenuSpec
INVARIANTS
    MenuTypeOK
    StoresWhatIsMeant
    TakesWhatItAnnounced
    DownloadMeans
PROPERTIES
    OnlyPartialWordsHang
CHECK_DEADLOCK FALSE
