CONSTANTS
    Depth = 1
    Commands = 3
SPECIFICATION PacingSpec
INVARIANTS
    NothingOverrun
    NeverAstray
PROPERTIES
    SetupEnds
CHECK_DEADLOCK FALSE
