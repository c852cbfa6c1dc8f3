CONSTANTS
    Chars = {"a", "b"}
    EOL = "eol"
    ReadSize = 2
    MaxStarts = 2
    MaxStops = 2
    MaxChars = 3
SPECIFICATION LineSpec
INVARIANTS
    LineTypeOK
    WholeInOrder
    OneReadPerStart
PROPERTIES
    FailedOpenIsFinal
    AllOrNothing
    ThreadsEnd
CHECK_DEADLOCK FALSE
