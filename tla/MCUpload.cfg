CONSTANTS
    Tokens = {"command"}
    Commands <- MCCommands
    MaxWrites = 3
    ReadMax = 2
    Replies <- MCReplies
    Stale <- MCStale
SPECIFICATION UploadSpec
INVARIANTS
    UploadTypeOK
    NoLostWakeup
    AckSpentOnce
    NoEventBeforeHandler
    OneStaleCallback
PROPERTIES
    KeepsPromise
    EveryWaitEnds
    SurvivesLoopDeath
CHECK_DEADLOCK FALSE
