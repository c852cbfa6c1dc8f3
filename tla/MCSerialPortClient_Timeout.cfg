CONSTANTS
    Tokens = {"command"}
    Commands <- MCCommands
    MaxWrites = 2
    ReadMax = 2
    Replies <- MCReplies
    Stale <- MCStale
SPECIFICATION Spec
INVARIANT
    TimeoutMeansNoAck
CHECK_DEADLOCK FALSE
