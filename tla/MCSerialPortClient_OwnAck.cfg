CONSTANTS
    Tokens = {"command"}
    Commands <- MCCommands
    MaxWrites = 2
    ReadMax = 2
    Replies <- MCReplies
    Stale <- MCFlushed
SPECIFICATION Spec
INVARIANT
    TrueIsOwnAck
CHECK_DEADLOCK FALSE
