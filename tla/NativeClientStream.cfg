SPECIFICATION FairSpec
CONSTANTS
    NULL = NULL
    Scenarios <- AllKinds
    HighWaterMark = 2
    ServerCodes <- OKOrError
    MayFail = TRUE
CHECK_DEADLOCK FALSE
INVARIANTS
    OneReadAtATime
    MessagesInOrder
    StatusCorrect
PROPERTIES
    
    WritesFlushed
