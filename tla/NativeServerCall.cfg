SPECIFICATION FairSpec
CONSTANTS
    Scenarios <- AllKinds
    HighWaterMark = 2
    NULL = NULL
INVARIANTS
    AcceptedByCore
PROPERTIES
    OKIsEarned
    RequestsInOrder
    CallReleased
    HandlerLearnsEnd
CHECK_DEADLOCK FALSE
