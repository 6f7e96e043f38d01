SPECIFICATION FairSpec
CONSTANTS
    NULL = NULL
    Scenarios <- Mixed
    HighWaterMark = 2
    MaxChunk = 3
CHECK_DEADLOCK FALSE
INVARIANTS
    DeliveryInOrder
    BacklogBounded
    WireInOrder
    OKOnlyFromServer
    CancelledIsReset
PROPERTIES
    Implements
    AllDelivered
    AllWritten
    EveryCallEnds
