SPECIFICATION MCSpec
CONSTANTS
    NULL = NULL
    Nothing = Nothing
    Codes <- MCCodes
    Requests <- MCRequests
    OuterMark = 2
    Infinity = Infinity
    c1 = c1
    c2 = c2
    o1 = o1
    Calls <- MCCalls
    Objects <- MCObjects
    Plans <- MCPlans
    Factors <- MCFactors
    Limit = 4
    MaxNow = 3
    MaxRetries = 1
    MaxEdits = 1
CHECK_DEADLOCK FALSE
INVARIANTS
    UnaryAnswer
    HalfCloseComplete
    HeadersExact
PROPERTIES
    StreamDelivered
