SPECIFICATION FairSpec
CONSTANTS
    c1 = c1
    c2 = c2
    w1 = w1
    s1 = s1
    s2 = s2
    s3 = s3
    NULL = NULL
    Undefined = Undefined
    Calls <- TwoCalls
    Waiters <- MCWaiters
    Sessions <- TwoSessions
    Faults <- NoFaults
CHECK_DEADLOCK FALSE
INVARIANT
    ReadyHasSession
PROPERTIES
    ConnectServesAll
