SPECIFICATION Spec
CONSTANTS
    c1 = c1
    c2 = c2
    w1 = w1
    s1 = s1
    s2 = s2
    s3 = s3
    NULL = NULL
    Undefined = Undefined
    Calls <- TwoCalls
    Waiters <- MCWaiters
    Sessions <- TwoSessions
    Faults <- OnlyClose
CHECK_DEADLOCK FALSE
PROPERTY
    ShutdownIsFinal
