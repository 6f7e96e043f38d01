SPECIFICATION FairSpec
CONSTANTS
    c1 = c1
    c2 = c2
    w1 = w1
    s1 = s1
    s2 = s2
    s3 = s3
    NULL = NULL
    Undefined = Undefined
    Calls <- OneCall
    Waiters <- MCWaiters
    Sessions <- ThreeSessions
    Faults <- AllFaults
CHECK_DEADLOCK FALSE
PROPERTIES
    DeadlinesEnd
INVARIANTS
    NoListenerStranded
    OneLiveSession
    NoOrphanStream
    IdleTimerOwnsSubChannel
