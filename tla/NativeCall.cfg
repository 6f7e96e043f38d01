SPECIFICATION MCSpec
CONSTANTS
    c1 = c1
    t1 = t1
    t2 = t2
    t3 = t3
    r1 = r1
    r2 = r2
    r3 = r3
    NoCall = NoCall
    NoTag = NoTag
    Calls <- OneCall
    Tags <- ThreeTags
    Requests <- ThreeRequests
CHECK_DEADLOCK FALSE
INVARIANTS
    PendingBatchKeepsCall
    FinishedCallDestroyed
PROPERTIES
    CancelledCallEnds
    PluginAnswered
