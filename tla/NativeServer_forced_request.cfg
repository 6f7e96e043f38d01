SPECIFICATION Spec
CONSTANTS
    c1 = c1
    c2 = c2
    t1 = t1
    t2 = t2
    Tries <- TwoTries
    Calls <- OneCall
    Forcing <- BothWays
CHECK_DEADLOCK FALSE
INVARIANTS
    RequestNeedsServer
