SPECIFICATION FairSpec
CONSTANTS
    c1 = c1
    c2 = c2
    t1 = t1
    t2 = t2
    Tries <- TwoTries
    Calls <- TwoCalls
    Forcing <- BothWays
CHECK_DEADLOCK FALSE
INVARIANTS
    DestroyedOnce
    AlwaysListening
    CallbackMeansDown
PROPERTIES
    ForceTriggersTry
    ServerReleased
    TryShutdownCallsBack
