SPECIFICATION FairSpec
CONSTANTS
    t1 = t1
    t2 = t2
    t3 = t3
    t4 = t4
    Thread <- MCThread
    AcquiredValue = FALSE
INVARIANTS
    MutualExclusion
    FlagIffHeld
PROPERTIES
    ImplementsMutex
    LockProgress
