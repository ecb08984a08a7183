CONSTANTS
    Threads = {t1, t2, t3, t4, t5}
    NoOwner = NoOwner

SPECIFICATION FairSpec

INVARIANTS
    IInv
    MutualExclusion
    NoLostWakeup

PROPERTIES
    ImplementsMutex
    WaiterEnters
