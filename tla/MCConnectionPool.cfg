CONSTANTS
    f1 = f1
    f2 = f2
    f3 = f3
    k1 = k1
    k2 = k2
    s1 = s1
    Files = {f1, f2}
    Conns = {1, 2, 3}
    Keys = {k1, k2}
    Hosts = {s1}
    KeyOf <- TwoFilesKey
    HostOf <- OneHost
    ConLim <- LimitOne
    Tries = 2
    MaxConnects = 3
    NoConn = NoConn
    NoOne = NoOne
    Cleaner = Cleaner

SPECIFICATION FairSpec


INVARIANTS
    CPInv
    ExclusiveUse
    BusyIsClaimed

PROPERTIES
    ImplementsLease
    WaiterServed
