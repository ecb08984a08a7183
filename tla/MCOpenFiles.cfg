CONSTANTS
    Workers = {w1, w2, w3}
    Pids = {p1}
    Threads = {w1, w2, w3, p1}
    Handles = {h1}
    Files = {f1, f2, f3}
    NoFile = NoFile
    NoHandle = NoHandle
    NoThread = NoThread
SPECIFICATION FairOFSpec
INVARIANTS
    OFTypeOK
    IInv
    RecordsHaveWatchdog
PROPERTIES
    NobodyElseDisconnects
    ImplementsFileTable
    CloseReturns
    DeadProcessForgotten
CHECK_DEADLOCK FALSE
