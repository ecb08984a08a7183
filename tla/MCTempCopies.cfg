CONSTANTS
    Workers = {w1, w2}
    Pids = {p1}
    Threads = {w1, w2, p1}
    Handles = {h1}
    Files = {f1, f2}
    NoFile = NoFile
    NoHandle = NoHandle
    NoThread = NoThread
SPECIFICATION TempSpec
PROPERTY TempAnswered
CHECK_DEADLOCK FALSE
