CONSTANTS
    Workers = {w1, w2}
    Pids = {p1, p2}
    Threads = {w1, w2, p1, p2}
    Handles = {h1}
    Files = {f1, f2}
    NoFile = NoFile
    NoHandle = NoHandle
    NoThread = NoThread

SPECIFICATION OFSpec

INVARIANT HeldIsRecorded

CHECK_DEADLOCK FALSE
