\* Three table files with one mapping and no descriptor to share; two processes,
\* one with two threads, and the LOCK file.
SPECIFICATION AllSpec
CONSTANTS
    Readers = {r1}
    Bg = Bg
    Initial <- MCInitial
    MaxFileNumber = 3
    TableCacheSize = 1
    MaxOpen = 1
    MaxMmaps = 1
    MaxFds = 0
    IOFails = TRUE
    Processes = {"p1", "p2"}
    Callers = {"t1", "t2", "t3"}
    None = None
    Process <- MCProcess
INVARIANTS FilesInUseExist LimitersExact CacheForgetsRemoved LockExclusiveUnlessReopened
