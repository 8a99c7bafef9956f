\* One thread whose infos may not fit behind its header: dump_thread spins.
CONSTANTS
    NbThreads = 1
    MaxKeys = 0
    KeySizes = {2, 3}
    InfoKeySizes = {1}
    InfoValSizes = {0, 2}
    MaxGlobalInfos = 0
    Avail = 4
    HeaderSize = 1
    InfoSizes = {1, 2}
    MaxInfos = 2
    Unwritten = Unwritten
SPECIFICATION Spec
\* dbp_dump returns, or spins in dump_thread's info loop; nothing follows.
CHECK_DEADLOCK FALSE
PROPERTY DumpReturns
