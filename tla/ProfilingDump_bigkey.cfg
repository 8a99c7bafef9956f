\* A dictionary entry larger than a whole buffer: it is written past the end.
CONSTANTS
    NbThreads = 1
    MaxKeys = 1
    KeySizes = {5}
    InfoKeySizes = {1}
    InfoValSizes = {0, 2}
    MaxGlobalInfos = 0
    Avail = 4
    HeaderSize = 1
    InfoSizes = {1, 2}
    MaxInfos = 2
    Unwritten = Unwritten
SPECIFICATION Spec
\* dbp_dump returns, or spins in dump_thread's info loop; nothing follows.
CHECK_DEADLOCK FALSE
INVARIANT RecordsInsideBuffer
