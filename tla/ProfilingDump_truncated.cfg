\* Allocations that may fail in every section: the counts include lost records.
CONSTANTS
    NbThreads = 1
    MaxKeys = 2
    KeySizes = {2, 3}
    InfoKeySizes = {1, 5}
    InfoValSizes = {0, 2}
    MaxGlobalInfos = 0
    Avail = 4
    HeaderSize = 1
    InfoSizes = {1, 2}
    MaxInfos = 2
    Unwritten = Unwritten
SPECIFICATION Spec
\* dbp_dump returns, or spins in dump_thread's info loop; nothing follows.
CHECK_DEADLOCK FALSE
INVARIANT CountsMatchChains
