\* Buffers of 4 units.  Up to two dictionary entries of 2 or 3 units, so
\* entries fill a buffer exactly or cross into the next; the hostname and cwd
\* infos plus one more, with keys of 1 unit and values of 0 or 2 units, so a
\* value is split over two buffers; two threads with headers of 1 unit and
\* up to two infos of 1 or 2 units, so records fill a buffer and cross.
\* Every allocation may fail.
CONSTANTS
    NbThreads = 2
    MaxKeys = 2
    KeySizes = {2, 3}
    InfoKeySizes = {1, 5}
    InfoValSizes = {0, 2}
    MaxGlobalInfos = 1
    Avail = 4
    HeaderSize = 1
    InfoSizes = {1, 2}
    MaxInfos = 2
    Unwritten = Unwritten
SPECIFICATION Spec
\* dbp_dump returns, or spins in dump_thread's info loop; nothing follows.
CHECK_DEADLOCK FALSE
INVARIANT RecordsInsideBuffer
INVARIANT DictionaryDumped
INVARIANT GlobalInfosDumped
INVARIANT ThreadsDumped
PROPERTY ReturnsWhenInfosFit
