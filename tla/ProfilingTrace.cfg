CONSTANTS
    Threads = {th1, th2}
    Keys = {k1, k2}
    MaxKeys = 1
    Slots = 2
    MaxOffset = 6
    MaxResets = 1
    NULL = NULL
SPECIFICATION Spec
SYMMETRY ThreadSymmetry
INVARIANT TypeOK
INVARIANT ChainsWellFormed
INVARIANT FlushedBuffersWritten
INVARIANT DumpKeepsAllEvents
