\* One reset, then a second event into a one-event buffer.
CONSTANTS
    Threads = {th1, th2}
    Keys = {k1, k2}
    MaxKeys = 1
    Slots = 1
    MaxOffset = 4
    MaxResets = 1
    NULL = NULL
SPECIFICATION Spec
SYMMETRY ThreadSymmetry
INVARIANT EventCountFitsBuffer
