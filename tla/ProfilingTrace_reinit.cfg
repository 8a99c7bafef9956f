CONSTANTS
    Threads = {th1, th2}
    Keys = {k1, k2}
    MaxKeys = 1
    Slots = 2
    MaxOffset = 7
    MaxResets = 0
    NULL = NULL
SPECIFICATION Spec
SYMMETRY ThreadSymmetry
INVARIANT HeaderAtOffsetZero
