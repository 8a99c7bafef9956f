\* dbp_start fails to allocate its header: every later fini returns -1.
CONSTANTS
    Threads = {th1, th2}
    Keys = {k1, k2}
    MaxKeys = 1
    Slots = 1
    MaxOffset = 4
    MaxResets = 0
    NULL = NULL
SPECIFICATION Spec
PROPERTY FailedFiniRetryable
