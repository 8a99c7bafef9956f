CONSTANTS
    Streams = {es0, es1}
    Master = es0
    Tasks = {t1, t2, t3}
    WriteBacks = {t1}
    Distances = {0}
    Width = 2
    MaxReadmit = 1
    NULL = NULL
SPECIFICATION Spec
CHECK_DEADLOCK FALSE
INVARIANT WritebackFirst
