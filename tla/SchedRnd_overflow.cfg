CONSTANTS
    Streams = {es0, es1}
    Master = es0
    Tasks = {t1, t2, t3}
    WriteBacks = {}
    Distances = {0, 1}
    Width = 2
    MaxReadmit = 1
    NULL = NULL
SPECIFICATION Spec
CHECK_DEADLOCK FALSE
INVARIANT PriorityKeepsDistance
