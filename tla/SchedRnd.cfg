CONSTANTS
    Streams = {es0, es1}
    Master = es0
    Tasks = {t1, t2, t3}
    WriteBacks = {t1}
    Distances = {0, 1}
    Width = 2
    MaxReadmit = 1
    NULL = NULL
SPECIFICATION Spec
INVARIANT SharedQueue
INVARIANT QueueOrdered
CHECK_DEADLOCK FALSE
