\* One GPU and three data blocks, batches of two: the batch bound is reached,
\* and every step of the engine refines DataCoherence.
CONSTANTS
    Data = {d1, d2, d3}
    GPUs = {g1}
    Host = host
    MaxParam = 2
    Capacity = 3
    MaxVersion = 2
SPECIFICATION Spec
INVARIANT TypeOK
INVARIANT Coherence
INVARIANT CopyPlacement
INVARIANT OwnedIsDirty
PROPERTY RefinesDataCoherence
