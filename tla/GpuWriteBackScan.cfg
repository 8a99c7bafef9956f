\* Two GPUs, two data: create_W2R step by step against concurrent pins.
CONSTANTS
    Data = {d1, d2}
    GPUs = {g1, g2}
    Host = host
    NoData = NoData
    MaxParam = 2
    Capacity = 2
    MaxVersion = 2
SPECIFICATION ScanSpec
INVARIANT Coherence
SYMMETRY DataSymmetry
