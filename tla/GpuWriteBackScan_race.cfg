\* One GPU, two data: a pin between the readers test and the take.
CONSTANTS
    Data = {d1, d2}
    GPUs = {g1}
    Host = host
    NoData = NoData
    MaxParam = 2
    Capacity = 2
    MaxVersion = 2
SPECIFICATION ScanSpec
SYMMETRY DataSymmetry
INVARIANT ScanPlacement
