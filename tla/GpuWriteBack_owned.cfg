CONSTANTS
    Data = {d1, d2}
    GPUs = {g1}
    Host = host
    MaxParam = 2
    Capacity = 2
    MaxVersion = 1
SPECIFICATION Spec
PROPERTY WritebackReturnsToOwned
