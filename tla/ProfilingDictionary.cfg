\* One thread registering keywords in sequence; the table holds 2.
CONSTANTS
    Callers = {c1}
    Names = {n1, n2, n3}
    KeysNumber = 2
    MaxCalls = 4
    NoName = NoName
    c1 = c1
    c2 = c2
    n1 = n1
    n2 = n2
    n3 = n3
INIT Init
NEXT Next
\* Callers stop after their registrations.
CHECK_DEADLOCK FALSE
INVARIANT KeyHoldsName
INVARIANT KeysDistinct
