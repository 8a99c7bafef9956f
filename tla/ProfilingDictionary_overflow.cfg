\* Two threads registering at once into a table of one.
CONSTANTS
    Callers = {c1, c2}
    Names = {n1, n2, n3}
    KeysNumber = 1
    MaxCalls = 1
    NoName = NoName
    c1 = c1
    c2 = c2
    n1 = n1
    n2 = n2
    n3 = n3
INIT Init
NEXT Next
SYMMETRY NameSymmetry
\* Callers stop after their registrations.
CHECK_DEADLOCK FALSE
INVARIANT CountWithinTable
