\* One frequency, no PAPI failure.
CONSTANTS
    NbEvents = 3
    Freqs = {2}
    Other = Other
    PapiFailures = {}
    MaxSince = 3
INIT Init
NEXT Next
\* The unit stops after thread_fini.
CHECK_DEADLOCK FALSE
INVARIANT FiniClosesTraces
