\* Three configured events of frequency 2 (or of another core); eventset
\* creation, event addition, start and read may fail.
CONSTANTS
    NbEvents = 3
    Freqs = {2}
    Other = Other
    PapiFailures = {"create", "add", "start", "read"}
    MaxSince = 3
INIT Init
NEXT Next
\* The unit stops after thread_fini.
CHECK_DEADLOCK FALSE
INVARIANT ReadsStartedSets
INVARIANT BeginEndAlternate
