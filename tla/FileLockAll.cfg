CONSTANTS
    Procs = {p1, p2}
    NoProc = NoProc
    Timeout = 2
    MaxFaults = 1
    MaxCrashes = 1
SPECIFICATION Spec
INVARIANT TypeOK
INVARIANT TextOfHolder
PROPERTY IsMutex
PROPERTY Served
