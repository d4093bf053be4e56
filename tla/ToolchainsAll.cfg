CONSTANTS
    Procs = {p1, p2}
    NoProc = NoProc
    Attempts = 2
    MaxCuts = 1
SPECIFICATION Spec
INVARIANT TypeOK
INVARIANT EnsuredUsable
INVARIANT UnprovedAttended
PROPERTY CopyKept
PROPERTY PrunedVerified
PROPERTY CallsEnd
