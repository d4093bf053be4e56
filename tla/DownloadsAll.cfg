CONSTANTS
    Procs = {p1, p2}
    Blobs = {b1}
    Artifacts = {a1}
    NoProc = NoProc
    NoItem = NoItem
    Size = 2
    Attempts = 2
    MaxFaults = 1
SPECIFICATION Spec
INVARIANT TypeOK
INVARIANT UnpackedKept
PROPERTY ReturnsVerified
PROPERTY YoungKept
PROPERTY Ends
