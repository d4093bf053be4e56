CONSTANTS
    Procs = {p1}
    Blobs = {b1}
    Artifacts = {a1}
    NoProc = NoProc
    NoItem = NoItem
    Size = 2
    Attempts = 2
    MaxFaults = 0
SPECIFICATION Spec
SYMMETRY Symmetry
INVARIANT ResumesBelowSize
