CONSTANTS
    Procs = {p1, p2}
    NoProc = NoProc
    Attempts = 1
    MaxCuts = 0
SPECIFICATION Spec
PROPERTY TrustedIsProved
