CONSTANTS
    Procs = {p1, p2}
    Environments = {}
    Sources = {s1}
    Slims = {}
    Nonces = {n1, n2}
    NoProc = NoProc
    NoTree = NoTree
    NoDest = NoDest
    NoNonce = NoNonce
    MaxFaults = 0
    MaxCrashes = 1
SPECIFICATION Spec
SYMMETRY Symmetry
INVARIANT OldOrNewAtRest
