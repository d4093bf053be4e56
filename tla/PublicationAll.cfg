CONSTANTS
    Procs = {p1, p2, p3}
    Environments = {e1}
    Sources = {s1}
    Slims = {t1}
    Nonces = {n1, n2, n3}
    NoProc = NoProc
    NoTree = NoTree
    NoDest = NoDest
    NoNonce = NoNonce
    MaxFaults = 1
    MaxCrashes = 1
SPECIFICATION Spec
SYMMETRY Symmetry
INVARIANT TypeOK
INVARIANT OldOrNew
INVARIANT BuilderKeepsTree
INVARIANT NoRace
