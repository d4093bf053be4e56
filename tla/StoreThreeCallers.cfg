CONSTANTS
    Procs = {p1, p2, p3}
    Envs = {e1}
    Names = {n1}
    NoProc = NoProc
    NoEnv = NoEnv
    NoName = NoName
    MinAge = 0
    MaxKeep = 1
    MaxClock = 1
    MaxFaults = 0
SPECIFICATION Spec
SYMMETRY Symmetry
INVARIANT RunsOnCompleteTree
INVARIANT NoHalfTree
