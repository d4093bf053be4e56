CONSTANTS
    Procs = {p1, p2}
    Envs = {e1}
    Names = {n1}
    NoProc = NoProc
    NoEnv = NoEnv
    NoName = NoName
    MinAge = 1
    MaxKeep = 0
    MaxClock = 1
    MaxFaults = 1
SPECIFICATION Spec
INVARIANT TypeOK
INVARIANT LockDiscipline
INVARIANT RemovalUnleased
PROPERTY InUseKept
PROPERTY Returns
