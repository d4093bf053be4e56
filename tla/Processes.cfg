CONSTANTS
    Contexts = {x1, x2}
    First = x1
    Concurrency = 2
SPECIFICATION ProcessesSpec
INVARIANT ProcessesTypeOK
INVARIANT StoppedGroupGone
INVARIANT OutcomesTrue
PROPERTY ProcessesEnd
CHECK_DEADLOCK FALSE
