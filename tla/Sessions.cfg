CONSTANTS
    Users = {u1, u2}
    NoUser = NoUser
SPECIFICATION SessionsSpec
INVARIANT SessionsTypeOK
INVARIANT AnswersPaired
INVARIANT ResultTrue
PROPERTY ClosesEnd
CHECK_DEADLOCK FALSE
