SPECIFICATION SessionSpec
CONSTANTS
    i1 = i1
    i2 = i2
    a = a
    b = b
    u1 = u1
    NoUser = NoUser
    Ids = {i1, i2}
    Users = {u1}
    Requests = {a, b}
    IdleTimeout = 1
    AbsoluteTimeout = 2
    MaxTime = 3
SYMMETRY SessionSymmetry
CHECK_DEADLOCK FALSE
INVARIANTS
    ActiveIsRevocable
