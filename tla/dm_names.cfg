CONSTANTS
    u1 = u1
    u2 = u2
    a1 = a1
    a2 = a2
    a3 = a3
    b1 = b1
    t1 = t1
    t2 = t2
    Nil = Nil
SPECIFICATION NamesSpec
INVARIANTS
    DMTwoParties
CHECK_DEADLOCK FALSE
