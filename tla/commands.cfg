SPECIFICATION MCSpec
CONSTANTS
    Cmds = {a}
    Delivers = {d1}
    Signals = {s}
    Callers = {c1, c2}
    Nil = Nil
    QueueCap = 1
    MaxEnroll = 2
    MaxTries = 3
INVARIANTS CallsAccounted ExecutedOnce
PROPERTY EventuallyAnswered
CHECK_DEADLOCK FALSE
