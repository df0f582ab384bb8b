CONSTANTS
    Cap = 1
    Big = {3}
    SinkTries = 2
    TeeTries = 2
    MaxFaults = 1
    MaxLives = 2
    Nil = Nil
SPECIFICATION TSpec
INVARIANTS
    ResumeInOrder
CHECK_DEADLOCK FALSE
