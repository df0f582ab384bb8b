CONSTANTS
    Workers = {w1, w2}
    Agent = agent
    Person = person
    Keys = {k}
    MaxAttempts = 3
    MaxCalls = 2
    MaxFaults = 2
    Nil = Nil
SPECIFICATION FmSpec
INVARIANTS
    AdoptedIsEdited
CHECK_DEADLOCK FALSE
