CONSTANTS
    Objects = {o1}
    Drainers = {d1, d2}
    First = d1
    Callers = {c1}
    LiveOps = {live}
    ReplayOps = {replayed}
    Nil = Nil
    MaxRetained = 2
    MaxSeq = 3
    MaxEpoch = 2
    MaxSub = 2
SPECIFICATION MCSpec
INVARIANTS
    NoLostWake
    WatermarkExact
    InOrderOnce
    SessionsAccurate
PROPERTIES
    EventuallyDrained
CHECK_DEADLOCK FALSE
