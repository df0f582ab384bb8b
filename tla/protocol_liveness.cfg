CONSTANTS
    Objects = {"session"}
    Drainers = {"agent"}
    LiveOps = {p, f}
    Immediate = {}
    Pulled = {p}
    TurnEnd = {f}
    ReplayOps = {replayed}
    Nil = Nil
    MaxRetained = 3
    MaxSeq = 2
    MaxRejects = 1
    MaxProc = 2
    MaxSub = 5
    MaxFaults = 1
SPECIFICATION MCLiveSpec
PROPERTIES
    EventuallyHandled
CHECK_DEADLOCK FALSE
