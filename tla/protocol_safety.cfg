CONSTANTS
    Objects = {"session"}
    Drainers = {"agent"}
    LiveOps = {d, p, f}
    Immediate = {d}
    Pulled = {p}
    TurnEnd = {f}
    ReplayOps = {replayed}
    Nil = Nil
    MaxRetained = 3
    MaxSeq = 3
    MaxRejects = 1
    MaxProc = 2
    MaxSub = 5
    MaxFaults = 2
SPECIFICATION MCSpec
INVARIANTS
    HandledOnce
    ReloadRefusesNothing
CHECK_DEADLOCK FALSE
