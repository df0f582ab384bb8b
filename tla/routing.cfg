CONSTANTS
    o = o
    s = s
    out = out
    sub = sub
    ask = ask
    both = both
    Msgs = {out, sub, ask, both}
    Agents = {o, s}
    Mentioned <- MCMentioned
    Swept <- MCSwept
    Asker <- MCAsker
    Nil = Nil
    MaxFaults = 2
SPECIFICATION MCSpec
INVARIANTS
    MarkedIsBacked
PROPERTIES
    EventuallyRouted
    OwedDelivered
    LiveCaughtUp
