CONSTANTS
    Changes = {x1, x2, x3, x4}
    Clients = {c}
    Visible <- MCVisible
    RingCapacity = 2
    BufferCapacity = 1
    Nil = Nil
    MaxEpoch = 2
    MaxDrops = 1
SPECIFICATION MCSpec
INVARIANTS
    NothingMissed
PROPERTIES
    FeedSpec
    EventuallyKnown
