CONSTANTS
    Channels = {c1, c2, dm}
    DMs = {dm}
    Parties = {dm}
    Managed = {c1, c2, dm}
    Home = {c2}
    Self = self
    Peers = {p1}
    Nil = Nil
    MaxSeq = 3
    m1 = m1
    m2 = m2
    MaxClock = 2
    MaxTurn = 2
    MaxProc = 2
SPECIFICATION DeliverySpec
INVARIANTS
    TargetsSeeded
    SweepLossless
    AckedExact
    HeldSound
PROPERTIES
    CursorMonotone
    FiredSettled
CHECK_DEADLOCK FALSE
