SPECIFICATION Spec
CONSTANTS
    Channels = {c1}
    DMs = {c1}
    Parties = {}
    Managed = {c1}
    Home = {}
    Self = self
    Peers = {p1}
    Nil = Nil
    MaxSeq = 1
INVARIANTS ConvertedSeeded
CHECK_DEADLOCK FALSE
