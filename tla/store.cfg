CONSTANTS
    u1 = u1
    u2 = u2
    a1 = a1
    a2 = a2
    a3 = a3
    b1 = b1
    t1 = t1
    t2 = t2
    Nil = Nil
SYMMETRY TxSymmetry
SPECIFICATION Spec
INVARIANTS
    ChannelsCoherent
    LosersTold
    NamespaceFollows
    ConversationSound
    BoardsSound
    ConfigSound
    MirrorsSound
    BindingsSound
    TelemetrySound
    PresenceSound
    ForgeSound
    RecordsSound
    AccessSound
    HostsSound
PROPERTIES
    DMKeepsParties
    OnlyPeersOpen
CHECK_DEADLOCK FALSE
