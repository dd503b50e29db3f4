SPECIFICATION Spec
CONSTANTS
    HostAddr = HostAddr
    Phone = Phone
    ChannelPool = 2
    ResponsePool = 3
    Buffered = 3
    NewCredits = 1
    LowCredits = 1
    ResponseSize = 100
    NameSize = 8
    Slots = 2
    Sessions = 2
    Losses = 1
    FromPhone = 2
    ToPhone = 2
    PhoneCredits = 1
    PhoneMtu = 60
INVARIANTS
    BufferIsStable
    FlowIsKept
    NothingStays
PROPERTIES
    SessionEnds
