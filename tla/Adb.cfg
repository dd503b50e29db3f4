SPECIFICATION Spec
CONSTANTS
    MaxChannels = 2
    HandleBase = 4
    MaxOpens = 2
    MaxData = 2
    MaxSessions = 1
    MaxErrors = 1
    QueueCap = 1
    ForeignFirst = TRUE
    MayDetach = TRUE
    MayWrite = TRUE
    DropOnDetach = TRUE
    CloseStates <- AnyState
INVARIANTS
    HeldIsLive
    InOrderWrites
    NoSpuriousAck
    ReceiverArmed
PROPERTIES
    InOrderDelivery
