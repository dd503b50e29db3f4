SPECIFICATION MainFairSpec
CONSTANTS
    MaxChannels = 1
    HandleBase = 4
    MaxOpens = 2
    MaxData = 2
    MaxSessions = 2
    MaxErrors = 0
    QueueCap = 1
    ForeignFirst = FALSE
    MayDetach = TRUE
    MayWrite = TRUE
    DropOnDetach = TRUE
    CloseStates = {}
    EnumPasses = 2
INVARIANTS
    FreshSession
PROPERTIES
    Connects
    AbandonsDead
