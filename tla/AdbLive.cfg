SPECIFICATION FairSpec
CONSTANTS
    MaxChannels = 2
    HandleBase = 4
    MaxOpens = 2
    MaxData = 2
    MaxSessions = 1
    MaxErrors = 0
    QueueCap = 1
    ForeignFirst = FALSE
    MayDetach = FALSE
    MayWrite = FALSE
    DropOnDetach = TRUE
    CloseStates <- AnyState
PROPERTIES
    OpenResolves
    CloseCompletes
