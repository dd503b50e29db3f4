SPECIFICATION FairSpec
CONSTANTS
    Devices <- MCDevices
    EnumPasses = 2
    PipeCap = 1
    MaxData = 2
    MaxPlugs = 2
    MaxErrors = 1
    Careful = TRUE

    
PROPERTIES
    AnswerIsTrue
    DataInOrder
    ChannelOpens
