SPECIFICATION FairSpec
CONSTANTS
    MaxPacketSize = 2
    Sizes <- MCSizes
    ReadSize = 3
    RetryAttempts = 3
    ControlNaks = 1
    Interval = 1
    Uses <- MCUses
    MaxFaults = 1
INVARIANTS
    SentOnce
    FewFaultsAreOvercome
PROPERTIES
    ReceivedWhole
    TransfersEnd
