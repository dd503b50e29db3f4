SPECIFICATION FairSpec
CONSTANTS
    None = None
    Kinds <- MCKinds
    CommandTries = 2
    EnumerationTries = 3
    QuickUnplug = FALSE
    MaxTrouble = 3
INVARIANTS
    NothingLeaks
    DriversHaveADevice
    FaultsAreOvercome
PROPERTIES
    UnplugNoticed
