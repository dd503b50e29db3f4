SPECIFICATION FairSpec
CONSTANTS
    MaxLen = 4
    Lengths <- MCLengths
    MinText = 2
    Burst <- MCBurst
    MaxCmds = 4
INVARIANTS
    PlaysValidData
PROPERTIES
    HapticSpec
    TextureHeard
CHECK_DEADLOCK FALSE
