CONSTANTS
    MaxFiles = 2
    MaxChannels = 3
    HeaderSize = 2
    MaxPacket = 3
    MaxReads = 2
    MaxResets = 1
    AppFirst = TRUE
    Replies <- MCReplies
SPECIFICATION Spec
INVARIANTS
    HandsContents
    SlotsMatch
PROPERTIES
    ReadEnds
CHECK_DEADLOCK FALSE
