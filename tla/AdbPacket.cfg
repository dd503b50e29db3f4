SPECIFICATION FairSpec
CONSTANTS
    MaxPacketSize = 2
    SendLens = {0, 2}
    RecvLens = {0, 3}
    MaxPackets = 2
    MaxFaults = 1
    Faults = {"magic", "checksum", "short"}
INVARIANTS
    SentIsTaken
    ReceivedIntact
    BufferIsStable
PROPERTIES
    SendEnds
CHECK_DEADLOCK FALSE
