SPECIFICATION FairSpec
CONSTANTS
    Bodies = {0, 3}
    Sources = {src}
    MaxPackets = 3
    Reads <- AnyRead
    ChainSize = 14
INVARIANTS
    TypeOK
    FramesIntact
    NothingStuck
    NothingAfterReject
PROPERTY EveryPacketTaken
CHECK_DEADLOCK FALSE
