SPECIFICATION Spec
CONSTANTS
    Bodies = {0, 3}
    Sources = {login, game}
    MaxPackets = 2
    Reads <- AnyRead
    ChainSize = 14
INVARIANT SourceIntact
CHECK_DEADLOCK FALSE
