\* A game server: clients and one peer; parse errors, which can close a connection
\* again and again.
SPECIFICATION Spec
CONSTANTS
    c1 = c1
    c2 = c2
    c3 = c3
    Conduits = {c1, c2, c3}
    NULL = NULL
    Slaves = {0, 1}
    Listens = TRUE
    Peers = {1281}
    WorkerPeers = {1281}
    CloseCauses = {"parse"}
    Stops = FALSE
    MaxOps = 1
SYMMETRY ConduitSymmetry
INVARIANTS
    TablesExact
    FindReturnsOwner
    UpstreamTracked
    OneUpstream
    PeerLookupConfined
CHECK_DEADLOCK FALSE
