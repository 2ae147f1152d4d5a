\* The client library with one peer: connections that end in every way, fair
\* threads, lookups and shutdown at any time.
SPECIFICATION FairSpec
CONSTANTS
    c1 = c1
    c2 = c2
    Conduits = {c1, c2}
    NULL = NULL
    Slaves = {0}
    Listens = FALSE
    Peers = {65281}
    WorkerPeers = {65281}
    CloseCauses = {"parse", "eof", "werr"}
    Stops = TRUE
    MaxOps = 2
INVARIANTS
    StaleRemoveConfined
    AcceptNeverSpins
    UpstreamTracked
PROPERTIES
    LostPeerRetried
    ClosedConduitLeaves
    StopReleasesConduits
CHECK_DEADLOCK FALSE
