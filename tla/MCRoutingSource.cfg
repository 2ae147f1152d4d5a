\* The source of what the servers send.
SPECIFICATION RoutingSpec
CONSTANTS
    c1 = c1
    c2 = c2
    Conduits = {c1, c2}
    NULL = NULL
    Slaves = {0}
    Listens = TRUE
    Peers = {}
    WorkerPeers = {}
    CloseCauses = {"eof"}
    Stops = FALSE
    MaxOps = 1
    Servers = {1, 257}
    Proxy = 1281
    MaxQueue = 1
    MaxSaid = 2
INVARIANT
    SourceIsSender
CHECK_DEADLOCK FALSE
