\* A proxy with one slave, a game server (1) and a db server (257), and fair Logic.
SPECIFICATION FairRouting
CONSTANTS
    c1 = c1
    c2 = c2
    Conduits = {c1, c2}
    NULL = NULL
    Slaves = {0}
    Listens = TRUE
    Peers = {}
    WorkerPeers = {}
    CloseCauses = {"eof"}
    Stops = FALSE
    MaxOps = 1
    Servers = {1, 257}
    Proxy = 1281
    MaxQueue = 2
    MaxSaid = 2
INVARIANTS
    RoutingTypeOK
    LinkLeadsHome
PROPERTIES
    StrayConfined
    RegistrationTakesEffect
    IsTcpServer
CHECK_DEADLOCK FALSE
