\* Two signals, at any time and on any threads.
SPECIFICATION FairSpec
CONSTANTS
    Hits <- AnyThread
    Listener = 0
    MaxSignals = 2
INVARIANTS
    NetworkStopsFirst
    ServiceOutlivesThreads
    NoFault
    LoopsEndOnRequest
PROPERTY
    ProcessEnds
CHECK_DEADLOCK FALSE
