\* An event that resets itself.
SPECIFICATION FairSpec
CONSTANTS
    Threads = {t1, t2, t3}
    AutoReset = TRUE
INVARIANT NoLostWakeup
PROPERTIES
    IsEvent
    TimedWaitEnds
