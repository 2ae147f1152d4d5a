\* A server: two network threads, three addresses for messages, and fair threads.
\* One size fills a block of the first pool, the other is malloc's.
SPECIFICATION FairSpec
CONSTANTS
    t1 = t1
    t2 = t2
    b1 = b1
    b2 = b2
    b3 = b3
    Threads = {t1, t2}
    Blocks = {b1, b2, b3}
    Sizes = {120, 249}
    MEMPOOL_NUM = 2
    MaxMsgs = 2
    Server = TRUE
    NULL = NULL
INVARIANTS
    TypeOK
    OneOwner
    ShutdownHandlesAll
PROPERTIES
    IsChannel
    PushedIsHandled
CHECK_DEADLOCK FALSE
