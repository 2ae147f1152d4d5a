\* The client library: is UnInit last?
SPECIFICATION Spec
CONSTANTS
    t1 = t1
    b1 = b1
    b2 = b2
    b3 = b3
    Threads = {t1}
    Blocks = {b1, b2, b3}
    Sizes = {120, 121, 249}
    MEMPOOL_NUM = 2
    MaxMsgs = 5
    Server = FALSE
    NULL = NULL
INVARIANT UnInitIsLast
CHECK_DEADLOCK FALSE
