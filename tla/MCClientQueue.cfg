\* The client library: one network thread, uninit_Client at any time, sizes on both
\* sides of the limits of the pools.
SPECIFICATION Spec
CONSTANTS
    t1 = t1
    b1 = b1
    b2 = b2
    b3 = b3
    Threads = {t1}
    Blocks = {b1, b2, b3}
    Sizes = {120, 121, 249}
    MEMPOOL_NUM = 2
    MaxMsgs = 5
    Server = FALSE
    NULL = NULL
SYMMETRY PipelineSymmetry
INVARIANT BlockFits
CHECK_DEADLOCK FALSE
