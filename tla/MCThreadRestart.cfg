\* A thread that is started again and again.
SPECIFICATION FairSpec
CONSTANT MaxStarts = 3
INVARIANTS
    OneTarget
    JoinedIsStopped
    DataLives
PROPERTIES
    JoinReturns
    FirstTimedJoinReturns
CHECK_DEADLOCK FALSE
