CONSTANTS
    Threads = {t1}
    NumAPs = 2
    NumPages = 2
    PTES = 2
    NumFrames = 3
    Counts = {2}
    WORD = 8
SPECIFICATION FairSpec
INVARIANTS Coherent
PROPERTIES LockIsReleased
CHECK_DEADLOCK FALSE
