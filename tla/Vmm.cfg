CONSTANTS
    Threads = {t1, t2}
    NumAPs = 1
    NumPages = 2
    PTES = 1
    NumFrames = 4
    Counts = {1}
    WORD = 8
SPECIFICATION Spec
SYMMETRY Symmetry
INVARIANTS Coherent NoAliasing OneUse
CHECK_DEADLOCK FALSE
