CONSTANTS
    UNIT_SIZE = 4
    MAX_UNITS = 9
    LOW_USABLE_BASE = 8
    Threads = {t1, t2}
    Counts = {0, 1, 2, 10}
    BootInfos <- Boots
SPECIFICATION Spec
SYMMETRY Symmetry
INVARIANTS Accounting FramesAreExclusive OnlyUsableMemory FirstFit
CHECK_DEADLOCK FALSE
