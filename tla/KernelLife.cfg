SPECIFICATION FairSpec
CONSTANTS
    Funcs = {"f", "g"}
    ATEXIT_MAX_FUNCS = 3
    MaxRegistrations = 4
    Lines = {1}
    TICKS = 2
INVARIANTS UsesOnlyWhatIsThere EveryInterruptIsAcknowledged ExactlyOnce
PROPERTIES LifeEnds NewestFirst
CHECK_DEADLOCK FALSE
