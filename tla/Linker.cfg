CONSTANTS
    UNIT_SIZE = 16
    MAX_UNITS = 5
    Objects <- TestObjects
    MODULE_SPACE_BASE = 160
    NumFrames = 6
    MAX_LAYOUTS = 3
    MAX_MODULES = 3
SPECIFICATION FairSpec
INVARIANTS Balanced SectionsAreApart ReferencesLeadHome EnteredMeansMapped
PROPERTIES ShutdownEnds
CHECK_DEADLOCK FALSE
