SPECIFICATION Spec
CONSTANTS
    Machines <- TestMachines
    Leftovers <- TestLeftovers
    NUM_GSI = 8
    LEGACY = 4
    CAPACITY = 3
    BSP = 0
    FAR = 1
    FOREIGN = 8
INVARIANTS  UnclaimedLinesAreRouted KernelVectorsReachTheBsp TouchesOnlyMapped
CHECK_DEADLOCK FALSE
