CONSTANTS
    PAGE_SIZE = 32
    HEAP_MIN_SIZE = 32
    HEAP_MAX_SIZE = 128
    Requests = {1, 16, 44}
    AlignedRequests = {1, 16}
SPECIFICATION Spec
INVARIANTS ChunksTileTheHeap  NothingLeaks OnlyKnownFaults
CHECK_DEADLOCK FALSE
