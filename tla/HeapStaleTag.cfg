CONSTANTS
    PAGE_SIZE = 64
    HEAP_MIN_SIZE = 64
    HEAP_MAX_SIZE = 128
    Requests = {1, 16, 44}
    AlignedRequests = {}
SPECIFICATION Spec
INVARIANT TagsAreNeverStale
CHECK_DEADLOCK FALSE
