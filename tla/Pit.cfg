CONSTANTS
    Clients = {a, b}
    MAX_HANDLERS = 2
    interval_us = 2
    Intervals = {2, 3}
    Targets = {2}
    MaxTicks = 4
SPECIFICATION Spec
INVARIANTS CountIsExact OnTime
CHECK_DEADLOCK FALSE
