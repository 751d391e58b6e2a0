SPECIFICATION Spec
CONSTANTS
    l1 = l1
    l2 = l2
    Loops = {l1, l2}
    NoLoop = NoLoop
    Interval = 5
    Advance = 4
    RetryDelay = 1
    MaxLatency = 1
    Expiries = {3, 5, 7}
PROPERTIES
    StopsUpdates
CHECK_DEADLOCK FALSE
