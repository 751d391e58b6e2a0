SPECIFICATION FairSpec
CONSTANTS
    l1 = l1
    l2 = l2
    l3 = l3
    Loops = {l1, l2, l3}
    NoLoop = NoLoop
    Interval = 5
    Advance = 4
    RetryDelay = 1
    MaxLatency = 1
    Expiries = {3, 5, 7}
INVARIANTS
    OneLoop
    RunningHasLoop
    TokenFresh
PROPERTIES
    TokenRecovers
CHECK_DEADLOCK FALSE
