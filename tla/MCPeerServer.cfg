SPECIFICATION FairSpec
CONSTANTS
    A = A
    B = B
    Peers = {A, B}
    Signals = {1, 2}
    pm4mlEnabled = TRUE
INVARIANTS
    ReadyMeansStarted
    NeverGivesUp
    OneJwsLoop
    StopIsFinal
    StopsBothPeers
    AwaitsEnd
PROPERTIES
    ImplementsLinks
    UsesAgent
    ServesAnyway
    BecomesReady
    StopEnds
CHECK_DEADLOCK FALSE
