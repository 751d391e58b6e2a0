SPECIFICATION Spec
CONSTANTS
    s1 = s1
    s2 = s2
    s3 = s3
    Sockets = {s1, s2, s3}
    NoSocket = NoSocket
    Inbox <- AllInbox
    MaxCerts = 2
    PingsOnTime = FALSE
    LateFrames = TRUE
INVARIANTS
    TypeOK
    ReconnectArmed
    InitContinuesOnce
    LoadHasAnEnd
    ClosingIsFinal
    CertsInOrder
PROPERTIES
    NeverAbandonsOpen
    ImplementsLifecycle
SYMMETRY Symmetry
CHECK_DEADLOCK FALSE
