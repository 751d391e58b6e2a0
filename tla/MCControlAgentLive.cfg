SPECIFICATION FairSpec
CONSTANTS
    s1 = s1
    s2 = s2
    Sockets = {s1, s2}
    NoSocket = NoSocket
    Inbox <- ApiInbox
    MaxCerts = 2
    PingsOnTime = TRUE
    LateFrames = FALSE
PROPERTIES
    LoadSettles
    CloseSettles
    ReconnectsUnlessOrphan
    CertsConverge
CHECK_DEADLOCK FALSE
