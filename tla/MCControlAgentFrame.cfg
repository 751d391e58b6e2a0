SPECIFICATION FairSpec
CONSTANTS
    s1 = s1
    s2 = s2
    Sockets = {s1, s2}
    NoSocket = NoSocket
    Inbox <- BadFrames
    MaxCerts = 1
    PingsOnTime = TRUE
    LateFrames = FALSE
PROPERTIES
    BadFrameHandled
CHECK_DEADLOCK FALSE
