SPECIFICATION FairSpec
CONSTANTS
    s1 = s1
    s2 = s2
    Sockets = {s1, s2}
    NoSocket = NoSocket
    Inbox <- CertsInbox
    MaxCerts = 1
    PingsOnTime = TRUE
    LateFrames = FALSE
PROPERTIES
    PingTimeoutReopens
CHECK_DEADLOCK FALSE
