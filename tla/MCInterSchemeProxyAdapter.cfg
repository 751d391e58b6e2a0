SPECIFICATION FairSpec
CONSTANTS
    MaxJws = 1
    MaxCreds = 1
    MaxDrops = 1
    MaxFrames = 1
INVARIANTS
    PingCredentialsAgree
    CredentialsOfDestination
PROPERTIES
    ImplementsRelay
    JwsConverges
CHECK_DEADLOCK FALSE
