SPECIFICATION Spec
CONSTANTS
    r1 = r1
    Requests = {r1}
    MaxAgents = 2
    MaxTokens = 1
    Grace = 2
    Retries = 3
PROPERTIES
    ShutdownIsGraceful
CHECK_DEADLOCK FALSE
