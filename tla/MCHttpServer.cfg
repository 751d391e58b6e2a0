SPECIFICATION FairSpec
CONSTANTS
    r1 = r1
    Requests = {r1}
    MaxAgents = 3
    MaxTokens = 2
    Grace = 2
    Retries = 2
INVARIANTS
    TypeOK
    AnswersMeanExecution
    OldAgentsGo
PROPERTIES
    FirstAttemptHasGrace
    RequestsAnswered
CHECK_DEADLOCK FALSE
