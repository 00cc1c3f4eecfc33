SPECIFICATION FairSpec
CONSTANTS
    NoEndpoint = NoEndpoint
    Replicas = {r1, r2}
    Sites <- MCSites
    MaxRetries = 3
    MaxCalls = 2
    MaxFaults = 1
    MaxDowns = 2
INVARIANTS
    TypeOK
    RestartDone
    ReadyMeansAnswered
    AnsweredWhenUp
    RestartsBounded
PROPERTIES
    Terminates
CHECK_DEADLOCK FALSE
