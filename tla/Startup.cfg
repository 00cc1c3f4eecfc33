SPECIFICATION FairSpec
CONSTANTS
    Replicas = {r1, r2}
    PollLimit = 2
    MaxEdits = 2
    MaxFaults = 2
INVARIANTS
    TypeOK
    CreatorSurvives
PROPERTIES
    AllRun
CHECK_DEADLOCK FALSE
