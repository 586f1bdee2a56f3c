CONSTANTS
    MaxKeys = 6
    MaxTalks = 1
    MaxVisits = 1
SPECIFICATION FairSpec
INVARIANTS CommandsComplete
PROPERTIES  ComesUp
CHECK_DEADLOCK FALSE
