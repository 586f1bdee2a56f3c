CONSTANTS
    LastWord = 2
    PageSize = 2
    Data = {0, 1}
    MaxNoise = 1
    MaxPowerLosses = 1
    Blocks = {1, 2}
SPECIFICATION FairSpec
INVARIANTS ReadsAreTrue WritesHappened OkLeavesClean
PROPERTIES Answered
