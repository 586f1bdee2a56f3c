CONSTANTS
    LastWord = 2
    PageSize = 2
    Data = {0, 1}
    MaxNoise = 0
    MaxPowerLosses = 0
    Blocks = {1, 2}
SPECIFICATION Spec
INVARIANTS ErrorIsFault
