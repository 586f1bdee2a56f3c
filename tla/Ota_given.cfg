CONSTANTS
    Versions = {1, 2}
    Full = 2
    MaxUploads = 1
    MaxPowerCuts = 0
    MaxFaults = 1
SPECIFICATION Spec
PROPERTIES BootsGivenFile
CHECK_DEADLOCK FALSE
