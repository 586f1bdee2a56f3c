CONSTANTS
    Versions = {1, 2}
    Full = 2
    MaxUploads = 2
    MaxPowerCuts = 2
    MaxFaults = 1
SPECIFICATION FairSpec
INVARIANTS AlwaysBootable 
PROPERTIES Settles GoodUploadInstalled
CHECK_DEADLOCK FALSE
