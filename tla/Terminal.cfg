CONSTANTS
    QueueSize = 2
    MaxMsgs = 4
    MaxTexts = 2
    RxSize = 1
    OutSize = 1
    ChunkSize = 2
    MaxFiles = 5
    MaxExpiries = 1
    MaxFaults = 1
    MaxPowerCuts = 1
SPECIFICATION FairTerminal
INVARIANTS Accounted DurableWhenIdle HostInOrder FilesGivenBack DownloadSurvives
PROPERTIES ImplementsJournal HostSeesAll BroadcastGoesOn
CHECK_DEADLOCK FALSE
