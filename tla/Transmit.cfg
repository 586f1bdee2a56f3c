CONSTANTS
    Good = {9600, 115200}
    Bad = {0}
    Default = 115200
    ReadSize = 2
    MaxBytes = 2
    MaxSettings = 2
    MaxTx = 2
    TxSize = 1
SPECIFICATION FairTransmit
INVARIANTS OneReader PiecesJoin StampsAtLineStarts TextsAccounted SettingsAgree
PROPERTIES CrashOnlyInSetting InitReturns
CHECK_DEADLOCK FALSE
