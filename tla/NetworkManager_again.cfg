CONSTANTS
    Networks = {home}
    NoNetwork = NoNetwork
    MaxJoins = 1
    MaxLosses = 1
    MaxDrops = 0
    MaxPushes = 0
    LongPress = 2
SPECIFICATION FairSpec
PROPERTIES Reconnects
CHECK_DEADLOCK FALSE
