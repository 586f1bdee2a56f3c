CONSTANTS
    Networks = {home}
    NoNetwork = NoNetwork
    MaxJoins = 2
    MaxLosses = 1
    MaxDrops = 0
    MaxPushes = 0
    LongPress = 2
SPECIFICATION Spec
INVARIANTS ConnectedIsNews
CHECK_DEADLOCK FALSE
