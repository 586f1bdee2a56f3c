CONSTANTS
    Networks = {home}
    NoNetwork = NoNetwork
    MaxJoins = 3
    MaxLosses = 1
    MaxDrops = 1
    MaxPushes = 4
    LongPress = 2
SPECIFICATION FairSpec
INVARIANTS LedFollowsLink
PROPERTIES ForgetsOnlyWhenHeld JoinReturns EndsConnected
CHECK_DEADLOCK FALSE
