CONSTANTS
    Producers = {p1, p2}
    Consumers = {c1}
    Viewers = {v1}
    Capacity = 2
    MaxPushes = 3
    NoThread = NoThread
SPECIFICATION FairSpec
INVARIANTS NoLostWakeup
PROPERTIES ImplementsFifo CallsReturn
