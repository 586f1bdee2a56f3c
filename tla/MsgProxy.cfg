CONSTANTS
    Fds = {f1, f2}
    QueueSize = 1
    MaxMsgs = 2
    MaxConns = 2
    MaxSenders = 2
SPECIFICATION FairSpec
INVARIANTS ListIsAlive OneSenderPerSocket NoGaps Complete
PROPERTIES Drains
CHECK_DEADLOCK FALSE
