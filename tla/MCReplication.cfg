SPECIFICATION FairSpec
CONSTANTS
    k1 = k1
    k2 = k2
    N = 3
    Publishers = {0}
    Keys <- TwoKeys
    Values = {1, 2}
    OutboundCapacity = 2
    MaxPending = 3
    MaxRetries = 1
    AmountMax = 10
    MaxPublishes = 2
    MaxRestarts = 1
INVARIANTS TypeOK NoSilentLoss NeverCountedTwice
PROPERTIES ReplicaMonotone RetryWorkEnds SettlesOrDrops
CHECK_DEADLOCK FALSE
