SPECIFICATION Spec
CONSTANTS
    w1 = w1
    worker_ = w1
    None = None
    Recorders = 2
    CounterIds = 2
    Producers <- TwoRecorders
    Consumers <- OneWorker
    Values <- TwoCounters
    Capacity = 2
    HotThreshold = 20
    MaxRecords = 3
    MaxStarts = 2
INVARIANTS TypeOK NoRace SamplesAccounted
PROPERTIES ImplementsFifo StopReturns
CHECK_DEADLOCK FALSE
