SPECIFICATION FairSpec
CONSTANTS
    N = 3
    Leader = 0
    StrictOwner = 1
    Limit = 5
    Reservation <- TwoFirst
    DangerThreshold = 1
    Deltas = {1}
    Counters = {0, 1}
    Timely = TRUE
    Crashable = {}
    Stoppable = {}
    MaxRestarts = 0
    MaxTerm = 2
    PersistMayFail = FALSE
INVARIANTS TypeOK HardLimit
PROPERTIES CommitCompletes GateReopens
