SPECIFICATION Spec
CONSTANTS
    N = 2
    Leader = 0
    StrictOwner = 0
    Limit = 2
    Reservation <- OneEach
    DangerThreshold = 1
    Deltas = {1}
    Counters = {0}
    Timely = TRUE
    Crashable = {0}
    Stoppable = {}
    MaxRestarts = 1
    MaxTerm = 1
    PersistMayFail = FALSE
INVARIANTS NoSplitCluster
