SPECIFICATION Spec
CONSTANTS
    N = 2
    Leader = 0
    StrictOwner = 1
    Limit = 4
    Reservation <- TwoFirst
    DangerThreshold = 1
    Deltas = {1}
    Counters = {0}
    Timely = FALSE
    Crashable = {0, 1}
    Stoppable = {0, 1}
    MaxRestarts = 2
    MaxTerm = 2
    PersistMayFail = TRUE
INVARIANTS CommitAgreement AckImpliesDurable RestartsAsRecorded SplitOnlyByLapse
           LimitKept GrantsConserved FrozenVotes
PROPERTIES CommittedRecordStable
CHECK_DEADLOCK FALSE
