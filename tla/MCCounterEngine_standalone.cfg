SPECIFICATION Spec
CONSTANTS
    c1 = c1
    c2 = c2
    Clients <- TwoClients
    Limit = 3
    LocalPeakReservation = 3
    Shards = 2
    DangerThreshold = 1
    Deltas = {1, 2}
    StartPeak = FALSE
    OwnerRoles = {TRUE, FALSE}
    CloseIsBuffered = FALSE
SYMMETRY ClientSymmetry
INVARIANTS TypeOK Quiescent ConservesAccepts ExhaustionAnnounced
PROPERTIES ImplementsLimitCounter SnapshotsMonotone
