SPECIFICATION Spec
CONSTANTS
    c1 = c1
    c2 = c2
    Clients <- TwoClients
    Limit = 3
    LocalPeakReservation = 2
    Shards = 2
    DangerThreshold = 1
    Deltas = {1}
    StartPeak = TRUE
    OwnerRoles = {FALSE}
    CloseIsBuffered = FALSE
SYMMETRY ClientSymmetry
INVARIANTS SnapshotFromItsEpoch
