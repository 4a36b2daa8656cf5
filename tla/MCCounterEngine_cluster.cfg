SPECIFICATION Spec
CONSTANTS
    c1 = c1
    c2 = c2
    Clients <- TwoClients
    Limit = 3
    LocalPeakReservation = 2
    Shards = 3
    DangerThreshold = 1
    Deltas = {1}
    StartPeak = TRUE
    OwnerRoles = {TRUE, FALSE}
    CloseIsBuffered = FALSE
SYMMETRY ClientSymmetry
INVARIANTS GateInvariant ConservesAccepts DrainedTotalExact ExhaustedIsDefinitive
