SPECIFICATION Spec
CONSTANTS
    Actors = {a1, a2}
    MaxRecords = 4
    MaxTime = 3
    TicksPerSecond = 2
    MaxLease = 2
    MaxHandoffs = 2
    MaxOthers = 1
    Nobody = Nobody
SYMMETRY Symmetry
INVARIANTS HistoryReplays ClaimableAgain
PROPERTY KeepsLease
