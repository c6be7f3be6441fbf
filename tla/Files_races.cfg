CONSTANTS
    p1 = p1  p2 = p2  p3 = p3
    windows = windows  wsl = wsl
    Processes = {p1, p2, p3}
    Runtimes = {windows, wsl}
    RuntimeOf <- MCRuntimeOf
    MayAutoClaim = {windows}
    Absent = Absent
    Malformed = Malformed
    MaxJobs = 2  MaxPrepareFaults = 4
    MaxSnapshots = 2  Keep = 1  MaxSnapshotFaults = 2  MaxWrites = 1
    MaxIngests = 2  MaxDeaths = 1  MaxPins = 1
    MaxThings = 2
    MaxImports = 2  MaxItems = 2  Stride = 2  ReviewLimit = 1  MaxImportFaults = 1
    w1 = w1
    j1 = j1  k1 = k1  k2 = k2  role = role
    Rows = {j1, j2}
    NoKey = NoKey  NoSession = NoSession  NoOne = NoOne  Gone = Gone  NoJob = NoJob
    PhasedTypes = {"review_card_placement"}
    MaxPriorityBypass = 1
    MaxRetryBypass = 1
    ReclaimLimit = 2
    PassLimit = 1
SPECIFICATION FilesSpec
INVARIANTS OneRuntimeWrites CommittedIsWhole
PROPERTIES ClaimIsChosen NothingOwedIsLost InterruptedSettles CommittedIsReported
CHECK_DEADLOCK FALSE
