SPECIFICATION ProjectsSpec
CONSTANTS
    Importers = {p1, p2}
    Origins = {1, 2}
    Hashes = {h1, h2}
    MaxVariants = 2
    MaxDecisions = 1
    MaxRecords = 3
    MaxTime = 1
    TicksPerSecond = 1
    Paths = {f1}
    Subjects = {s1}
    MaxAssets = 2
    MaxRows = 4
    NoPath = NoPath
    NoHash = NoHash
SYMMETRY Symmetry
INVARIANTS ImportsReplay ImportsAreWanted IndexFollowsCommits DependentsFlagged NoForks
