SPECIFICATION SidecarSpec
CONSTANTS
    LastState = 4
    MaxFaults = 1
    MaxPrunes = 1
    MaxAttempts = 2
    FailedRows = {1, 2}
    Passes = {p1, p2}
    Steadfast = p1
    MaxSteps = 2
    MaxStale = 1
    MaxTurns = 5
    Window = 1
    Limit = 1
INVARIANTS SidecarOrDebt DebtsAccounted
PROPERTIES AuthorityStands DebtsEnd
CHECK_DEADLOCK FALSE
