SPECIFICATION Spec
CONSTANTS
    MaxOps = 2
    MaxAttempts = 2
    MaxDeaths = 0
    MaxHandoffs = 1
CHECK_DEADLOCK FALSE
INVARIANTS FailureCanBeRetried
