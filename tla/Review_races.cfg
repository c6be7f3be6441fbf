SPECIFICATION ReviewSpec
CONSTANTS
    MaxOps = 2
    MaxAttempts = 2
    MaxDeaths = 1
    MaxHandoffs = 0
    Callers = {c1, c2}
    Others = {c2}
    Unlocked = Unlocked
    LegacyJobs = {1, 2}
CHECK_DEADLOCK FALSE
INVARIANTS AcceptedAnswersItsAttempt OneClaim HistoryInOrder TakenBackCanBeFinished
PROPERTIES SealedForGoodAndTrue InterruptedCompletes
