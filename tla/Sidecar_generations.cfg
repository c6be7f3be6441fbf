SPECIFICATION Spec
CONSTANTS
    LastState = 4
    MaxFaults = 0
    MaxPrunes = 0
    MaxAttempts = 2
PROPERTY GenerationsImmutable
