CONSTANTS
 Agents = {1, 2} Deniers = {1} MaxCards = 3 MaxDamages = 1 MaxStirs = 0 CandidateLimit = 2 RepairLimit = 2
SPECIFICATION Spec
PROPERTIES RepairedIsClean
CHECK_DEADLOCK FALSE
