SPECIFICATION RecoverySpec
CONSTANTS
    Recoverers = {r1, r2}
    None = None
    MaxProgress = 1
    MaxFaults = 1
    MaxCrashes = 2
    Agents = {1, 2, 3}
    Deniers = {1}
    MaxCards = 3
    MaxDamages = 1
    MaxStirs = 1
    CandidateLimit = 2
    RepairLimit = 2
    Uris = {u1, u2}
    Contents = {c1, c2}
    MaxFiles = 2
INVARIANTS EvidenceAgrees GroupsWhole
PROPERTIES VerdictsAreDue AuthorityPassesOn DisputesStay InterruptedRecovers
CHECK_DEADLOCK FALSE
