SPECIFICATION WPSpec
CONSTANTS
    j1 = j1  j2 = j2
    w1 = w1  w2 = w2
    k1 = k1  k2 = k2  r1 = r1
    Jobs = {j1, j2}
    Workers = {w1, w2}
    NoKey = NoKey  NoSession = NoSession  NoOne = NoOne  Gone = Gone  NoJob = NoJob
    JobSpecs <- PassSpecs
    PhasedTypes = {"review_card_placement"}
    RolesOf <- Unfiltered
    MaxPriorityBypass = 1
    MaxRetryBypass = 1
    ReclaimLimit = 2
    PassLimit = 1
SYMMETRY Symmetry
INVARIANTS EffectsAreExact
PROPERTIES CommittedUnderLease
