SPECIFICATION LiveSpec
CONSTANTS
    j1 = j1  j2 = j2
    w1 = w1  w2 = w2
    k1 = k1  r1 = r1  r2 = r2  s1 = s1
    Jobs = {j1, j2}
    Workers = {w1, w2}
    NoKey = NoKey  NoSession = NoSession  NoOne = NoOne  Gone = Gone  NoJob = NoJob
    JobSpecs <- FairSpecs
    RolesOf <- OneFiltered
    MaxPriorityBypass = 1
    MaxRetryBypass = 1
    ReclaimLimit = 2
    PassLimit = 2
INVARIANTS TypeOK KeysExclusive
PROPERTIES WorkIsCarriedOn VerdictByHolder EventuallyClaimed DeadLeaseReclaimed
