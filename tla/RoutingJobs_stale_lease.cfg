\* A worker outlives the retention of its record, and the job is created again.
SPECIFICATION Spec
CONSTANTS
    None = None
    j1 = j1
    j2 = j2
    c1 = c1
    c2 = c2
    Jobs = {j1}
    Candidates = {c1, c2}
    Valid <- MCValid
    Ttl = 1
    MaxRecords = 1
    MaxNow = 2
    Workers = {w1, w2}
    Callers = {u1}
    Lease <- MCShortLease
    ExecutorCodes <- MCMapped
    Crashable = {}
PROPERTIES
    OnlyOwnRecordMoves
