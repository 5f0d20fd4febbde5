\* A cancellation lands between a worker's last look at the job and its CAS.
SPECIFICATION Spec
CONSTANTS
    None = None
    j1 = j1
    j2 = j2
    c1 = c1
    c2 = c2
    Jobs = {j1}
    Candidates = {c1, c2}
    Valid <- MCValid
    Ttl = 6
    MaxRecords = 1
    MaxNow = 1
    Workers = {w1}
    Callers = {u1}
    Lease <- MCLease
    ExecutorCodes <- MCMapped
    Crashable = {}
PROPERTIES
    NoExecutionStrandsCancellation
