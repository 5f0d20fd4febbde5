\* Two workers in processes that may die and one job, whose record may expire and
\* be created anew under its id while workers hold leases on the old one: every
\* interleaving of claim, execution, cancellation, recovery and restart.
SPECIFICATION Spec
CONSTANTS
    None = None
    j1 = j1
    j2 = j2
    c1 = c1
    c2 = c2
    Jobs = {j1}
    Candidates = {c1, c2}
    Valid <- MCValid
    Ttl = 3
    MaxRecords = 1
    MaxNow = 4
    Workers = {w1, w2}
    Callers = {u1}
    Lease <- MCLease
    ExecutorCodes <- MCUnmapped
    Crashable = {w1, w2}
SYMMETRY MCSymmetry
INVARIANTS
    TypeOK
    RecordsWellShaped
    ExecutedOnce
PROPERTIES
    LiveLeaseRespected
    ReleasedLeaseClosesJob
    ImplementsLifecycle
