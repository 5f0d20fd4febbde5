\* A server with one executor thread, its restart, two jobs for one place in each
\* table, records and requests that expire and are created anew, also by another
\* context, cancellations and exports.
SPECIFICATION MCSpec
CONSTANTS
    None = None
    j1 = j1
    j2 = j2
    a1 = a1
    a2 = a2
    c1 = c1
    Jobs = {j1, j2}
    Candidates = {c1, c2}
    Valid <- MCValid
    Ttl = 2
    MaxRecords = 1
    MaxNow = 3
    Workers = {s1}
    Callers = {u1}
    Contexts = {a1, a2}
    Lease <- MCLease
    ExecutorCodes <- MCMapped
    Crashable = {s1}
    MaxCrashes = 1
INVARIANTS
    ServerTypeOK
    LedgerBounded
PROPERTIES
    RequestKeptForJob
    GeometryOnlyForCompletedJob
    ImplementsWorkers
    StartedJobSettles
