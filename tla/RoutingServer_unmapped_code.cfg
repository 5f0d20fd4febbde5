\* The executor raises the one failure code _failure_message has no message for.
SPECIFICATION ServerSpec
CONSTANTS
    None = None
    j1 = j1
    j2 = j2
    a1 = a1
    a2 = a2
    c1 = c1
    Jobs = {j1}
    Candidates = {c1}
    Valid <- MCValid
    Ttl = 4
    MaxRecords = 1
    MaxNow = 3
    Workers = {s1}
    Callers = {u1}
    Contexts = {a1}
    Lease <- MCLease
    ExecutorCodes <- MCUnmapped
    Crashable = {s1}
    MaxCrashes = 0
PROPERTIES
    StaleLeaseClosed
