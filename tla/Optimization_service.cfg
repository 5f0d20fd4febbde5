CONSTANTS
    j1 = j1
    j2 = j2
    None = None
    Jobs = {j1, j2}
    Launches <- MCLaunches
    V2 <- MCVersions
    MaxRecords = 2
    WorkerCodes = {"backend_failure"}
    MaxCharges = 1
    Callers = {1, 2}
    MaxPrivate = 2
    MaxPrivateBytes = 2
    MaxCrashes = 1
SPECIFICATION MCFairSpec
INVARIANTS
    TypeOK
    PackageFollowsRecord
    CandidateKeptForReview
    RetentionBounded
PROPERTIES
    ImplementsLifecycle
    SubmissionSettles
