SPECIFICATION MCSpec
CONSTANTS
    Tokens = {t1, t2, t3}
    Sizes = {1, 2}
    MaxArtifacts = 2
    MaxTotalBytes = 3
    ArtifactTtl = 1
    MaxArtifactCalls = 4
    Handles = {h1, h2, h3}
    HandleJobs = {j1, j2}
    Owners = {o1, o2}
    MaxHandles = 2
    HandleRetention = 2
    MaxTaskClock = 3
    Reviews = {r1, r2, r3}
    MaxPending = 1
    ConsentTtl = 1
    ArtifactRoom = 1
    MaxConsentClock = 2
    MaxChallenges = 2
    MaxRevision = 2
    RequestChunks = 2
    AnswerChunks = 3
    PipeRoom = 2
    MaxProduced = 2
    OutputLimit = 1
    CleanupAttempts = 2
    Nets = {1, 2, 3, 4}
    Cells = {1, 2, 3, 4}
    Routes = {{1}, {1, 2}, {4}}
    Clearance = 2
    Window = 1
    MaxRipup = 1
    MaxPasses = 2
    MaxWork = 7
    MaxWorkPerNet = 1
    LatticeX = 3
    LatticeY = 1
    StepCost = 2
    BendPenalty = 5
    ProximityPenalty = 3
    CongestionPenalty = 1
    MaxExpansions = 11
    Sources <- MCSources
    Targets <- MCTargets
    MaxBlocked = 2
    MaxMarked = 1
    LayerX = 4
    LayerY = 1
    Layers = {0, 1}
    Start <- MCStart
    Goals <- MCGoals
    MoveCost = 2
    ViaCost = 1
    LayeredExpansions = 16
    MaxNodes = 19
    ViaCaps = {0, 2}
    Obstacles <- MCObstacles
    Keepouts <- MCKeepouts
    IndexKeys = {k1, k2, k3}
    Rectangles <- MCRectangles
    CellSize = 2
    MaxCells = 2
    MaxEntries = 2
    MinIndexed = 2
    BucketLimit = 5
INVARIANTS
    PartsTypeOK DeliveredWhole PublishedSetIsLegal LedgerMatchesAllocation
    BudgetRespected KeptSetIsSound BytesAccounted OneDecisionPerChallenge
    SearchIsShortest LayeredSearchIsShortest IndexesMissNothing RunEndsClean HandleLifetimeBounded
PROPERTIES
    AnswerNeedsNoDeadline GroupEnds LeastRecentGoes
CHECK_DEADLOCK FALSE
