CONSTANTS
    j1 = j1
    j2 = j2
    None = None
    Jobs = {j1}
    Launches <- MCLaunches
    V2 = {j1}
    MaxRecords = 2
    WorkerCodes = {}
    MaxCharges = 0
    Callers = {1}
    MaxPrivate = 2
    MaxPrivateBytes = 3
    MaxCrashes = 1
SPECIFICATION ServingSpec
PROPERTY
    LostInputsTerminate
