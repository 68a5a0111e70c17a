SPECIFICATION Spec
CONSTANTS
    NumNodes = 2
    Parents <- MCApart
    PreScripts = {1, 2}
    PreSkips = {1, 2}
    PostScripts = {}
    RetryMax <- MCNoRetries
    PreDone = {}
    AlwaysRunPost = TRUE
    MaxJobs = 1
    MaxIdle = 1
    MaxScripts = 1
    MaxSubmitAttempts = 1
    Procs <- MCTwoJobs
    MaxCrashes = 1
    MaxMishaps = 0
INVARIANTS
    SkipIDsFresh
CHECK_DEADLOCK FALSE
