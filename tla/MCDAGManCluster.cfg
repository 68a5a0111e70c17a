SPECIFICATION Spec
CONSTANTS
    NumNodes = 3
    Parents <- MCParents
    PreScripts = {1, 2}
    PreSkips = {1}
    PostScripts = {3}
    RetryMax <- MCClusterRetries
    PreDone = {}
    AlwaysRunPost = TRUE
    MaxJobs = 1
    MaxIdle = 1
    MaxScripts = 1
    MaxSubmitAttempts = 1
    Procs <- MCCluster
    MaxCrashes = 1
    MaxMishaps = 1
INVARIANTS
    NeverExcepts
    PostAfterCluster
    CountersAgree
    MaxJobsKept
CHECK_DEADLOCK FALSE
