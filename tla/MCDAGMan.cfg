SPECIFICATION Spec
CONSTANTS
    NumNodes = 3
    Parents <- MCParents
    PreScripts = {1, 2}
    PreSkips = {1}
    PostScripts = {3}
    RetryMax <- MCRetries
    PreDone = {}
    AlwaysRunPost = TRUE
    MaxJobs = 2
    MaxIdle = 1
    MaxScripts = 1
    MaxSubmitAttempts = 2
    Procs <- MCSingle
    MaxCrashes = 2
    MaxMishaps = 0
INVARIANTS
    NeverExcepts
    ParentsFirst
    DoneStaysDone
    OneCluster
    AttemptsBounded
    CountersAgree
    EndsWell
    NeverStuck
PROPERTIES
    NoRerun
CHECK_DEADLOCK FALSE
