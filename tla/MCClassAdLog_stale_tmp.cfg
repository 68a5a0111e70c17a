CONSTANTS
    Keys = {k1}
    Values = {v1}
    NoAd = NoAd
    NoTxn = NoTxn
    NoFile = NoFile
    Faults = {"process", "machine", "stale_tmp"}
    Recreates = FALSE
    MaxRecords = 6
SPECIFICATION Spec
INVARIANTS
    AppendsToSoundLog
