CONSTANTS
    Keys = {k1, k2}
    Values = {v1}
    NoAd = NoAd
    NoTxn = NoTxn
    NoFile = NoFile
    Faults = {"process", "machine"}
    Recreates = FALSE
    MaxRecords = 7
SPECIFICATION Spec
INVARIANTS
    NeverUnrecoverable
    AppendsToSoundLog
    LookupIsStrict
