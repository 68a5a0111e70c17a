CONSTANTS
    Keys = {k1}
    Values = {v1}
    NoAd = NoAd
    NoTxn = NoTxn
    NoFile = NoFile
    Faults = {"process", "machine"}
    Recreates = FALSE
    MaxRecords = 6
SPECIFICATION Spec
PROPERTIES
    ImplementsDurableTable
