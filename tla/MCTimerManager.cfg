SPECIFICATION FairSpec
CONSTANTS
    MaxTimers = 3
    MaxTime = 1
    Requests <- MCRequests
    MaxFires = 3
INVARIANTS
    NeverExcepts
    ListSound
    NoOversleep
PROPERTIES
    NoOvertaking
    TimeoutReturns
