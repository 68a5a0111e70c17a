CONSTANTS
    Ranks = {0}
    StartdSendsAlives = FALSE
    HasBackfill = TRUE
    NoClaim = NoClaim
SPECIFICATION Spec
INVARIANTS
    NoExcept
    ClaimsMatchState
    LeaseWhileClaimed
    PreemptingWillEnd
    PendingRequestProgresses
    BackfillExcludesJob
    BusyNotRetired
    IInv
PROPERTIES
    StarterNeverAbandoned
\* The startd exits in startd_check_free().
CHECK_DEADLOCK FALSE
