CONSTANTS
    Ranks = {0}
    StartdSendsAlives = FALSE
    HasBackfill = FALSE
    NoClaim = NoClaim
SPECIFICATION ClaimSpec
PROPERTIES
    PreemptingEnds
    PreemptingRequestAnswered
\* The startd exits in startd_check_free().
CHECK_DEADLOCK FALSE
