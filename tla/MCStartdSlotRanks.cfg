CONSTANTS
    Ranks = {0, 1}
    StartdSendsAlives = TRUE
    HasBackfill = FALSE
    NoClaim = NoClaim
SPECIFICATION RankSpec
INVARIANTS
    PreemptingRankSuffices
\* The startd exits in startd_check_free().
CHECK_DEADLOCK FALSE
