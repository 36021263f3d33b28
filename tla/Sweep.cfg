SPECIFICATION Spec
CONSTANTS
    Callers = {s1, s2, api}
    Sweepers = {s1, s2}
    Nobody = nobody
    None = none
    p1 = p1
    p2 = p2
    Payments = {p1, p2}
    Kobo <- MCKobo
    Error <- MCError
    Backfills = {2}
    Focuses <- MCFocuses
    Interval = 1
    Overlap = 1
    PageSize = 1
    MaxTime = 3
    MaxFaults = 1
SYMMETRY Symmetry
INVARIANT
    TypeOK
    OneRefresh
    SentTokensFresh
    NobodyStranded
    NothingSkipped
    PostedAmounts
CHECK_DEADLOCK FALSE
