\* Two sweeps, a manual close, the broker and the workers, part fills, a fault.
CONSTANTS
    Trades = {t1, t2}
    Sweepers = {s1, s2}
    Requests = {r1}
    NoTrade = NoTrade
    Mt5Given = TRUE
    PartialFills = TRUE
    MaxFaults = 1
SPECIFICATION FairSpec
INVARIANTS
    ClosedOnlyAfterDeal
    ClosedEventOnce
PROPERTIES
    RealisedPnlStays
    EveryCloseIsRecorded
CHECK_DEADLOCK FALSE
