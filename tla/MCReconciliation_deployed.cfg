\* The Reconciler as main.py constructs it, without mt5.
CONSTANTS
    Trades = {t1, t2}
    Sweepers = {s1}
    Requests = {r1}
    NoTrade = NoTrade
    Mt5Given = FALSE
    PartialFills = TRUE
    MaxFaults = 0
SPECIFICATION FairSpec
PROPERTIES
    EveryCloseIsRecorded
CHECK_DEADLOCK FALSE
