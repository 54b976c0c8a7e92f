\* A live and a dry-run worker in one group, a broker that loses replies, and
\* a Redis that loses the group or rewinds it; no worker dies.
CONSTANTS
    Consumers = {w1, w2}
    Keys = {k1, k2}
    NoOrder = NoOrder
    BatchSize = 2
    MaxAttempts = 2
    DryRunners = {w2}
    BrokerMayLoseReply = TRUE
    MaxEntries = 2
    MaxCrashes = 0
    MaxRedisFaults = 1
SPECIFICATION FairSpec
PROPERTIES
    EveryOrderSettles
CHECK_DEADLOCK FALSE
