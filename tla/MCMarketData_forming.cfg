\* Two timeframes and two consumers; one backfill reads the forming bar.
CONSTANTS
    NumTimeframes = 2
    HistoryBars = 2
    Retries = 2
    Jobs = {j1}
    ChunkSize = 2
    Cutoff = 1
    Consumers = {c1, c2}
    BatchSize = 2
    MinBars = 2
    WarmUp = 0
    MaxDeliveries = 3
    Malformed = Malformed
    FirstClosed = 2
    MaxClosed = 3
    MaxEntries = 4
    MaxFaults = 1
SPECIFICATION Spec
INVARIANT
    OhlcvHoldsClosedBars
CHECK_DEADLOCK FALSE
