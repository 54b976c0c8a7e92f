\* One timeframe polled for its last closed bar, one backfill or script, one
\* consumer with batches of two, and one failure.
CONSTANTS
    NumTimeframes = 1
    HistoryBars = 1
    Retries = 2
    Jobs = {j1}
    ChunkSize = 2
    Cutoff = 1
    Consumers = {c1}
    BatchSize = 2
    MinBars = 2
    WarmUp = 0
    MaxDeliveries = 3
    Malformed = Malformed
    FirstClosed = 2
    MaxClosed = 3
    MaxEntries = 4
    MaxFaults = 1
SPECIFICATION Spec
INVARIANTS
    SeenBarsAreForwarded
    AnnouncementsHold
    BackfillHasNoHoles
    StrandedBounded
PROPERTIES
    EveryBarGetsFeatures
CHECK_DEADLOCK FALSE
