\* Live trading, worker crashes and Redis faults, exact broker replies.
CONSTANTS
    Consumers = {w1, w2}
    Keys = {k1, k2}
    NoOrder = NoOrder
    BatchSize = 2
    MaxAttempts = 2
    DryRunners = {}
    BrokerMayLoseReply = FALSE
    MaxEntries = 2
    MaxCrashes = 1
    MaxRedisFaults = 1
SYMMETRY Symmetry
SPECIFICATION Spec
INVARIANTS
    SendsBounded
    SingleDeal
    OneAnnouncedOutcome
    LedgerMatchesBroker
    CachedOutcomeWasAnnounced
    AckedOnlyAfterClaim
    UnreportedBounded
PROPERTIES
    ImplementsLedger
CHECK_DEADLOCK FALSE
