\* Two instances, both limits biting.
SPECIFICATION FairSpec
CONSTANTS
    Instances = {c1, c2}
    Signals = {s1, s2, s3, s4}
    NoSignal = NoSignal
    BatchSize = 2
    MaxOpenTrades = 2
    MaxTotalRisk = 3
    RiskPct = 3
    Amounts = {1, 3}
    Scenarios <- MCScenarios
INVARIANTS
    TypeOK
    OpenTradesBounded
    TotalRiskBounded
    OneAnswer
PROPERTIES
    EverySignalAnswered
CHECK_DEADLOCK FALSE
