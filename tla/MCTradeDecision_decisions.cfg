SPECIFICATION Spec
CONSTANTS
  MinScoreHalves = 9
  MinPWin = 550
  AllowS0Fade = FALSE
  SlBuffer = 5
  RR1 = 2
  RR2 = 3
  RiskPerMille = 10
  TickValue = 1
  MarginUsage = 50
  Atr = 10
  ImpulseBody = 12
  BreakBuffer = 2
  Mitigation = 75
  AvgWindow = 4
  MaxBase = 2
  MaxZones = 2
  WarmUp = 0
  WindowBars = 5
  MaxBars = 7
  Rsis = {50, 75}
  Emas = {90, 110}
  Candles <- MCCandles
  Votes <- MCVotes
  Regimes <- MCRegimes
  Probabilities <- MCProbabilities
  Accounts <- MCAccounts
  Specs <- MCSpecs
INVARIANTS
    ZonesShareNoCandle
    
    StopBeyondZone
    SizeIsRight
PROPERTIES
    LifecycleForward
