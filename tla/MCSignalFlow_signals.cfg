SPECIFICATION FairSpec
CONSTANTS
  MinScoreHalves = 9
  MinPWin = 550
  AllowS0Fade = FALSE
  SlBuffer = 5
  RR1 = 2
  RR2 = 3
  Requests = {t1, t2}
  NoRequest = NoRequest
  Torn = Torn
  Timeframes = {"M5", "M15", "H1"}
  LTF = {"M5", "M15"}
  INFERENCE = {"M15", "H1"}
  Rows <- MCRows
  Labels = {"S1"}
  Outputs <- MCOutputs
  SeededRegime = "S1_trend_up"
  WorkerBatch = 2
  SignalBatch = 2
  Scenarios <- MCScenarios
  MaxFaults = 1
INVARIANTS
    SilentSignalsBounded
    EventFiresOnce
    ContextNotTorn
PROPERTIES
    EveryEventAcknowledged
    ModelsAreLoaded
    UnverifiedOnlyByRace
