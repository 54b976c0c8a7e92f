---------------------------- MODULE MCSignalFlow ----------------------------
EXTENDS SignalFlow

Zone(state) == [kind |-> "demand", top |-> 105, bottom |-> 95, state |-> state]
Row(zones)  == [close |-> 100, atr |-> 10, rsi |-> 50, ema50 |-> 90, zones |-> zones]

MCRows    == {Row(<<Zone("fresh")>>)}
MCOutputs == {<<600, 300>>}

\* Events with the models of an earlier training, or trainings without events; M15
\* is for both services, M5 and H1 are for one each;
\* INGEST_TIMEFRAMES has none of htf_timeframes, so that the trend is flat.
MCScenarios ==
    {[events |-> 2, timeframes |-> {"M15"}, trainings |-> {}, trained |-> TRUE,
      loaded |-> TRUE, votes |-> <<"up">>],
     [events |-> 1, timeframes |-> {"M5", "H1"}, trainings |-> {}, trained |-> TRUE,
      loaded |-> FALSE, votes |-> <<>>],
     [events |-> 0, timeframes |-> {}, trainings |-> Requests, trained |-> FALSE,
      loaded |-> FALSE, votes |-> <<>>]}
=============================================================================
