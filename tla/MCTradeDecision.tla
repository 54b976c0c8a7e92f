--------------------------- MODULE MCTradeDecision --------------------------
EXTENDS TradeDecision

Candle(o, h, l, c) == [open |-> o, high |-> h, low |-> l, close |-> c]

\* Quiet ones at the bottom and at the top, an impulse up, and one that falls
\* from the top through the bottom.
MCCandles == {Candle(100, 103, 98, 101), Candle(127, 131, 125, 126),
              Candle(101, 136, 100, 135), Candle(126, 127, 80, 88)}

MCVotes == {<<>>, <<"up">>, <<"down", "down">>, <<"down", "up">>}
MCRegimes == {"S0_range", "S1_trend_up", "S2_trend_down", "S1"}
MCProbabilities == {<<>>, <<550, 450>>, <<600, 300>>, <<0, 0>>}

MCAccounts == {[balance |-> 10000, free |-> 10000], [balance |-> 10000, free |-> 800],
               [balance |-> 2500, free |-> 10000], [balance |-> 0, free |-> 0]}
MCSpecs == {[min |-> 1, max |-> 9, step |-> 1, stops |-> 8, margin |-> 60],
            [min |-> 3, max |-> 5, step |-> 2, stops |-> 0, margin |-> 100],
            [min |-> 2, max |-> 50, step |-> 2, stops |-> 20, margin |-> 75]}
=============================================================================
