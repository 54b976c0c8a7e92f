--------------------------- MODULE TradeDecision ----------------------------
(***************************************************************************)
(* The arithmetic of a trade, from closed bars to a volume: the window of  *)
(* bars and its zones (vix_core.zones, as compute.py uses it), the signal  *)
(* (engine.py, vix_core.scoring) and its size (vix_core.risk, sizing.py).  *)
(* Nothing is concurrent here: MarketData, SignalFlow and RiskGate say     *)
(* when the steps happen, this module says what they compute.              *)
(***************************************************************************)
EXTENDS SignalEngine, LotSizing, Zones

CONSTANTS
    Candles,        \* the candles that may close
    WindowBars,     \* bars fetched for one feature row
    Rsis, Emas,     \* values of the indicators rsi and ema50
    Votes,          \* what the higher timeframes may vote
    Regimes,        \* contents of regime:current
    Probabilities,  \* <<p_up, p_down>> of meta_label:current, or <<>> if absent
    Accounts,       \* contents of mt5:account_info
    Specs,          \* contents of mt5:symbol:<symbol>
    MaxBars         \* bound: bars that close

ASSUME DecisionAssumption ==
    /\ Candles \subseteq [open : Int, high : Int, low : Int, close : Int]
    /\ WindowBars \in Nat \ {0}
    /\ Accounts \subseteq [balance : Int, free : Int]
    /\ Specs \subseteq [min : Nat, max : Nat, step : Nat \ {0}, stops : Nat, margin : Nat]
    /\ MaxBars \in Nat

VARIABLES
    closed,   \* number of bars that have closed
    bars,     \* the latest WindowBars closed bars
    zones,    \* ZoneEngine.zones, of an engine that is kept from bar to bar
    basis,    \* the row and the context of the decision
    signal,   \* the proposed signal
    size      \* its volume, with the account and the spec it was sized for

vars == <<closed, bars, zones, basis, signal, size>>

None == <<>>

Init ==
    /\ closed = 0 /\ bars = <<>> /\ zones = <<>>
    /\ basis = None /\ signal = None /\ size = None

Forget == basis' = None /\ signal' = None /\ size' = None

\* A bar closes: the window moves on, and the engine's zones are advanced.
BarCloses(candle) ==
    /\ closed < MaxBars
    /\ closed' = closed + 1
    /\ LET all == Append(bars, candle)
       IN bars' = SubSeq(all, Max({1, Len(all) - WindowBars + 1}), Len(all))
    /\ zones' = AdvanceAll(zones, candle)
    /\ Forget

\* build_zones replaces the engine's list.
Rebuild ==
    /\ Len(bars) = WindowBars
    /\ zones' = BuildZones(bars)
    /\ Forget
    /\ UNCHANGED <<closed, bars>>

\* snapshot_from_bars: zones that are not broken, of an engine of its own.
RowZones ==
    LET built == BuildZones(bars)
        kept[i \in 0 .. Len(built)] ==
            IF i = 0 THEN <<>>
            ELSE IF built[i].state = "broken" THEN kept[i - 1]
            ELSE Append(kept[i - 1], built[i])
    IN kept[Len(built)]

Snapshot(rowZones, rsi, ema) ==
    [close |-> bars[Len(bars)].close, atr |-> Atr, rsi |-> rsi, ema50 |-> ema,
     zones |-> rowZones]

\* _market_context
Context(votes, regime, p) ==
    [trend |-> VotedTrend(votes), regime |-> regime,
     pWin  |-> IF p = <<>> THEN NoPWin ELSE PWin(p[1], p[2])]

Evaluate(ltf, market) ==
    /\ Fires(ltf, market)
    /\ basis' = [ltf |-> ltf, market |-> market]
    /\ signal' = BuildSignal(ltf)
    /\ size' = None
    /\ UNCHANGED <<closed, bars, zones>>

SizePosition(account, spec) ==
    /\ signal # None /\ size = None
    /\ size' = [account |-> account, spec |-> spec,
                result  |-> ComputeLots(signal, account, spec)]
    /\ UNCHANGED <<closed, bars, zones, basis, signal>>

\* Bound: a decision is taken for the first full window, which is any window, and
\* the kept list, which it does not depend on, is left alone.
Next ==
    \/ \E c \in Candles : BarCloses(c)
    \/ Rebuild
    \/ /\ closed = WindowBars /\ zones = <<>> /\ signal = None
       /\ LET rowZones == RowZones
          IN \E rsi \in Rsis, ema \in Emas, v \in Votes, r \in Regimes,
                p \in Probabilities :
               Evaluate(Snapshot(rowZones, rsi, ema), Context(v, r, p))
    \/ \E a \in Accounts, s \in Specs : SizePosition(a, s)

Spec == Init /\ [][Next]_vars

-----------------------------------------------------------------------------
Rank(state) == CHOOSE n \in 1 .. 4 :
                  state = <<"fresh", "tested", "mitigated", "broken">>[n]

\* A candle belongs to one zone at most: what one impulse left is not counted
\* again for the next, although the scan skips candles behind an impulse.
ZonesShareNoCandle ==
    LET built == BuildZones(bars)
        Span(z) == z.origin - z.score .. z.origin
    IN \A i, j \in DOMAIN built : i # j => Span(built[i]) \cap Span(built[j]) = {}

\* The lifecycle has one direction (zones.py:8-14): until the zones are built
\* anew, a mitigated zone is never just tested again, a broken one is final, and
\* only a zone that price has not come back to is fresh.
LifecycleForward ==
    [][closed' # closed => \A i \in DOMAIN zones :
         /\ Rank(zones'[i].state) >= Rank(zones[i].state)
         /\ zones[i].state = "broken" => zones'[i] = zones[i]
         /\ zones'[i].state = "fresh" => zones'[i].touches = 0]_vars

\* The four hard gates of engine.py:9-17, against the row and the context that were
\* read: no score makes up for a missing one.  Two promises are not among them,
\* for nothing in the code keeps them: that BBMA and divergence both confirm
\* (scoring.py:11), and that the probability is that of winning, which for a SELL
\* it is not: pWin is the share of P(up) for both directions.
HardGatesPassed ==
    signal # None =>
      LET ltf    == basis.ltf
          market == basis.market
          buy    == signal.direction = "BUY"
      IN /\ \E i \in DOMAIN ltf.zones :
              /\ ltf.zones[i].kind = (IF buy THEN "demand" ELSE "supply")
              /\ ltf.zones[i].bottom <= ltf.close /\ ltf.close <= ltf.zones[i].top
         /\ \/ market.trend = (IF buy THEN "up" ELSE "down")
               /\ market.regime = (IF buy THEN "S1_trend_up" ELSE "S2_trend_down")
            \/ AllowS0Fade /\ market.regime \in
                 {"S0_range", IF buy THEN "S1_trend_up" ELSE "S2_trend_down"}
         /\ market.pWin > MinPWin

\* A stop is beyond the zone that was touched, and at least a tenth of the ATR
\* away; the targets are on the other side, the second behind the first.  The
\* rows of production hold fresh zones only; with a mitigated one in front of
\* the touched one, _zone_edge would take the wrong edge.
StopBeyondZone ==
    signal # None =>
      LET ltf  == basis.ltf
          zone == ltf.zones[Min({i \in DOMAIN ltf.zones :
                     ltf.zones[i].bottom <= ltf.close /\ ltf.close <= ltf.zones[i].top})]
      IN IF signal.direction = "BUY"
         THEN /\ signal.sl < zone.bottom /\ 10 * (signal.entry - signal.sl) >= Atr
              /\ signal.entry < signal.tp1 /\ signal.tp1 < signal.tp2
         ELSE /\ signal.sl > zone.top /\ 10 * (signal.sl - signal.entry) >= Atr
              /\ signal.entry > signal.tp1 /\ signal.tp1 > signal.tp2

Fits(volume, a, s) ==
    /\ volume * LossPerUnit(signal) <= RiskAmount(a)
    /\ volume * s.margin <= MarginBudget(a)
    /\ s.min <= volume /\ volume <= s.max

\* "Clamp down, never up": a sized volume loses no more than the risk amount at
\* the stop, is covered by the margin and is one the broker takes.
SizeWithinLimits ==
    size # None /\ size.result.lots > 0 =>
      /\ Fits(size.result.lots, size.account, size.spec)
      /\ Distance(signal.entry, signal.tp1) >= size.spec.stops
      /\ Distance(signal.entry, signal.sl) >= size.spec.stops

\* ... and it is the largest multiple of the step that does: a signal is turned
\* down only when there is none.  Where the volume was cut to a volume_max that is
\* no multiple of the step, the margin loop skips the multiple next to it.
LargestSize ==
    /\ size # None /\ size.result.status \notin {"invalid_input", "stops_level"}
    /\ RiskSized(signal, size.account, size.spec) % size.spec.step = 0
    =>
      \A v \in size.result.lots + 1 .. size.spec.max :
        v % size.spec.step = 0 => ~Fits(v, size.account, size.spec)

\* Both: no position is larger than the limits allow, and none is smaller.
SizeIsRight == SizeWithinLimits /\ LargestSize
=============================================================================
