---------------------------- MODULE SignalEngine ----------------------------
(***************************************************************************)
(* The pure part of signal-service: SignalEngine.evaluate (engine.py) and  *)
(* the confluence score it is gated by (vix_core.scoring).                 *)
(*                                                                         *)
(* Prices are integers in tenths of a point, probabilities are in per      *)
(* mille, the minimal score 4.5 is 9 halves.  A zone is                    *)
(* [kind, top, bottom, state], a feature row (LtfSnapshot)                 *)
(* [close, atr, rsi, ema50, zones] with its zones in the order of the row. *)
(***************************************************************************)
EXTENDS Integers, Sequences, FiniteSets, SequencesExt, FiniteSetsExt

CONSTANTS
    MinScoreHalves, \* confluence_min, in halves
    MinPWin,        \* min_p_win, in per mille
    AllowS0Fade,    \* allow_s0_fade
    SlBuffer,       \* sl_atr_buffer, in tenths of the ATR
    RR1, RR2        \* tp_rr_1, tp_rr_2

ASSUME EngineAssumption ==
    /\ {MinScoreHalves, MinPWin, SlBuffer, RR1, RR2} \subseteq Nat
    /\ AllowS0Fade \in BOOLEAN

RegimeState == {"S0_range", "S1_trend_up", "S2_trend_down"}
Direction   == {"BUY", "SELL"}
Trend       == {"up", "down", "flat"}
NoPWin      == -1
NoTouch     == "none"

-----------------------------------------------------------------------------
(* Context                                                                  *)

HtfTrendFromEmas(ema50, ema200) ==
    IF ema50 > ema200 THEN "up" ELSE IF ema50 < ema200 THEN "down" ELSE "flat"

\* fetch_htf_trend: one vote for each higher timeframe that has a row.
VotedTrend(votes) ==
    IF votes = <<>> THEN "flat"
    ELSE IF "up" \in Range(votes) /\ "down" \notin Range(votes) THEN "up"
    ELSE IF "down" \in Range(votes) /\ "up" \notin Range(votes) THEN "down"
    ELSE Head(votes)

\* _market_context: the share of P(up), whatever the direction will be.
PWin(pUp, pDown) == IF pUp + pDown = 0 THEN 0 ELSE (1000 * pUp) \div (pUp + pDown)

\* _resolve_regime
ResolveRegime(raw) == IF raw \in RegimeState THEN raw ELSE "unknown"

-----------------------------------------------------------------------------
(* The zone under the price                                                 *)

Holds(zone, price) == zone.bottom <= price /\ price <= zone.top

Active(zone) == zone.state \notin {"broken", "mitigated"}

\* _zone_touch: the first active zone of the row that contains the close.
Touched(ltf) ==
    LET hits == {i \in DOMAIN ltf.zones :
                   Active(ltf.zones[i]) /\ Holds(ltf.zones[i], ltf.close)}
    IN IF hits = {} THEN NoTouch ELSE ltf.zones[Min(hits)].kind

DirectionOf(kind) == IF kind = "demand" THEN "BUY" ELSE "SELL"

\* Mutant: the edges of the two kinds are swapped.
ZoneEdge_Swapped(kind, ltf) ==
    LET hits == {i \in DOMAIN ltf.zones :
                   ltf.zones[i].kind = kind /\ Holds(ltf.zones[i], ltf.close)}
        zone == ltf.zones[Min(hits)]
    IN IF hits = {} THEN ltf.close
       ELSE IF kind = "demand" THEN zone.top ELSE zone.bottom

\* _zone_edge: the first zone of the kind, in whatever state it is.
ZoneEdge(kind, ltf) ==
    LET hits == {i \in DOMAIN ltf.zones :
                   ltf.zones[i].kind = kind /\ Holds(ltf.zones[i], ltf.close)}
        zone == ltf.zones[Min(hits)]
    IN IF hits = {} THEN ltf.close
       ELSE IF kind = "demand" THEN zone.bottom ELSE zone.top

-----------------------------------------------------------------------------
(* Confluence                                                               *)

BBMA(ltf) == \/ ltf.close >= ltf.ema50 /\ ltf.rsi < 70
             \/ ltf.close <= ltf.ema50 /\ ltf.rsi > 30

Aligned(direction, trend) ==
    (direction = "BUY" /\ trend = "up") \/ (direction = "SELL" /\ trend = "down")

Fading(regime) == AllowS0Fade /\ regime = "S0_range"

RegimeOk(direction, regime) ==
    \/ direction = "BUY" /\ regime = "S1_trend_up"
    \/ direction = "SELL" /\ regime = "S2_trend_down"
    \/ Fading(regime)

MetaOk(pWin) == pWin # NoPWin /\ pWin > MinPWin

Weight(weight, ok) == IF ok THEN weight ELSE 0

\* What the scorer is given; the divergence detector does not exist yet, so that
\* its weight is never earned.
Inputs(ltf, market) ==
    [direction  |-> DirectionOf(Touched(ltf)), kind |-> Touched(ltf),
     trend      |-> market.trend, regime |-> ResolveRegime(market.regime),
     bbma       |-> BBMA(ltf), divergence |-> FALSE, pWin |-> market.pWin]

ZoneMatches(in) == in.kind # NoTouch /\ DirectionOf(in.kind) = in.direction

\* ConfluenceScorer.evaluate: six components, of which three are hard gates.
Score(in) ==
    Weight(2, ZoneMatches(in))
    + Weight(1, Aligned(in.direction, in.trend) \/ Fading(in.regime))
    + Weight(1, in.bbma) + Weight(1, in.divergence)
    + Weight(1, RegimeOk(in.direction, in.regime)) + Weight(1, MetaOk(in.pWin))

Passed(in) ==
    /\ ZoneMatches(in) /\ RegimeOk(in.direction, in.regime) /\ MetaOk(in.pWin)
    /\ 2 * Score(in) >= MinScoreHalves

-----------------------------------------------------------------------------
(* SignalEngine.evaluate                                                    *)

\* Mutant: without fading, the trend is not asked for.
Blocked_NoTrend(ltf, market) ==
    \/ Touched(ltf) = NoTouch
    \/ market.regime \notin RegimeState
    \/ market.regime = "S0_range" /\ ~AllowS0Fade

\* The rejections that come before the score.
Blocked(ltf, market) ==
    \/ Touched(ltf) = NoTouch
    \/ ResolveRegime(market.regime) = "unknown"
    \/ market.regime = "S0_range" /\ ~AllowS0Fade
    \/ ~Aligned(DirectionOf(Touched(ltf)), market.trend) /\ ~AllowS0Fade

Fires(ltf, market) == ~Blocked(ltf, market) /\ Passed(Inputs(ltf, market))

Larger(a, b)  == IF a > b THEN a ELSE b
Smaller(a, b) == IF a < b THEN a ELSE b

\* Beyond the edge by the buffer, and a tenth of the ATR away from the entry.
StopOf(kind, ltf) ==
    LET edge   == ZoneEdge(kind, ltf)
        buffer == (SlBuffer * ltf.atr) \div 10
        least  == ltf.atr \div 10
    IN IF kind = "demand" THEN Smaller(edge - buffer, ltf.close - least)
                          ELSE Larger(edge + buffer, ltf.close + least)

\* _build_signal: entry + R * risk, risk being negative for a SELL.
TargetOf(kind, ltf, rr) == ltf.close + rr * (ltf.close - StopOf(kind, ltf))

BuildSignal(ltf) ==
    LET kind == Touched(ltf)
    IN [direction |-> DirectionOf(kind), entry |-> ltf.close, sl |-> StopOf(kind, ltf),
        tp1 |-> TargetOf(kind, ltf, RR1), tp2 |-> TargetOf(kind, ltf, RR2)]
=============================================================================
