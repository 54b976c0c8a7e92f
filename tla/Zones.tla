------------------------------- MODULE Zones --------------------------------
(***************************************************************************)
(* Supply and demand zones (vix_core.zones): their detection in a window   *)
(* of candles, and their lifecycle under later candles.                    *)
(*                                                                         *)
(* A candle is [open, high, low, close], a window is a sequence of them,   *)
(* prices are integers.  The ATR is a constant.  Windows are numbered from *)
(* 1, where the code counts from 0.                                        *)
(***************************************************************************)
EXTENDS Integers, Sequences, FiniteSets, SequencesExt, FiniteSetsExt

CONSTANTS
    Atr,            \* ATR of the window
    ImpulseBody,    \* impulse_body_atr_mult * ATR
    BreakBuffer,    \* break_buffer_atr * ATR
    Mitigation,     \* mitigation_level, in per cent of the zone's height
    AvgWindow,      \* candles in the moving average of the bodies; even
    MaxBase,        \* max_base_candles
    MaxZones,       \* max_zones
    WarmUp          \* atr_period: no impulse is looked for before

ASSUME ZonesAssumption ==
    /\ {Atr, ImpulseBody, BreakBuffer, Mitigation, MaxBase, MaxZones, WarmUp} \subseteq Nat
    /\ AvgWindow \in {2 * n : n \in 1 .. 10}

Body(candle) == Max({candle.open, candle.close}) - Min({candle.open, candle.close})

-----------------------------------------------------------------------------
(* Detection                                                                *)

\* np.convolve(..., mode="same"): the mean is centred, so that the bodies of
\* later candles count; outside of the window they are zero.
BodySum(bars, i) ==
    FoldSeq(LAMBDA candle, sum : Body(candle) + sum, 0,
            SubSeq(bars, Max({1, i - AvgWindow \div 2}),
                         Min({Len(bars), i + AvgWindow \div 2 - 1})))

Impulse(bars, i) ==
    /\ Body(bars[i]) > ImpulseBody
    /\ 2 * AvgWindow * Body(bars[i]) > 3 * BodySum(bars, i)

Quiet(bars, i) == AvgWindow * Body(bars[i]) <= BodySum(bars, i)

\* Mutant: the base is a fixed number of candles, whatever their bodies.
BaseLength_Fixed(bars, i) == Min({MaxBase, i - 1})

\* Quiet candles right before candle i, up to MaxBase.
BaseLength(bars, i) ==
    Max({k \in 0 .. Min({MaxBase, i - 1}) : \A j \in i - k .. i - 1 : Quiet(bars, j)})

\* From the base to the impulse candle, which is inside.
NewZone(bars, i) ==
    LET range == (i - BaseLength(bars, i)) .. i
    IN [kind   |-> IF bars[i].close < bars[i].open THEN "supply" ELSE "demand",
        top    |-> Max({bars[j].high : j \in range}),
        bottom |-> Min({bars[j].low : j \in range}),
        origin |-> i, score |-> BaseLength(bars, i), state |-> "fresh", touches |-> 0]

\* build_zones: after an impulse the scan goes on behind as many candles as the
\* base had; the last candle is never an origin; the last MaxZones are kept.
BuildZones(bars) ==
    LET n    == Len(bars)
        from[i \in 1 .. n + MaxBase + 1] ==
            IF i >= n THEN <<>>
            ELSE IF ~Impulse(bars, i) THEN from[i + 1]
            ELSE (IF BaseLength(bars, i) > 0 THEN <<NewZone(bars, i)>> ELSE <<>>)
                 \o from[i + BaseLength(bars, i) + 1]
        found == from[WarmUp + 2]
    IN IF n < WarmUp + 5 THEN <<>>
       ELSE SubSeq(found, Max({1, Len(found) - MaxZones + 1}), Len(found))

-----------------------------------------------------------------------------
(* Lifecycle                                                                *)

Touches(zone, candle) == candle.high >= zone.bottom /\ candle.low <= zone.top

Height(zone)        == zone.top - zone.bottom
Clamped(zone, price) == Min({Max({price, zone.bottom}), zone.top})

\* Demand is entered from above, supply from below.
Depth(zone, candle) ==
    IF zone.kind = "demand" THEN zone.top - Clamped(zone, candle.close)
                            ELSE Clamped(zone, candle.close) - zone.bottom

Breaks(zone, candle) ==
    IF zone.kind = "demand" THEN candle.close < zone.bottom - BreakBuffer
                            ELSE candle.close > zone.top + BreakBuffer

Mitigates(zone, candle) ==
    Height(zone) > 0 /\ 100 * Depth(zone, candle) >= Mitigation * Height(zone)

\* Mutant: a touch makes any zone a tested one.
TouchedState_Any(zone, candle) ==
    IF Mitigates(zone, candle) THEN "mitigated" ELSE "tested"

TouchedState(zone, candle) ==
    IF Mitigates(zone, candle) THEN "mitigated"
    ELSE IF zone.state = "fresh" THEN "tested" ELSE zone.state

\* ZoneEngine.update
Advance(zone, candle) ==
    IF zone.state = "broken" THEN zone
    ELSE IF Breaks(zone, candle) THEN [zone EXCEPT !.state = "broken"]
    ELSE IF Touches(zone, candle) THEN [zone EXCEPT !.touches = @ + 1,
                                        !.state = TouchedState(zone, candle)]
    ELSE zone

\* update_all keeps the broken ones in its list.
AdvanceAll(zones, candle) == [i \in DOMAIN zones |-> Advance(zones[i], candle)]
=============================================================================
