----------------------------- MODULE LotSizing ------------------------------
(***************************************************************************)
(* vix_core.risk, the position sizing behind risk-service's sizing.py.     *)
(*                                                                         *)
(* Volumes are in hundredths of a lot and money is in cents: a volume v    *)
(* loses v * distance * TickValue cents when the stop is hit, and needs    *)
(* v * spec.margin cents of margin.  A spec is [min, max, step, stops,     *)
(* margin], an account [balance, free].                                    *)
(***************************************************************************)
EXTENDS Integers, FiniteSets, FiniteSetsExt

CONSTANTS
    RiskPerMille,   \* risk_pct_per_trade, in per mille of the balance
    TickValue,      \* money lost per price unit and volume unit
    MarginUsage     \* margin_usage_cap, in per cent of the free margin

ASSUME SizingAssumption ==
    /\ {RiskPerMille, MarginUsage} \subseteq Nat
    /\ TickValue \in Nat \ {0}

Distance(a, b)     == IF a < b THEN b - a ELSE a - b
RiskAmount(account) == (account.balance * RiskPerMille) \div 1000
MarginBudget(account) == (account.free * MarginUsage) \div 100
LossPerUnit(signal) == Distance(signal.entry, signal.sl) * TickValue

\* _floor_to_step
FloorToStep(volume, step) == (volume \div step) * step

\* validate_stop_distances
StopsViolated(signal, spec) ==
    \/ Distance(signal.entry, signal.sl) < spec.stops
    \/ Distance(signal.entry, signal.tp1) < spec.stops

InvalidInput(signal, account) ==
    \/ account.balance <= 0 \/ RiskPerMille = 0
    \/ signal.entry <= 0 \/ signal.sl <= 0

\* The risk amount buys this volume, rounded down to the step.
WithinRisk(signal, account, spec) ==
    FloorToStep(RiskAmount(account) \div LossPerUnit(signal), spec.step)

\* ... and cut to the maximal volume.
RiskSized(signal, account, spec) ==
    Min({WithinRisk(signal, account, spec), spec.max})

\* The volumes the margin loop goes through: the sized one and, from the next
\* step below it, every multiple of the step.
LoopVolumes(volume, step) == {volume, 0} \cup {v \in 0 .. volume - step : v % step = 0}

\* Where the loop ends: the margin suffices, or the minimum is reached.
MarginSized(volume, account, spec) ==
    Max({v \in LoopVolumes(volume, spec.step) :
           v * spec.margin <= MarginBudget(account) \/ v <= spec.min})

Reject(reason) == [status |-> reason, lots |-> 0]

\* Mutant: a volume below the minimum is clamped up to it.
ComputeLots_ClampsUp(signal, account, spec) ==
    LET volume == Max({RiskSized(signal, account, spec), spec.min})
        final  == MarginSized(volume, account, spec)
    IN IF InvalidInput(signal, account) THEN Reject("invalid_input")
       ELSE IF StopsViolated(signal, spec) THEN Reject("stops_level")
       ELSE IF LossPerUnit(signal) = 0 THEN Reject("invalid_input")
       ELSE IF final * spec.margin > MarginBudget(account) THEN Reject("margin")
       ELSE IF final < spec.min THEN Reject("risk_too_small")
       ELSE [status |-> "ok", lots |-> final]

\* compute_lots: clamps down, never up.
ComputeLots(signal, account, spec) ==
    LET volume == RiskSized(signal, account, spec)
        final  == MarginSized(volume, account, spec)
    IN IF InvalidInput(signal, account) THEN Reject("invalid_input")
       ELSE IF StopsViolated(signal, spec) THEN Reject("stops_level")
       ELSE IF LossPerUnit(signal) = 0 THEN Reject("invalid_input")
       ELSE IF volume < spec.min THEN Reject("risk_too_small")
       ELSE IF final * spec.margin > MarginBudget(account) THEN Reject("margin")
       ELSE IF final < spec.min THEN Reject("risk_too_small")
       ELSE [status |-> IF WithinRisk(signal, account, spec) > spec.max
                        THEN "capped_by_volume_max" ELSE "ok",
             lots   |-> final]
=============================================================================
