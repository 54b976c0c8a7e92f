------------------------------ MODULE RiskGate ------------------------------
(***************************************************************************)
(* services/risk-service: the gate between signal.generated and            *)
(* order.request (consumer.py), with its registry of open positions in the *)
(* Redis hash risk:open_positions (exposure.py).                           *)
(*                                                                         *)
(* Every await of RiskConsumer._handle is a step: an instance reads the    *)
(* balance, reads the registry and checks the limits, reads the account    *)
(* and the symbol again and sizes the order, publishes the intent, and     *)
(* registers it last.  Between check and registration anything may happen. *)
(*                                                                         *)
(* Risk amounts are in per cent of the balance, which does not change; a   *)
(* sized order risks at most RiskPct of them (vix_core.risk clamps down).  *)
(***************************************************************************)
EXTENDS Naturals, Sequences, FiniteSets, FiniteSetsExt

CONSTANTS
    Instances,        \* risk-service consumers
    Signals,          \* signal ids, which are also the idempotency keys
    NoSignal,         \* an entry whose payload does not validate
    BatchSize,        \* count= of the XREADGROUP call
    MaxOpenTrades,    \* settings.max_open_positions
    MaxTotalRisk,     \* settings.max_total_risk_pct
    RiskPct,          \* settings.risk_pct_per_trade
    Amounts,          \* risk_amount of the orders that sizing may return
    Scenarios         \* bounds of a behaviour: entries ever added to
                      \* signal.generated, and malformed ones among them; crashed
                      \* instances and lost registrations; times the group is
                      \* recreated or rewound; and whether mt5:account_info
                      \* appears and disappears

ASSUME ConstantsAssumption ==
    /\ IsFiniteSet(Instances)
    /\ IsFiniteSet(Signals)
    /\ NoSignal \notin Signals
    /\ BatchSize \in Nat \ {0}
    /\ MaxOpenTrades \in Nat \ {0}
    /\ MaxTotalRisk \in Nat \ {0}
    /\ RiskPct \in Nat \ {0}
    /\ Amounts \subseteq 1 .. RiskPct
    /\ Scenarios \subseteq [entries : Nat, malformed : Nat, faults : Nat,
                       rewinds : Nat, expiry : BOOLEAN]

VARIABLES
    \* Redis
    stream,      \* signal.generated
    cursor,      \* the group's last-delivered-id
    account,     \* is mt5:account_info there?
    exposure,    \* risk:open_positions: risk amount of each key, 0 if absent
    intents,     \* keys ever published to order.request
    rejections,  \* signals published to signal.rejected
    open,        \* keys published and not released since
    \* the instances
    pc,          \* the await each instance is about to perform
    todo,        \* the rest of its batch, the entry being handled first
    hint,        \* was the balance known when the limits were checked?
    amount,      \* risk_amount of the decision
    \* what happened, and what may happen
    blind,       \* times the limits let a signal pass without a balance
    faults, rewinds,
    bounds       \* the scenario

redisVars    == <<stream, cursor, account, exposure>>
eventVars    == <<intents, rejections, open>>
decisionVars == <<hint, amount>>
envVars      == <<blind, faults, rewinds, bounds>>

vars == <<redisVars, eventVars, pc, todo, decisionVars, envVars>>

Entry == Signals \cup {NoSignal}

PC == {"poll", "hint", "preflight", "context", "approve", "register", "reject", "ack"}

TypeOK ==
    /\ stream \in Seq(Entry)
    /\ cursor \in 0 .. Len(stream)
    /\ account \in BOOLEAN
    /\ exposure \in [Signals -> 0 .. RiskPct]
    /\ intents \subseteq Signals
    /\ rejections \subseteq Signals
    /\ open \subseteq intents
    /\ pc \in [Instances -> PC]
    /\ todo \in [Instances -> Seq(Entry)]
    /\ hint \in [Instances -> BOOLEAN]
    /\ amount \in [Instances -> 0 .. RiskPct]
    /\ blind \in Nat
    /\ faults \in Nat
    /\ rewinds \in Nat
    /\ bounds \in Scenarios

Init ==
    /\ stream = <<>>
    /\ cursor = 0
    /\ bounds \in Scenarios
    /\ account \in (IF bounds.expiry THEN BOOLEAN ELSE {TRUE})
    /\ exposure = [s \in Signals |-> 0]
    /\ intents = {}
    /\ rejections = {}
    /\ open = {}
    /\ pc = [c \in Instances |-> "poll"]
    /\ todo = [c \in Instances |-> <<>>]
    /\ hint = [c \in Instances |-> FALSE]
    /\ amount = [c \in Instances |-> 0]
    /\ blind = 0
    /\ faults = 0
    /\ rewinds = 0

Goto(c, label) == pc' = [pc EXCEPT ![c] = label]
Signal(c)      == Head(todo[c])

-----------------------------------------------------------------------------
(* The exposure registry                                                    *)

Registered == {s \in Signals : exposure[s] > 0}
OpenCount  == Cardinality(Registered)
TotalRisk  == MapThenSumSet(LAMBDA s : exposure[s], Signals)

\* Mutant: the count is compared after the fact, "more than the maximum".
LimitsAllow_OffByOne(c) ==
    /\ OpenCount <= MaxOpenTrades
    /\ hint[c] => TotalRisk < MaxTotalRisk

\* Mutant: the summed risk is not checked.
LimitsAllow_CountOnly(c) == OpenCount < MaxOpenTrades

\* ExposureTracker.preflight; the balance of a missing account is infinite, so
\* that no total risk reaches the limit.
LimitsAllow(c) ==
    /\ OpenCount < MaxOpenTrades
    /\ hint[c] => TotalRisk < MaxTotalRisk

\* ExposureTracker.release, called by hand: nothing in the services calls it.
Release(k) ==
    /\ k \in open
    /\ exposure' = [exposure EXCEPT ![k] = 0]
    /\ open' = open \ {k}
    /\ UNCHANGED <<stream, cursor, account, intents, rejections, pc, todo,
                   decisionVars, envVars>>

-----------------------------------------------------------------------------
(* signal-service, and whoever writes mt5:account_info                      *)

Malformed == Cardinality({i \in 1 .. Len(stream) : stream[i] = NoSignal})
Unused    == {s \in Signals : \A i \in 1 .. Len(stream) : stream[i] # s}

\* A signal id is a fresh uuid4, and which one makes no difference; an entry may
\* also fail to validate.
Generate(e) ==
    /\ Len(stream) < bounds.entries
    /\ e = NoSignal => Malformed < bounds.malformed
    /\ e # NoSignal => e \in Unused /\ e = (CHOOSE s \in Unused : TRUE)
    /\ stream' = Append(stream, e)
    /\ UNCHANGED <<cursor, account, exposure, eventVars, pc, todo, decisionVars,
                   envVars>>

AccountChanges ==
    /\ bounds.expiry
    /\ account' = ~account
    /\ UNCHANGED <<stream, cursor, exposure, eventVars, pc, todo, decisionVars,
                   envVars>>

-----------------------------------------------------------------------------
(* RiskConsumer                                                             *)

\* Mutant: every instance reads the stream for itself, from where it was.
Drain_NoGroup(c) ==
    /\ pc[c] = "poll"
    /\ \E n \in 0 .. cursor :
         /\ n < Len(stream)
         /\ todo' = [todo EXCEPT ![c] = SubSeq(stream, n + 1, n + 1)]
         /\ cursor' = IF n = cursor THEN n + 1 ELSE cursor
    /\ Goto(c, "hint")
    /\ UNCHANGED <<stream, account, exposure, eventVars, decisionVars, envVars>>

Drain(c) ==
    /\ pc[c] = "poll"
    /\ cursor < Len(stream)
    /\ cursor' = IF cursor + BatchSize < Len(stream) THEN cursor + BatchSize
                                                     ELSE Len(stream)
    /\ todo' = [todo EXCEPT ![c] = SubSeq(stream, cursor + 1, cursor')]
    /\ Goto(c, "hint")
    /\ UNCHANGED <<stream, account, exposure, eventVars, decisionVars, envVars>>

DropMalformed(c) ==
    /\ pc[c] = "hint"
    /\ Signal(c) = NoSignal
    /\ Goto(c, "ack")
    /\ UNCHANGED <<redisVars, eventVars, todo, decisionVars, envVars>>

BalanceHint(c) ==
    /\ pc[c] = "hint"
    /\ Signal(c) # NoSignal
    /\ hint' = [hint EXCEPT ![c] = account]
    /\ Goto(c, "preflight")
    /\ UNCHANGED <<redisVars, eventVars, todo, amount, envVars>>

\* HGETALL and the two limits.
Preflight(c) ==
    /\ pc[c] = "preflight"
    /\ Goto(c, IF LimitsAllow(c) THEN "context" ELSE "reject")
    /\ blind' = IF LimitsAllow(c) /\ ~hint[c] THEN blind + 1 ELSE blind
    /\ UNCHANGED <<redisVars, eventVars, todo, decisionVars, faults, rewinds, bounds>>

\* The account is read a second time; without it, without a symbol spec, on a
\* stops violation or when sizing rejects, the signal is rejected.
SizeOrder(c) ==
    /\ pc[c] = "context"
    /\ \/ /\ account
          /\ \E risk \in Amounts : amount' = [amount EXCEPT ![c] = risk]
          /\ Goto(c, "approve")
       \/ /\ Goto(c, "reject")
          /\ UNCHANGED amount
    /\ UNCHANGED <<redisVars, eventVars, todo, hint, envVars>>

PublishIntent(c) ==
    /\ pc[c] = "approve"
    /\ intents' = intents \cup {Signal(c)}
    /\ open' = open \cup {Signal(c)}
    /\ Goto(c, "register")
    /\ UNCHANGED <<redisVars, rejections, todo, decisionVars, envVars>>

\* Mutant: the amounts of a signal handled twice are added up.
RegisterExposure_Adds(c) ==
    /\ pc[c] = "register"
    /\ exposure' = [exposure EXCEPT ![Signal(c)] = @ + amount[c]]
    /\ Goto(c, "ack")
    /\ UNCHANGED <<stream, cursor, account, eventVars, todo, decisionVars, envVars>>

\* HSET under the idempotency key: a second registration replaces the first.
RegisterExposure(c) ==
    /\ pc[c] = "register"
    /\ exposure' = [exposure EXCEPT ![Signal(c)] = amount[c]]
    /\ Goto(c, "ack")
    /\ UNCHANGED <<stream, cursor, account, eventVars, todo, decisionVars, envVars>>

\* Mutant: some rejections are only logged.
PublishRejection_Logged(c) ==
    /\ pc[c] = "reject"
    /\ rejections' = IF hint[c] THEN rejections \cup {Signal(c)} ELSE rejections
    /\ Goto(c, "ack")
    /\ UNCHANGED <<redisVars, intents, open, todo, decisionVars, envVars>>

PublishRejection(c) ==
    /\ pc[c] = "reject"
    /\ rejections' = rejections \cup {Signal(c)}
    /\ Goto(c, "ack")
    /\ UNCHANGED <<redisVars, intents, open, todo, decisionVars, envVars>>

ForgetDecision(c) ==
    /\ hint' = [hint EXCEPT ![c] = FALSE]
    /\ amount' = [amount EXCEPT ![c] = 0]

Ack(c) ==
    /\ pc[c] = "ack"
    /\ todo' = [todo EXCEPT ![c] = Tail(@)]
    /\ Goto(c, IF Len(todo[c]) > 1 THEN "hint" ELSE "poll")
    /\ ForgetDecision(c)
    /\ UNCHANGED <<redisVars, eventVars, envVars>>

-----------------------------------------------------------------------------
(* Faults                                                                   *)

\* A killed or failed consumer starts again; its batch is never read again.
Crash(c) ==
    /\ pc[c] # "poll"
    /\ faults < bounds.faults
    /\ faults' = faults + 1
    /\ todo' = [todo EXCEPT ![c] = <<>>]
    /\ Goto(c, "poll")
    /\ ForgetDecision(c)
    /\ UNCHANGED <<redisVars, eventVars, blind, rewinds, bounds>>

\* Redis restarts without the last second of its append-only file.
RegistrationLost(k) ==
    /\ k \in Registered
    /\ faults < bounds.faults
    /\ faults' = faults + 1
    /\ exposure' = [exposure EXCEPT ![k] = 0]
    /\ UNCHANGED <<stream, cursor, account, eventVars, pc, todo, decisionVars, blind,
                   rewinds, bounds>>

\* The group is gone and recreated with id="0", or its position is rewound.
GroupRewinds ==
    /\ rewinds < bounds.rewinds
    /\ rewinds' = rewinds + 1
    /\ \E n \in 0 .. cursor : cursor' = n
    /\ UNCHANGED <<stream, account, exposure, eventVars, pc, todo, decisionVars, blind,
                   faults, bounds>>

-----------------------------------------------------------------------------
Instance(c) ==
    \/ Drain(c) \/ DropMalformed(c) \/ BalanceHint(c) \/ Preflight(c) \/ SizeOrder(c)
    \/ PublishIntent(c) \/ RegisterExposure(c) \/ PublishRejection(c) \/ Ack(c)

Next ==
    \/ \E e \in Entry : Generate(e)
    \/ \E c \in Instances : Instance(c) \/ Crash(c)
    \/ \E k \in Signals : Release(k) \/ RegistrationLost(k)
    \/ AccountChanges
    \/ GroupRewinds

Spec == Init /\ [][Next]_vars

\* run_forever polls again after every batch, and its awaits return.
FairSpec == Spec /\ \A c \in Instances : WF_vars(Instance(c))

-----------------------------------------------------------------------------
(* Safety                                                                   *)

\* max_open_trades is checked long before the position is registered, so N
\* instances may exceed it, by N - 1 and by one more for every registration
\* lost in a crash; one instance that never crashes keeps it exactly.
OpenTradesBounded ==
    Cardinality(open) + 1 <= MaxOpenTrades + Cardinality(Instances) + faults

\* "max_open_trades - absolute count of open risk positions" (exposure.py).
OpenTradesLimited == Cardinality(open) <= MaxOpenTrades

\* max_total_risk_pct is checked before the new risk is added, and without a
\* balance it is not checked at all, although the account may be back by the time
\* the order is sized: the registered total may pass the limit by less than one
\* trade's risk per instance, and by one trade's risk for every check that was
\* blind, also when a redelivered signal is sized and registered again.
TotalRiskBounded ==
    TotalRisk < MaxTotalRisk + RiskPct * (Cardinality(Instances) + blind)

\* Every registered exposure belongs to an intent that was published: the
\* gate never holds back capacity for an order execution will not see.
ExposureHasIntent == Registered \subseteq intents

\* An approved signal that is handled again finds the limits reached by itself
\* and would also be rejected: unless the group is rewound, none is handled again.
OneAnswer == rewinds = 0 => intents \cap rejections = {}

-----------------------------------------------------------------------------
(* The inductive invariant behind OpenTradesBounded                         *)

\* Instances that passed the limits and are not registered yet: each of them
\* may still add a position.
Passed == {c \in Instances : pc[c] \in {"context", "approve", "register"}}

\* Intents that left and are about to be registered.
Registering == {c \in Instances : pc[c] = "register"}
InFlight    == {Signal(c) : c \in Registering}

\* Open positions nobody will register any more.
Unregistered == open \ (Registered \cup InFlight)

BatchInv ==
    \A c \in Instances :
      /\ pc[c] # "poll" => Len(todo[c]) > 0
      /\ pc[c] \notin {"poll", "hint", "ack"} => Signal(c) \in Signals
      /\ pc[c] \in {"approve", "register"} => amount[c] > 0

CapacityInv ==
    Cardinality(Registered) + Cardinality(Passed) < MaxOpenTrades + Cardinality(Instances)

LostInv == Cardinality(Unregistered) <= faults

IntentInv ==
    /\ ExposureHasIntent
    /\ \A c \in Instances : pc[c] = "register" => Signal(c) \in intents

IInv ==
    /\ TypeOK
    /\ BatchInv
    /\ CapacityInv
    /\ LostInv
    /\ IntentInv
    /\ faults <= bounds.faults

-----------------------------------------------------------------------------
(* Liveness                                                                 *)

\* Every generated signal becomes an intent or a published rejection, unless
\* something fails: again and again the gate has answered all there is, and an
\* answer is not taken back.
EverySignalAnswered ==
    []<>(\/ faults > 0
         \/ {s \in Signals : \E i \in 1 .. Len(stream) : stream[i] = s}
              \subseteq intents \cup rejections)
=============================================================================
