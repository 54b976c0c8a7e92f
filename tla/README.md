# TLA+ development of vix_75_platform

This directory holds a TLA+ model of the platform's trading core, the TLC
configurations that check it, and proofs that the TLA+ proof system checks for
every value of the constants.  Paths below are relative to the repository root.

## 1. The system

Nine FastAPI services exchange Redis streams and share one TimescaleDB:

```
data-service --ohlcv.update--> feature-service --feature.computed--> ml-service
                                                        |            (caches regime:current,
                                                        v             meta_label:current)
                                                 signal-service
                                                        | signal.generated
                                                        v
                                                  risk-service --signal.rejected--> notify-service
                                                        | order.request                  ^
                                                        v                                |
                                               execution-service --order.filled/rejected/closed
                                                        |
                                                  MetaTrader 5
```

`api-gateway` authenticates, rate-limits and proxies HTTP; `visualization-service`
draws charts from the database; `packages/vix_core` holds the pure algorithms
(indicators, swings, zones, scoring, lot sizing), settings and schemas.

Every consumer uses a Redis consumer group, reads with `XREADGROUP ... ">"` only, and
acknowledges after handling.  No service ever claims or rereads pending entries.  The
database connections are in autocommit mode, so a handler is a sequence of separately
visible writes.

### Inventory

| component | state | operations | hard parts | what makes it correct |
|---|---|---|---|---|
| execution-service consumer | stream position, pending list, `result:order:*`, `trades` row, audit rows, local order | drain, dedupe in Redis, claim in Postgres, execute, set_status, publish, cache, audit, ack | several workers, redelivery, crash between awaits, threads that outlive their task | one execution and one announced outcome per key; ledger agrees with broker; every order settles |
| MT5 executor | attempts | order_send with retries, dry run, close_position | lost replies, part fills, classification | at most MAX_ATTEMPTS sends |
| reconciliation sweep | positions snapshot, local rows, ghosts | compare, look up history, close row, publish | stale snapshots, failing terminal, racing manual close | closes exactly what was closed |
| risk-service gate | registry `risk:open_positions`, account snapshot | preflight, size, publish, register | check long before registration, crashes in between, two reads of one key | limits hold, every signal is answered |
| `vix_core.risk` | none | compute_lots, stop validation | rounding at steps and limits | never more risk than configured |
| signal-service | stream position, caches read | evaluate, insert, publish | latest row read instead of the event's row, stale caches | one signal per closed bar and rule |
| `vix_core.scoring` | none | evaluate | rules in the doc against the code | the documented gates |
| feature-service | pending entries, delivery counts | compute, upsert, dead-letter | redelivery nobody performs, failing dead-letter | each bar processed or dead-lettered |
| data-service | last seen bar, stream | cycle, filter, upsert, publish, backfill | last-seen mark before a failing write | no closed bar lost |
| ml-service, `vix_core.artifacts` | model files, caches, train lock | train, save, verify, load, predict | file read twice, two caches written in two steps | verified models only, consistent caches |
| notify-service | stream positions, audit rows | record, send alert | one task for five streams | each event recorded |
| api-gateway | window counters | admit, reject, proxy | concurrent requests at the window's edge | the limit per window |
| `vix_core.zones`, `swings` | zone status | build, update | lifecycle across bars | a mitigated zone stays so |
| visualization-service, indicators, infrastructure, scripts, MQ5 overlay | none of their own | | | |

## 2. Modules

| module | what it is |
|---|---|
| `OrderExecution` | the workers of execution-service, step by step (core) |
| `OrderLedger` | the abstract promise about one idempotency key |
| `OrderExecutionProofs` | its inductive invariant, safety theorems and refinement |
| `Reconciliation`, `ReconciliationProofs` | fills, broker closes, the sweep and the manual close on one row |
| `RiskGate`, `RiskGateProofs` | the instances of risk-service and the exposure registry |
| `MarketData`, `MarketDataProofs` | data-service, backfills, scripts and feature-service around the tables `ohlcv` and `features` |
| `ModelStore` | the model files: training jobs that write them, the worker that loads them |
| `SignalEngine` | `SignalEngine.evaluate` and the confluence score, as operators |
| `SignalFlow`, `SignalFlowProofs` | the inference worker and signal-service around the two caches; extends `ModelStore` and `SignalEngine` |
| `Zones` | detection and lifecycle of supply and demand zones, as operators |
| `LotSizing` | `compute_lots`, as operators |
| `TradeDecision`, `TradeDecisionProofs` | bars, zones, signal and volume in one sequential machine; extends `Zones`, `SignalEngine`, `LotSizing` |
| `Notify`, `NotifyProofs` | notify-service on its five streams |
| `Gateway`, `GatewayProofs` | the rate limiter and the proxy |
| `MC*` | TLC instances: symmetry and the values a `.cfg` cannot write |

The composition follows the shared state: the modules that share a table, a file or a
cache are one specification (`MarketData`: two services, two scripts; `SignalFlow`: two
services and the model files), those that share a stream only meet at it, and what one
appends there is an environment action of the next.

### OrderExecution

One worker is one consumer name in the group "execution-service": the service's
container, or the one-shot runner `consumer_once.py`, which attaches to the same group
with settings of its own (hence `DryRunners`, a set of workers, and not one flag).
`pc[c]` names the next `await` of `drain`/`_handle`/`_ack`:

| step | code (`services/execution-service/app`) |
|---|---|
| `Start`, `RecreateGroup` | `_ensure_group` in `run_forever`, and after NOGROUP |
| `Drain` | `XREADGROUP ">"`, batch of `BatchSize` |
| `DropMalformed`, `SuppressCached`, `MissCache` | `_parse_order` and the Redis fast path |
| `InsertPending`, `SuppressClaimed` | `INSERT ... ON CONFLICT DO NOTHING` |
| `OrderSend`, `DryRunFill` | one pass of the attempts loop of `MT5Executor.execute`, in its thread |
| `SetStatus`, `Publish`, `CacheResult`, `Audit`, `Ack` | the rest of `_handle`, one write each |
| `Crash` | a killed process, or an exception in `_handle`/`_ack`, which nothing catches |
| `DeliveryLost` | the reply of XREADGROUP is lost: `drain` logs, polls on |
| `Cancel` | shutdown: the task is gone, the executor thread sends on ("abandoned") |
| `CacheExpire`, `RedisLosesGroup`, `RedisRewinds` | TTL, flush, restart with `appendfsync everysec` |

`Crash` followed by `Start` is more optimistic than the code where the task died of an
exception: then nothing restarts it while `/health` stays green (a hazard in
`PROJECT.json`).  `RedisRewinds` moves the group's position and pending list back; lost
stream entries are not modelled, lost cache values are `CacheExpire`.  Prices, volumes,
tickets, result payloads, counters and metrics are abstracted away; an entry is its
idempotency key, or `NoOrder` when it does not parse.

### Reconciliation

A trade is its ticket.  `position` is the broker's truth (none, open, part = a close was
filled in part, gone), `row` the trades row (pending, filled = `closed_at IS NULL`,
closed), `source` the `raw_response.source` that tells which writer closed it and so
whether the realised PnL was written (`RealisedPnlStays`).  `DealMade`/`RecordFill` are the worker's
`order_send` and `set_status`; `ReadPositions`, `ReadLocal`, `Summarise`, `CloseGhost`,
`PublishClosed`, `EndCycle` are `Reconciler.run_once`; `LookUp`, `FindPosition`,
`SendClose`, `RecordClose` are `POST /close/{ticket}`.  `ReadPositions` may answer the
empty set: `positions_get` returns None when the terminal fails and the code turns that
into no positions.  The code treats ghosts in ticket order, the model in any order.
The symbol filter, prices and volumes are left out, and so are orphans, which are only
logged.

### RiskGate

`pc[c]` names the next await of `RiskConsumer._handle`: `_balance_hint`, `preflight`,
the account and symbol reads with sizing, publication, registration, acknowledgement.
`exposure` is the Redis hash; risk is counted in per cent of a balance that does not
change, and a sized order risks one of `Amounts`, at most `RiskPct` (sizing clamps down,
never up).  Stops and sizing are a nondeterministic verdict.  `bounds` is the scenario of
a behaviour, chosen in `Init` from `Scenarios`: how many entries, faults and rewinds it may
have and whether the account snapshot comes and goes.  `blind` counts the checks that had
no balance to go by.  The pending list and the group's
existence are folded into `cursor`: `GroupRewinds` covers a recreated group.  `open` is
what `order.request` has been told and nobody released: the truth the registry should
mirror.  Nothing in the repository calls `ExposureTracker.release` or writes
`mt5:account_info`; both are environment actions here.

### MarketData

Bars are numbered per timeframe; `closed[t] + 1` is the one being formed.  `stored` and
`partial` are the rows of `ohlcv`, `rows` those of `features`, by timeframe and bar.

| step | code |
|---|---|
| `Connect`, `Poll`, `Upsert`, `Publish` | `Ingestor.cycle` with `MT5Client.connect`, `_filter_new`, `upsert_bars`, `_publish` (`data-service/app/ingest.py`, `vix_core/mt5_client.py`) |
| `TriggerBackfill`, `RunBackfill`, `FetchPage`, `StorePage` | `backfill.py` and `iter_history_chunks`, from `POST /backfill` or from `scripts/fetch_history.py` |
| `SeedFeatures` | `start_system.py features` |
| `Read` .. `Ack`, `DeadLetterMalformed`, `ProcessingFails` | `FeatureConsumer` (`feature-service/app/consumer.py`) |
| `TerminalRestarts`, `RestartDataService`, `ConsumerDies`, `RecreateGroup` | the faults |

`lost` is a history variable: the bars a failed cycle had marked as seen, or that left
the window of the next poll.  `Stranded` are the entries that were delivered, not
acknowledged, and that no consumer holds.  Prices and indicator values are left out.

### ModelStore and SignalFlow

A model file holds the generation of the training that wrote it, `Torn` while it is
being written; the sidecar names the generation whose digest it holds.  `Acquire`,
`Fit`, `Dump`, `DumpEnds`, `WriteSidecar` are the training job of `ml-service/app/routes.py`
with `vix_core.artifacts.save_artifact`; `Verify` and `Read` are the two reads of
`load_artifact`.

In `SignalFlow` an event is a timeframe and the feature row stored before it.
`WorkerRead`, `Infer`, `SetRegime`, `SetMeta`, `WorkerAck` are `InferenceWorker`, `Drain`,
`GetCache` (twice), `Evaluate`, `InsertSignal`, `PublishSignal`, `Ack` are `SignalConsumer`.
Inferences are numbered, so that a cached value has an age.  Because the worker's labels
never pass `_resolve_regime` (see the divergences), signals only come from values put
into the caches by hand (`SeedCaches`), as the bus test of risk-service does; the run
seeds them once, at any moment, and the worker overwrites them.

### SignalEngine, Zones, LotSizing and TradeDecision

Operators over integers: prices in tenths of a point, probabilities per mille, scores in
halves, volumes in hundredths of a lot.  `TradeDecision` drives them: bars close, the
zones are built or advanced (`BuildZones`, `AdvanceAll`), the full window is evaluated
under every context (`Evaluate`) and a proposed signal is sized for every account and
symbol (`SizePosition`).  The ATR is a constant of the instance.  The properties are
reference definitions written from the rules the code states, not from its expressions.

### Notify

One task, five streams, one group.  `Drain` reads up to `Count` entries of each stream in
the order of `STREAMS`; `Handle`, `Record`, `Alert`, `Ack` are `_handle` for one entry.
`pc = "ended"` is a task that an exception ended while the container stays up (nothing
restarts it); `"dead"` is a dead container, which compose restarts.  `DeliveryLost` is a
reply of XREADGROUP that does not arrive: `drain` logs and calls again, and the batch stays
pending.  Two history variables serve the properties: `dropped` has the events of every
batch that was given up, `overtaken` the closes read by a call whose `count` did not reach
the fill they close.

### Gateway

Requests of one subject.  `Arrive` is the token check, `Prune`, `Add`, `Count`, `Expire`,
`Oldest` the five Redis calls of `SlidingWindowLimiter.check`, `Forward` the proxy.
The clock ticks between the calls, and Redis drops the key when its time to live runs
out; `expired` remembers which members were forgotten that way.

## 3. Runs

| run | module | expect | what it shows |
|---|---|---|---|
| live | OrderExecution | pass | two workers, two keys, one crash/cancellation/lost delivery, one Redis fault: no second deal, outcome or row transition; one claimed order without a report for each dead worker at most; implements `OrderLedger` |
| settles | OrderExecution | pass | without crashes every requested order is settled and announced; a live and a dry worker side by side, lossy broker, lost or rewound group |
| races | Reconciliation | pass | two sweeps, a manual close, part fills, a fault: nothing closed without a closing deal or announced twice; the profit a sweep found stays; visible closes are recorded |
| deployed | Reconciliation | violation | `Reconciler` as `main.py` builds it, without `mt5`: nothing is ever closed |
| risk | RiskGate | pass | the exact overshoot of both limits with two instances and one fault, checks without a balance included; no signal delivered once is answered both ways; every signal becomes an intent or a published rejection; one handled twice registers one trade's risk |
| bars | MarketData | pass | what a failed cycle loses and nothing else; what an announced bar or row guarantees; a backfill without holes; at most a batch of events left behind for each failure; every closed bar gets features |
| forming | MarketData | violation | a backfill stores the forming bar, and its closed form never replaces it |
| signals | SignalFlow | pass | how many stored signals are never heard of, how old the parts of a decision may be, how often an event fires, that no event is stuck, which models are loaded |
| decisions | TradeDecision | pass | zones, gates, stops, targets and volumes against their reference definitions, for every window of the instance |
| notify | Notify | pass | how often an event is told, what the audit trail may miss, the order in which it holds a fill and its close, that every event is settled |
| promised | Notify | violation | without any fault a generated signal ends the task and gets neither row nor alert |
| gateway | Gateway | pass | how many interleaved requests pass in a window, and what a refusal means |

### Divergences

The three violation runs are the findings of `PROJECT.json`; each quotes the lines that
promise the contrary: the sweep that never runs (`deployed`), the forming bar that stays
(`forming`), the generated signal that ends the notify task (`promised`, for every value of
the constants `SignalsGoUnrecorded`).

Four more promises are broken by the code in every run, and theorems say so for all
constants; no run counts the behaviour as a correctness property:

* `execution-service/app/routes.py:87` "realised PnL arrives via reconciliation sweep from
  deal history" and `:99` "realised pnl will be attached by the reconciliation sweep": the
  row is closed by then, the sweep only looks at open ones, and 0.0 stays for good
  (`ManualPnlNeverArrives`).
* `feature-service/app/consumer.py:5-6` "transient processing failures stay PENDING for
  redelivery": nothing reads pending entries again, so that MAX_DELIVERIES is dead code
  (`NothingIsRedelivered`; how many entries a failure strands is `StrandedBounded`).
* `signal-service/app/consumer.py:7-8` has the regime "written by ml-service", as the pipeline
  of the README does: the worker caches the keys "S0" .. "S2" of its order map
  (`ml-service/app/worker.py:161`; only the default in line 164 is spelled "S0_range"), and
  signal-service accepts "S0_range" .. only.  No inference ever opens the regime gate
  (`WorkerNeverSignals`).
* `vix_core/scoring.py:11`, rule 3: "BBMA and RSI-divergence must both confirm the direction".
  They are points of the score, and with the default minimum they decide nothing
  (`ConfirmationsDecideNothing`).  Rule 5's P(win) is the up share for both directions
  (`signal-service/app/consumer.py:212`): a SELL needs a rising forecast.  `HardGatesPassed`
  is about the gates the code has.

The others are conditions or terms of properties that hold:

* `vix_core/artifacts.py:4` "Loading FAILS CLOSED" and `:87` "after mandatory SHA256
  verification" promise more than `load_artifact` does: it reads the file twice, and a training
  that writes between the two is loaded unverified.  `UnverifiedOnlyByRace` exempts this race
  and nothing else.
* `risk-service/app/validator.py:9` "Missing snapshots fail CLOSED": an account key that is
  missing at the first of two reads switches the total-risk limit off for that check.
  `TotalRiskBounded` counts these checks (`blind`), one trade's risk for each.
* A worker that dies after the claim leaves its order pending for ever: `UnreportedBounded`
  counts one for each death, and `EveryOrderSettles` runs without them.  A reply lost after the
  deal is retried, and each attempt may leave a position (`SingleDeal` assumes a broker that
  reports its deals; `SendsBounded` does not).
* A part-filled close followed by a snapshot without the ticket closes the row of an
  open position: `ClosedOnlyAfterDeal` asks for a closing deal, not for a closed position.
* Two instances exceed `max_open_trades` (`OpenTradesBounded` says by how much).
* A sweep between `order_send` and `set_status` logs the system's own position as an
  orphan; a cycle that fails between the UPDATE and the XADD loses `order.closed`.
* A consumer that dies between `insert_signal` and XADD leaves a signal nobody hears of
  (`SilentSignalsBounded`: one for each death).  The worker loads its models once and never
  again.
* `decode` on a str ends the feature consumer on a malformed entry (`DeadLetterMalformed`), as
  it ends the notify task on a generated signal.
* A volume cut to a `volume_max` that is no multiple of `volume_step` makes the margin loop
  of `compute_lots` skip the multiple just below it: `LargestSize` promises the largest
  volume only where the sized one is a multiple.  The attempt to prove it without that
  condition found the case; the account with 800 in the instance contains it.
* Refused requests count, so that waiting `Retry-After` may not be enough
  (`RetryAfterIsBounded` only bounds it); a Redis that is down makes every request a 500,
  not an unlimited one as `main.py:62` of the gateway logs.
* `ZoneEngine.update` is only called by tests; the detection's moving average is centred,
  so that zones repaint; H4 and D1, the trend's timeframes, are never ingested, so that
  the trend comes from rows written by hand.
* A connected client never notices that the terminal was restarted (`Poll` fails for
  ever; the liveness of `bars` is conditional on no fault); dry-run tickets are wall-clock
  seconds and may collide; closing deals older than seven days are never found.

### Bounds

* Workers, sweeps, instances: two, enough for every pairwise race; the keys, trades and
  signals interact only through shared limits, so two keys (four signals for limits
  of two, in the scenario with a fault) reach every combination of batch neighbours.
* `MaxEntries`: two order entries give the duplicate, the distinct pair and the
  malformed neighbour; `BatchSize` two puts both in one batch.
* `MaxAttempts` two: one retry and one give-up.  The proofs hold for every value.
* `MaxCrashes`, `MaxRedisFaults`, `MaxFaults`: one of each, so a fault meets every step of
  a fault-free run and of another fault of the other kind.
* `MaxOpenTrades` two, `MaxTotalRisk` three, `RiskPct` three: the smallest values at
  which the two limits bite independently of each other; `Amounts` are the smallest and the
  largest risk, of which one of the largest reaches the total and two of the smallest do not.
* `risk`: four scenarios instead of one product (`MCScenarios`): four signals with a crash or a
  lost registration, three with an account that comes and goes, two with a rewound group, one
  and a malformed entry with a fault.
* `bars`: one timeframe with two closed bars and one more that closes, a poll that asks for
  one closed bar (so that a bar can leave the window), pages of two (so that a bar can
  close between two pages), four entries, one backfill or script.  There is one feature
  consumer, since a second only interleaves more readers of the same table; the `forming`
  run has two timeframes and two consumers.
* `signals`: three scenarios instead of one product, because their parts do not meet:
  two events (M15) for loaded models, one event that only one of the services takes (M5 or
  H1) with models on the disk, and two trainings on an empty disk; one failure in each.  One label and one output,
  since every label behaves alike in `_resolve_regime`.
* `decisions`: windows of five out of four candles (quiet at the bottom and at the top, an
  impulse, a fall), two more bars for the lifecycle; contexts, accounts and symbols around
  every gate, limit and step.
* `notify`: two fills, no rejected order (it is handled as a fill is) and one entry of each
  other stream, one entry per stream and call, so that a call may leave a fill behind whose
  close it reads; one fault.  `promised` is the same instance without faults.
* `gateway`: four requests, a limit of one, windows of two ticks, a check of at most one:
  bursts, edges of the window, and a key that runs out under a check.
* Deadlock checking is off everywhere the bounded inputs can be used up: the services then
  wait for work, which is what they do.  In `signals` and `decisions` it is on.

Safety runs take the quotient by permutations of interchangeable workers, keys and
requests; runs with liveness properties do not use symmetry.
`TypeOK` is a run only where it says more than types (`risk`); elsewhere it is proved,
or checked once while the model was written.

### Fairness

Weak fairness per worker, sweep and instance and nothing else: asyncio keeps scheduling
a live task, each awaited call returns (with a result or an error), and compose
restarts stopped containers (`restart: unless-stopped`).  `SignalFlow` adds a training
that was accepted, which runs in a thread of the pool, and `Notify` the restart of a dead
container, but not of an ended task.  No fairness is assumed of the
broker, the clients, fills, faults, the account writer, closing bars or the publishers.  A
weakly fair worker keeps polling, so an entry that was delivered to nobody is delivered;
an entry delivered to a worker that died is not, which is why the liveness properties
exclude the faults they name.

## 4. Proofs

All theorems hold for any numbers of workers, keys, entries, attempts and faults, from
the constants' assumptions in the modules; `SoloInstanceKeepsLimit` and
`StopIsBehindTheZone` state theirs.

**OrderExecution.**  `IInv == TypeOK /\ OrderParsed /\ ProtocolInv /\ AckInv`.  None of
the safety properties is inductive alone: that a key gets one deal needs that only the
worker that inserted its row sends it.  `ProtocolInv` therefore adds that a key has one
owner between insert and audit (`OneOwner`), what the owner knows at each await
(`WorkerKnows`: its counter equals the key's sends, the row is still pending, nothing
was announced), and that unclaimed and unsettled keys left no trace.  The proof splits
the steps into those that touch none of this (`QuietActions`) and the six that do, one
lemma each.  `AckInv` relates batches to the pending list.  `UnreportedGrows` is the step
behind `LostReportsAreCrashes`: only a death takes an order from a worker that was going to
report it, and it takes one.  From `IInv` follow
`TypeCorrect`, `AtMostMaxAttempts`, `AtMostOneDeal`, `AnnouncedOnce`, `TruthfulLedger`,
`CacheIsLate`, `AckedIsClaimed`, `RowsNeverRegress`, and `RefinesLedger`: insert is
`Claim`, order_send `Send`, set_status `Settle`, XADD `Announce`, all else stutters.

**Reconciliation.**  `Closing` says what each writer of a row holds in hand: a ghost
being closed has a closing deal behind it, an announcement a row this sweep closed and
nobody announced, a manual close a position that is gone.  It gives
`ClosesFollowDeals` and `AnnouncedAtMostOnce` for any number of sweeps, requests and
faults.  That only an open row is ever closed gives `RealisedStays`, and `ManualPnlNeverArrives`
with it: the same condition protects a profit and keeps one out.

**RiskGate.**  `CapacityInv` counts the registered positions together with the instances
that passed the check: the sum stays below `MaxOpenTrades + Cardinality(Instances)`,
because an instance only joins the second set while the first is below the limit.
`LostInv` charges every open position nobody will register to a fault.  Together:
`BoundedOvershoot`, and with one instance and no faults `SoloInstanceKeepsLimit`, the
limit as documented.  `BoundedTotalRisk` is the same argument with risk in place of
positions: `RiskInv` adds one trade's risk for each instance that passed, and raises the
bound by one for each check without a balance (`BlindChecks`).  It needs that
the total is a sum, which the model writes as a fold: `SumDefined` shows that its
recursion has a value on every set of signals, `SumSplits` that the order does not matter,
`SumUpdate` what one registration does.  `SignalsAnsweredOnce` follows where a delivered
signal can be: in one place of one batch (`DeliveredOnce`), answered only at its head
(`Answers`), and with at most one of the two answers.

**MarketData.**  `IInv == TypeOK /\ BatchesOK /\ Forwarding /\ Windows /\ Pages /\
Deliveries`.  `NoBarIsDropped` needs that a cycle which is storing or publishing holds all
that it has marked as seen (`Forwarding`), and that the announced entries are exactly the
bars in hand: each place of the batch is the rank of one bar.  `AnnouncementsAreKept` needs
that the bars below an announced one stay stored, so that a row computed later is out of
enough history (`Windows`).  `BackfillLeavesNoGap` is an induction over the pages: above
the next page's position nothing is missing, and a bar that closes in between moves the
position by one (`Pages`).  `NothingIsRedelivered` from the cursor (`Deliveries`).

**Notify.**  `IInv == TypeOK /\ Shapes /\ Chances /\ Recorded /\ Kept /\ ClosesOK`.
`Chances` charges each telling of an event to a reading of it, and a second reading to a lost
group (`TraderToldOnce`).  `Kept` says where a delivered event can be, and that every failure
gives up one batch at most (`TrailIsComplete`).  `ClosesOK` follows a close from the stream
into the trail: when it is in hand, the fill it closes is ahead of it in the same batch, or is
known, or the close was overtaken; the batch is ordered by stream and within a stream
(`Shapes`).  `FillBeforeClose` follows for every close, at any point of a run and with any
faults.  `SignalsGoUnrecorded` needs `Recorded`: only an event with a subject is ever in the
steps behind `Handle`.

**Gateway.**  `IInv == TypeOK /\ Times /\ Decided /\ KeyHolds`.  The limit is not
inductive: it needs that whoever passed is still in the sorted set as long as it is in the
window, unless the key ran out (`KeyHolds`), and that a check is never older than `Delay`
(`Times`).  `Bounded` then says what `Count` relies on, and `LimitHolds` follows for any
number of requests, any limit and any window longer than a check.  For the refusals
`Pruned` says what is left in the set when the request is counted, and `Crowded` that it
has seen `Limit` others; `RefusalsAreDeserved` follows.  The existence of the smallest
score, which `Oldest` takes, is a lemma on finite sets of naturals.

**SignalFlow.**  `LockHeld` (whoever works holds the training lock) gives `OneTrainer`,
and is what makes `FileInv` inductive: a file the worker has verified and is about to read
is the verified generation unless a training has touched it since.  `LoadedAreVerified`
is the action property on the worker's memory.  `SourceInv` follows a regime label from
the worker's output over the cache and the consumer's copy into a signal
(`WorkerNeverSignals`, a shortcoming: see the divergences).  `CacheAge` and `ContextAge` bound how far the two caches, and what
the consumer has read of them, may be apart (`ContextIsNotTorn`).  `SilenceIsCharged`:
what is published is in the table, and what is in the table and was not published is in hand
or charged to a failure.  `SignalsFireOnce`
counts the signals of an event together with its remaining chances, a place in the batch
before its acknowledgement or one behind the cursor: the sum only grows when the group is
made anew.

**TradeDecision.**  `IInv == TypeInv /\ DecisionInv /\ SizeInv`: the window holds candles
and the engine's list zones of which only untouched ones are fresh; a signal is what the
engine makes of the row and the context that are kept with it, and that row holds new
zones only; a size is what `compute_lots` makes of the signal, the account and the spec.
What makes it inductive is about the operators:

* `BodiesDefined`, `ScanDefined`, `NewOnesAreKept`: the recursions of the moving average,
  of the scan over the window and of the row's filter have a value on every window.
* `ScanIsGood`: what the scan finds from a candle on are the zones of impulses behind it,
  in their order.  An impulse is no quiet candle (`ImpulseIsNotQuiet`), so that it is in no
  later base: `CandlesAreNotShared`.
* `AdvanceIsForward`: one candle never improves a zone (`ZonesOnlyGetWorse`).
* `TouchedZone`: in a row of new zones `_zone_touch` and `_zone_edge` mean the same zone.
  With it `GatesArePassed` and `StopIsBehindTheZone`.  That the gates already give five of the
  seven points is `ConfirmationsDecideNothing`.  The latter assumes `ExactPrices`: an
  ATR that is a positive number of whole tenths, because the model's integers round where
  the code's floats do not, and positive, increasing multiples, as `vix_core/config.py` has them.
* `SizedVolume`: `VolumeOfRisk` and `VolumeOfMargin` bound the two halves of
  `compute_lots` from both sides, from facts about quotients and multiples
  (`SizesAreRight`).

**Recursion.**  Recursive functions are values of CHOOSE, and the library's induction
theorems take an operator as a parameter, which no installed prover instantiates.  Where a
proof needs induction it goes over sets instead: `Smallest` (of finitely many sets one has
no other inside) and, from it, `Counting` (a set of numbers with 0 that is closed under
successors is Nat), both stated for sets.  `LargestOf` gives the maximum of finitely many
numbers the same way.

Only model-checked: liveness (`EveryOrderSettles`, `EveryCloseIsRecorded`,
`EverySignalAnswered`, `EveryBarGetsFeatures`, `EveryEventAcknowledged`, `ModelsAreLoaded`,
`EventsAreSettled`), outside the prover's reach, and `StrandedBounded`: its charge falls due
when the consumer restarts, one step or many after the failure, and a group made anew may
deliver what a consumer still holds, so that the invariant behind it has to tell readings
apart.  Every other invariant and action property of the passing runs is a theorem.  One has
a term of its own for what is not excluded: `OneAnswer` for a group that is not rewound (the
scenario that rewinds it checks that a signal handled twice registers one trade's risk, not
two).

## 5. Not modelled

* visualization-service: it reads tables and draws; it keeps no state.
* `vix_core.indicators`, `vix_core.swings`, model fitting and inference: floating-point
  arithmetic over data frames.  Their results are inputs or choices of the models.
* Settings, logging, metrics, correlation ids, schemas' validation: settings are
  CONSTANTS, the rest carries no state of a protocol.
* `scripts/start_system.py` beyond the commands that write tables or call services:
  starting and stopping containers.
* The MetaTrader overlay (`.mq5`): it draws in the terminal.
* `/health`, history and position routes: they only read.
* Token signatures: the gateway's check is one choice between accepted and refused.

## 6. Plan

Done: every component whose state takes part in the trading protocol has a module and a
run, and every safety property of a run but `StrandedBounded` has a theorem.  Left, in this
order:

1. A composed pipeline RiskGate -> OrderExecution -> Reconciliation, for the properties
   that cross services: capacity that is never released, redelivered signals.
2. Proofs of what the theorems of two modules say together at the stream between them: an
   intent of `RiskGate` is an entry of `OrderExecution`, and a deal made there is what
   `Reconciliation` starts from.
3. A proof of `StrandedBounded`.
4. The remaining hazards without a property of their own: the zones of rows written by
   `start_system.py features`, dry-run tickets.
