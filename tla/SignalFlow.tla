----------------------------- MODULE SignalFlow -----------------------------
(***************************************************************************)
(* From feature.computed to signal.generated: the inference worker of      *)
(* ml-service (worker.py), which keeps the caches regime:current and       *)
(* meta_label:current in Redis, and the consumer of signal-service         *)
(* (consumer.py, db.py), which reads them and evaluates the newest row.    *)
(* Both are groups of one consumer on the same stream.                     *)
(*                                                                         *)
(* An event is [tf, row]: the timeframe and the row that was stored before *)
(* it was announced.  Every await that reads or writes shared state is a   *)
(* step.  Inferences are numbered, so that a cache says how old it is.     *)
(***************************************************************************)
EXTENDS SignalEngine, ModelStore

CONSTANTS
    Timeframes,     \* timeframes of the features
    LTF,            \* ltf_timeframes
    INFERENCE,      \* INFERENCE_TIMEFRAMES
    Rows,           \* feature rows (LtfSnapshot)
    Labels,         \* states of the regime model an inference may end in
    Outputs,        \* <<p_up, p_down>> an inference may end in
    SeededRegime,   \* what is put into the regime cache by hand, as the bus test
                    \*   of risk-service does, with a row of a higher timeframe
    WorkerBatch,    \* count= of the worker's XREADGROUP call
    SignalBatch,    \* count= of the consumer's
    Scenarios,      \* bounds of a behaviour: the entries of feature.computed, and
                    \*   their timeframes, the calls of POST /train, old models
                    \*   on the disk and loaded, and the trends of higher timeframes
    MaxFaults       \* bound: failures of any kind, new consumer groups included

ASSUME FlowAssumption ==
    /\ LTF \subseteq Timeframes /\ INFERENCE \subseteq Timeframes
    /\ Labels \subseteq {"S0", "S1", "S2"}
    /\ SeededRegime \in RegimeState
    /\ {WorkerBatch, SignalBatch} \subseteq Nat \ {0}
    /\ Scenarios \subseteq [events : Nat, timeframes : SUBSET Timeframes,
                       trainings : SUBSET Requests, trained : BOOLEAN, loaded : BOOLEAN,
                       votes : {<<>>, <<"up">>}]
    /\ MaxFaults \in Nat

VARIABLES
    \* Redis and TimescaleDB
    stream,     \* feature.computed
    cache,      \* regime:current and meta_label:current
    signals,    \* ids in the table signals
    generated,  \* signal.generated
    \* the worker
    group,      \* does its group exist?
    wcursor, wtodo, wacked, wpc,
    inferences, \* inferences that were cached
    output,     \* what the current one ended in
    \* the consumer
    cursor, todo, acked, pc,
    market,     \* what it has read of the caches
    proposal,   \* the signal, with what it was decided on
    \* environment
    faults, rewinds,
    bounds      \* the scenario

workerVars   == <<group, wcursor, wtodo, wacked, wpc, inferences, output>>
consumerVars == <<cursor, todo, acked, pc, market, proposal>>
outVars      == <<signals, generated>>
envVars      == <<faults, rewinds, bounds>>
vars == <<storeVars, stream, cache, outVars, workerVars, consumerVars, envVars>>

Event    == [tf : Timeframes, row : Rows]
NoCache  == [regime |-> [value |-> "none", n |-> 0, by |-> "nobody"],
             meta   |-> [value |-> <<>>,   n |-> 0, by |-> "nobody"]]
NoOutput == [label |-> "none", p |-> <<>>]
None     == <<>>

TypeOK ==
    /\ StoreTypeOK
    /\ stream \in Seq(Event)
    /\ DOMAIN cache = {"regime", "meta"}
    /\ {wcursor, cursor} \subseteq 0 .. Len(stream)
    /\ wacked \subseteq DOMAIN stream
    /\ acked \subseteq DOMAIN stream
    /\ wpc \in {"poll", "loading", "read", "infer", "set regime", "set meta", "ack", "dead"}
    /\ pc \in {"drain", "first", "second", "row", "insert", "publish", "ack", "dead"}
    /\ inferences \in 0 .. bounds.events
    /\ signals \subseteq Nat
    /\ faults + rewinds \in 0 .. MaxFaults

Init ==
    /\ bounds \in Scenarios
    /\ StoreInit(bounds.trained, bounds.loaded)
    /\ stream = <<>>
    /\ cache = NoCache
    /\ signals = {} /\ generated = {}
    /\ group = TRUE /\ wcursor = 0 /\ wtodo = <<>> /\ wacked = {} /\ wpc = "poll"
    /\ inferences = 0 /\ output = NoOutput
    /\ cursor = 0 /\ todo = <<>> /\ acked = {} /\ pc = "drain"
    /\ market = cache /\ proposal = None
    /\ faults = 0 /\ rewinds = 0

Fault == faults + rewinds < MaxFaults /\ faults' = faults + 1 /\ UNCHANGED <<rewinds, bounds>>

-----------------------------------------------------------------------------
(* feature-service, and what is put there by hand                           *)

Computed(tf, row) ==
    /\ Len(stream) < bounds.events
    /\ stream' = Append(stream, [tf |-> tf, row |-> row])
    /\ UNCHANGED <<storeVars, cache, outVars, workerVars, consumerVars, envVars>>

SeedCaches ==
    /\ cache = NoCache
    /\ \E p \in Outputs :
         cache' = [regime |-> [value |-> SeededRegime, n |-> inferences, by |-> "bench"],
                   meta   |-> [value |-> p, n |-> inferences, by |-> "bench"]]
    /\ UNCHANGED <<storeVars, stream, outVars, workerVars, consumerVars, envVars>>

Training ==
    /\ \E j \in Requests : Train(j)
    /\ UNCHANGED <<stream, cache, outVars, workerVars, consumerVars, envVars>>

Requested ==
    /\ \E j \in bounds.trainings : Queue(j)
    /\ UNCHANGED <<stream, cache, outVars, workerVars, consumerVars, envVars>>

-----------------------------------------------------------------------------
(* InferenceWorker                                                          *)

Batch(from, size) == [i \in 1 .. Min({size, Len(stream) - from}) |-> from + i]

\* Mutant: the second model is not asked for.
StartLoad_RegimeOnly ==
    /\ wpc = "poll" /\ NotLoaded
    /\ IF bundle["regime"] = 0
       THEN loading' = <<"verify", "regime">> /\ wpc' = "loading"
       ELSE wpc' = "read" /\ UNCHANGED loading
    /\ UNCHANGED <<fileVars, trainVars, checked, raced, bundle, stream, cache,
                   outVars, group, wcursor, wtodo, wacked, inferences, output,
                   consumerVars, envVars>>

\* Both models are loaded again only while one of them is missing.
StartLoad ==
    /\ wpc = "poll" /\ NotLoaded
    /\ loading' = <<"verify", "regime">>
    /\ wpc' = "loading"
    /\ UNCHANGED <<fileVars, trainVars, checked, raced, bundle, stream, cache,
                   outVars, group, wcursor, wtodo, wacked, inferences, output,
                   consumerVars, envVars>>

LoadStep ==
    /\ wpc = "loading"
    /\ Load
    /\ wpc' = IF loading' = Idle THEN "read" ELSE wpc
    /\ UNCHANGED <<stream, cache, outVars, group, wcursor, wtodo, wacked,
                   inferences, output, consumerVars, envVars>>

\* XREADGROUP: the next batch, or nothing for five seconds.  A lost group is
\* created again at "$", the end of the stream.
WorkerRead ==
    /\ wpc = "read" \/ (wpc = "poll" /\ ~NotLoaded)
    /\ IF ~group
       THEN /\ group' = TRUE /\ wcursor' = Len(stream)
            /\ wpc' = "poll" /\ UNCHANGED wtodo
       ELSE /\ wtodo' = Batch(wcursor, WorkerBatch)
            /\ wcursor' = wcursor + Len(wtodo')
            /\ wpc' = IF wtodo' = <<>> THEN "poll" ELSE "infer"
            /\ UNCHANGED group
    /\ UNCHANGED <<storeVars, stream, cache, outVars, wacked, inferences, output,
                   consumerVars, envVars>>

\* Mutant: the label is translated, as predict_regime does for GET /predict.
RegimeLabel_Translated(state) ==
    CASE state = "S0" -> "S0_range" [] state = "S1" -> "S1_trend_up"
      [] state = "S2" -> "S2_trend_down"

\* The keys of _canonical_order go into the cache as they are.
RegimeLabel(state) == state

Inferable == stream[Head(wtodo)].tf \in INFERENCE /\ ~NotLoaded

\* Other timeframes, and events without models, are acknowledged and forgotten.
Infer ==
    /\ wpc = "infer"
    /\ IF Inferable
       THEN /\ \E s \in Labels, p \in Outputs : output' = [label |-> RegimeLabel(s), p |-> p]
            /\ wpc' = "set regime"
       ELSE wpc' = "ack" /\ UNCHANGED output
    /\ UNCHANGED <<storeVars, stream, cache, outVars, group, wcursor, wtodo,
                   wacked, inferences, consumerVars, envVars>>

SetRegime ==
    /\ wpc = "set regime"
    /\ inferences' = inferences + 1
    /\ cache' = [cache EXCEPT !["regime"] =
                   [value |-> output.label, n |-> inferences + 1, by |-> "worker"]]
    /\ wpc' = "set meta"
    /\ UNCHANGED <<storeVars, stream, outVars, group, wcursor, wtodo, wacked,
                   output, consumerVars, envVars>>

SetMeta ==
    /\ wpc = "set meta"
    /\ cache' = [cache EXCEPT !["meta"] =
                   [value |-> output.p, n |-> inferences, by |-> "worker"]]
    /\ wpc' = "ack"
    /\ UNCHANGED <<storeVars, stream, outVars, group, wcursor, wtodo, wacked,
                   inferences, output, consumerVars, envVars>>

\* Mutant: only what was inferred is acknowledged.
WorkerAck_InferredOnly ==
    /\ wpc = "ack"
    /\ wacked' = IF output = NoOutput THEN wacked ELSE wacked \cup {Head(wtodo)}
    /\ wtodo' = Tail(wtodo) /\ output' = NoOutput
    /\ wpc' = IF Len(wtodo) = 1 THEN "poll" ELSE "infer"
    /\ UNCHANGED <<storeVars, stream, cache, outVars, group, wcursor, inferences,
                   consumerVars, envVars>>

WorkerAck ==
    /\ wpc = "ack"
    /\ wacked' = wacked \cup {Head(wtodo)}
    /\ wtodo' = Tail(wtodo) /\ output' = NoOutput
    /\ wpc' = IF Len(wtodo) = 1 THEN "poll" ELSE "infer"
    /\ UNCHANGED <<storeVars, stream, cache, outVars, group, wcursor, inferences,
                   consumerVars, envVars>>

\* "unhandled inference error; acking to avoid stall": also between the caches.
InferenceFails ==
    /\ Fault
    /\ wpc \in {"infer", "set regime", "set meta"}
    /\ wpc' = "ack"
    /\ UNCHANGED <<storeVars, stream, cache, outVars, group, wcursor, wtodo,
                   wacked, inferences, output, consumerVars>>

\* XACK is not guarded: its exception ends the task, and training goes on.
WorkerDies ==
    /\ Fault
    /\ wpc = "ack"
    /\ wpc' = "dead"
    /\ UNCHANGED <<storeVars, stream, cache, outVars, group, wcursor, wtodo,
                   wacked, inferences, output, consumerVars>>

\* ml-service restarts: the worker, its models and the training job are gone.
RestartMlService ==
    /\ \/ wpc = "dead" /\ UNCHANGED envVars
       \/ wpc # "dead" /\ Fault
    /\ wpc' = "poll" /\ wtodo' = <<>> /\ output' = NoOutput
    /\ train' = [j \in Requests |-> IF train[j].step \in Working \cup {"queued"}
                                    THEN [train[j] EXCEPT !.step = "done"] ELSE train[j]]
    /\ lock' = NoRequest
    /\ loading' = Idle /\ checked' = 0 /\ raced' = FALSE
    /\ bundle' = [m \in Models |-> 0]
    /\ UNCHANGED <<fileVars, generation, stream, cache, outVars, group, wcursor,
                   wacked, inferences, consumerVars>>

GroupLost ==
    /\ Fault
    /\ group /\ group' = FALSE
    /\ UNCHANGED <<storeVars, stream, cache, outVars, wcursor, wtodo, wacked, wpc,
                   inferences, output, consumerVars>>

-----------------------------------------------------------------------------
(* SignalConsumer                                                           *)

EventOf == stream[Head(todo)]

Begin1(entries) == IF entries = <<>> THEN "drain"
                   ELSE IF stream[Head(entries)].tf \in LTF THEN "first" ELSE "ack"

Drain ==
    /\ pc = "drain" /\ cursor < Len(stream)
    /\ todo' = Batch(cursor, SignalBatch)
    /\ cursor' = cursor + Len(todo')
    /\ pc' = Begin1(todo')
    /\ UNCHANGED <<storeVars, stream, cache, outVars, workerVars, acked, market,
                   proposal, envVars>>

\* Mutant: the caches are read in the other order.
ContextKeys_Swapped == [first |-> "meta", second |-> "regime"]

\* _market_context: GET regime:current, then GET meta_label:current.
ContextKeys == [first |-> "regime", second |-> "meta"]

GetCache ==
    /\ pc \in {"first", "second"}
    /\ LET key == ContextKeys[pc]
       IN market' = [market EXCEPT ![key] = cache[key]]
    /\ pc' = IF pc = "first" THEN "second" ELSE "row"
    /\ UNCHANGED <<storeVars, stream, cache, outVars, workerVars, cursor, todo,
                   acked, proposal, envVars>>

Context ==
    [trend  |-> VotedTrend(bounds.votes),
     regime |-> ResolveRegime(market["regime"].value),
     pWin   |-> IF market["meta"].by = "nobody" THEN NoPWin
                ELSE PWin(market["meta"].value[1], market["meta"].value[2])]

\* fetch_ltf_row: the newest row of the timeframe, not the event's.
LtfRow == LET rows == {i \in DOMAIN stream : stream[i].tf = EventOf.tf}
          IN stream[Max(rows)].row

\* The rows are fetched and the engine evaluates them; ids are never used twice.
Evaluate ==
    /\ pc = "row"
    /\ IF Fires(LtfRow, Context)
       THEN /\ proposal' = [id    |-> Cardinality(signals) + 1, event |-> Head(todo),
                            by    |-> market["regime"].by]
            /\ pc' = "insert"
       ELSE pc' = "ack" /\ UNCHANGED proposal
    /\ UNCHANGED <<storeVars, stream, cache, outVars, workerVars, cursor, todo,
                   acked, market, envVars>>

InsertSignal ==
    /\ pc = "insert"
    /\ signals' = signals \cup {proposal.id}
    /\ pc' = "publish"
    /\ UNCHANGED <<storeVars, stream, cache, generated, workerVars, cursor, todo,
                   acked, market, proposal, envVars>>

\* Mutant: an event that has been announced is not announced again.
PublishSignal_OncePerEvent ==
    /\ pc = "publish"
    /\ generated' = IF \E s \in generated : s.event = proposal.event
                    THEN generated ELSE generated \cup {proposal}
    /\ pc' = "ack"
    /\ UNCHANGED <<storeVars, stream, cache, signals, workerVars, cursor, todo,
                   acked, market, proposal, envVars>>

PublishSignal ==
    /\ pc = "publish"
    /\ generated' = generated \cup {proposal}
    /\ pc' = "ack"
    /\ UNCHANGED <<storeVars, stream, cache, signals, workerVars, cursor, todo,
                   acked, market, proposal, envVars>>

ForgetEvent == market' = NoCache /\ proposal' = None

Ack ==
    /\ pc = "ack"
    /\ acked' = acked \cup {Head(todo)}
    /\ todo' = Tail(todo)
    /\ pc' = Begin1(Tail(todo))
    /\ ForgetEvent
    /\ UNCHANGED <<storeVars, stream, cache, outVars, workerVars, cursor, envVars>>

\* Nothing in _handle is caught: any exception ends the task.
ConsumerDies ==
    /\ Fault
    /\ pc \notin {"drain", "dead"}
    /\ pc' = "dead"
    /\ UNCHANGED <<storeVars, stream, cache, outVars, workerVars, cursor, todo,
                   acked, market, proposal>>

\* Mutant: the consumer first reads again what it has not acknowledged.
RestartConsumer_Rereads ==
    /\ pc = "dead"
    /\ pc' = Begin1(todo)
    /\ ForgetEvent
    /\ UNCHANGED <<storeVars, stream, cache, outVars, workerVars, cursor, todo,
                   acked, envVars>>

\* signal-service restarts: its batch stays pending.
RestartConsumer ==
    /\ pc = "dead"
    /\ pc' = "drain" /\ todo' = <<>>
    /\ ForgetEvent
    /\ UNCHANGED <<storeVars, stream, cache, outVars, workerVars, cursor, acked,
                   envVars>>

\* The group is gone and _ensure_group creates it with id="0".
RecreateGroup ==
    /\ faults + rewinds < MaxFaults /\ rewinds' = rewinds + 1
    /\ cursor > 0 /\ cursor' = 0
    /\ acked' = {}
    /\ UNCHANGED <<storeVars, stream, cache, outVars, workerVars, todo, pc,
                   market, proposal, faults, bounds>>

-----------------------------------------------------------------------------
Worker == StartLoad \/ LoadStep \/ WorkerRead \/ Infer \/ SetRegime \/ SetMeta \/ WorkerAck
Consumer == Drain \/ GetCache \/ Evaluate \/ InsertSignal \/ PublishSignal \/ Ack

Next ==
    \/ \E tf \in bounds.timeframes, row \in Rows : Computed(tf, row)
    \/ SeedCaches
    \/ Requested \/ Training
    \/ Worker \/ InferenceFails \/ WorkerDies \/ RestartMlService \/ GroupLost
    \/ Consumer \/ ConsumerDies \/ RestartConsumer \/ RecreateGroup

\* The loops run and a training ends; nobody has to train, seed or restart.
Spec == Init /\ [][Next]_vars
Fairness == WF_vars(Worker) /\ WF_vars(Consumer) /\ WF_vars(Training)
FairSpec == Spec /\ Fairness

-----------------------------------------------------------------------------
\* What risk-service receives is in the table signals; and a signal in the table
\* that nobody will hear of is the one whose consumer failed between the insert and
\* the XADD: one for each failure at most.
SilentSignalsBounded ==
    /\ \A s \in generated : s.id \in signals
    /\ Cardinality(signals) <= Cardinality(generated) + faults + IF pc = "publish" THEN 1 ELSE 0

\* The worker caches "S0" .. "S2", signal-service knows "S0_range" .. only: no
\* signal comes from the worker's inferences, against what consumer.py:7-8 and the
\* default of worker.py:164 intend.  A theorem says so; no run requires it.
NoSignalFromTheWorker == \A s \in generated : s.by = "bench"

\* An event fires one signal at most, and one more each time the group starts
\* again from the beginning: ids are fresh, so nothing downstream could tell.
EventFiresOnce ==
    \A i \in DOMAIN stream :
      Cardinality({s \in generated : s.event = i}) <= 1 + rewinds

\* The two caches are set and read one after the other: the meta-label of a
\* decision is older than its regime by one inference at most, and one more for
\* every inference that failed between the two.
ContextNotTorn ==
    pc \in {"row", "insert", "publish"} =>
        market["regime"].n <= market["meta"].n + 1 + faults

\* Unless something fails, both services acknowledge every event.
EveryEventAcknowledged ==
    \/ <>(faults + rewinds > 0)
    \/ \A i \in 1 .. Max({s.events : s \in Scenarios}) : Len(stream) >= i ~> i \in acked \cap wacked

\* Unless something fails, the worker loads models that were trained: a training
\* that runs meanwhile only delays it.
ModelsAreLoaded ==
    \/ <>(faults > 0)
    \/ (Loadable("regime") /\ Loadable("meta")) ~> ~NotLoaded
=============================================================================
