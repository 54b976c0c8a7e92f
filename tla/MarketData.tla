----------------------------- MODULE MarketData -----------------------------
(***************************************************************************)
(* From the terminal to the feature rows: the ingest loop of data-service  *)
(* (ingest.py), the backfill that writes the same ohlcv table              *)
(* (backfill.py), the stream ohlcv.update, the consumers of feature-       *)
(* service (consumer.py), and the operator's commands that write the same  *)
(* tables (scripts/fetch_history.py, scripts/start_system.py).             *)
(*                                                                         *)
(* The bars of a timeframe are numbered from 1 in the order of their open  *)
(* times; bar closed[t] + 1 is the one being formed.  Prices are left out: *)
(* a stored bar is final, or partial when it was read while forming.       *)
(* Every await is a step: a cycle reads, filters, upserts and publishes    *)
(* one timeframe after the other; an event is fetched for, stored,         *)
(* announced and acknowledged.                                             *)
(***************************************************************************)
EXTENDS Naturals, Sequences, FiniteSets, FiniteSetsExt, Functions

CONSTANTS
    NumTimeframes,  \* INGEST_TIMEFRAMES, polled in the order of their numbers
    HistoryBars,    \* history_bars: closed bars asked for in every poll
    Retries,        \* attempts of MT5Client.connect
    Jobs,           \* backfills: POST /backfill, or a script
    ChunkSize,      \* chunk_size: bars in one page of a backfill
    Cutoff,         \* oldest bar inside lookback_days
    Consumers,      \* feature-service replicas
    BatchSize,      \* count= of the XREADGROUP call
    MinBars,        \* MIN_BARS: bars below which nothing is computed
    WarmUp,         \* WARMUP_INDEX: first index a script writes features for, less one
    MaxDeliveries,  \* MAX_DELIVERIES
    Malformed,      \* an entry without symbol, timeframe or ts
    FirstClosed,    \* closed bars in the terminal when the system starts
    MaxClosed,      \* bound: closed bars of one timeframe
    MaxEntries,     \* bound: entries of ohlcv.update
    MaxFaults       \* bound: failures of any kind

ASSUME ConstantsAssumption ==
    /\ NumTimeframes \in Nat \ {0}
    /\ {HistoryBars, Retries, ChunkSize, BatchSize} \subseteq Nat \ {0}
    /\ {Cutoff, MinBars, WarmUp, MaxDeliveries, FirstClosed, MaxClosed} \subseteq Nat
    /\ {MaxEntries, MaxFaults} \subseteq Nat
    /\ FirstClosed <= MaxClosed
    /\ IsFiniteSet(Jobs) /\ IsFiniteSet(Consumers)

Timeframes == 1 .. NumTimeframes
Bars       == 1 .. MaxClosed + 1

ASSUME MalformedAssumption == Malformed \notin [tf : Timeframes, bar : Bars]

VARIABLES
    \* the terminal
    closed,     \* number of closed bars of each timeframe
    attached,   \* has data-service a session with the running terminal?
    \* the ingest loop
    connected,  \* MT5Client._connected: does it believe so?
    ipc,        \* the step the loop is about to perform
    attempt,    \* of connect
    at,         \* timeframe of the cycle
    fresh,      \* bars that passed the filter
    lastSeen,   \* _last_seen; 0 when unset
    \* TimescaleDB
    stored,     \* ohlcv: the bars that have a row
    partial,    \* ... whose row was read while the bar was forming
    rows,       \* features: <<timeframe, bar>> that have a row
    \* backfill jobs
    job,
    \* Redis
    stream,     \* ohlcv.update
    cursor,     \* the group's last-delivered-id
    pending,    \* entries delivered and not acknowledged: times delivered
    computed,   \* feature.computed: <<timeframe, bar>>, with the event's bar
    \* feature-service
    fpc, todo, latest,
    \* what happened
    lost,       \* bars a failed cycle had marked as seen, or out of the window
    faults

terminalVars == <<closed, attached>>
ingestVars   == <<connected, ipc, attempt, at, fresh, lastSeen>>
featureVars  == <<cursor, pending, computed, rows, fpc, todo, latest>>
vars == <<terminalVars, ingestVars, stored, partial, job, stream, featureVars,
          lost, faults>>

Event   == [tf : Timeframes, bar : Bars]
NoBar   == 0
IdleJob == [stage |-> "idle", script |-> FALSE, session |-> FALSE, tf |-> 1,
            start |-> 0, page |-> {}, forming |-> 0, low |-> 1, newest |-> 0]

TypeOK ==
    /\ closed \in [Timeframes -> 0 .. MaxClosed]
    /\ attached \in BOOLEAN /\ connected \in BOOLEAN
    /\ ipc \in {"connect", "poll", "upsert", "publish"}
    /\ attempt \in 1 .. Retries
    /\ at \in Timeframes
    /\ fresh \subseteq Bars
    /\ lastSeen \in [Timeframes -> 0 .. MaxClosed]
    /\ stored \in [Timeframes -> SUBSET Bars]
    /\ \A t \in Timeframes : partial[t] \subseteq stored[t]
    /\ \A t \in Timeframes : lost[t] \subseteq Bars
    /\ rows \subseteq Timeframes \X Bars
    /\ computed \subseteq [tf : Timeframes, bar : Bars, event : Bars]
    /\ stream \in Seq(Event \cup {Malformed})
    /\ cursor \in 0 .. Len(stream)
    /\ pending \in [1 .. Len(stream) -> Nat]
    /\ fpc \in [Consumers -> {"read", "fetch", "store", "announce", "ack", "dead"}]
    /\ \A c \in Consumers : latest[c] \in Bars \cup {NoBar}
    /\ faults \in 0 .. MaxFaults

Init ==
    /\ closed = [t \in Timeframes |-> FirstClosed]
    /\ attached = FALSE /\ connected = FALSE
    /\ ipc = "connect" /\ attempt = 1 /\ at = 1 /\ fresh = {}
    /\ lastSeen = [t \in Timeframes |-> NoBar]
    /\ stored = [t \in Timeframes |-> {}]
    /\ partial = stored /\ lost = stored
    /\ rows = {} /\ computed = {}
    /\ job = [j \in Jobs |-> IdleJob]
    /\ stream = <<>> /\ cursor = 0 /\ pending = <<>>
    /\ fpc = [c \in Consumers |-> "read"]
    /\ todo = [c \in Consumers |-> <<>>]
    /\ latest = [c \in Consumers |-> NoBar]
    /\ faults = 0

Fault == faults < MaxFaults /\ faults' = faults + 1

-----------------------------------------------------------------------------
(* The terminal                                                             *)

BarCloses(t) ==
    /\ closed[t] < MaxClosed
    /\ closed' = [closed EXCEPT ![t] = @ + 1]
    /\ UNCHANGED <<attached, ingestVars, stored, partial, job, stream,
                   featureVars, lost, faults>>

\* The terminal is restarted: sessions end, and nobody tells the client.
TerminalRestarts ==
    /\ Fault
    /\ attached \/ \E j \in Jobs : job[j].session
    /\ attached' = FALSE
    /\ job' = [j \in Jobs |-> [job[j] EXCEPT !.session = FALSE]]
    /\ UNCHANGED <<closed, ingestVars, stored, partial, stream, featureVars, lost>>

\* Bars at positions from .. from + n - 1 of the terminal's history, counted
\* back from the forming bar at position 0 (copy_rates_from_pos).
Positions(t, from, n) ==
    {b \in 1 .. closed[t] + 1 : closed[t] + 1 - b \in from .. from + n - 1}

\* copy_bars: one more than asked for, the forming bar dropped.
CopyBars(t) == Positions(t, 0, HistoryBars + 1) \ {closed[t] + 1}

-----------------------------------------------------------------------------
(* data-service: the ingest loop                                            *)

\* An exception ends the cycle; the next one starts with the first timeframe.
\* Bars the filter has marked as seen are forgotten.
CycleFails(isConnected) ==
    /\ ipc' = IF isConnected THEN "poll" ELSE "connect"
    /\ attempt' = 1 /\ at' = 1 /\ fresh' = {}
    /\ lost' = [lost EXCEPT ![at] = @ \cup fresh]

\* MT5Client.connect: an attempt fails on initialize or on login (a session
\* that cannot log in is shut down); the last failure ends the cycle.
Connect ==
    /\ ipc = "connect"
    /\ \/ /\ connected' = TRUE /\ attached' = TRUE
          /\ ipc' = "poll" /\ attempt' = 1
          /\ UNCHANGED faults
       \/ /\ Fault
          /\ attempt' = IF attempt = Retries THEN 1 ELSE attempt + 1
          /\ UNCHANGED <<connected, attached, ipc>>
    /\ UNCHANGED <<closed, at, fresh, lastSeen, stored, partial, job, stream,
                   featureVars, lost>>

\* Mutant: a bar is new when it does not follow the last one seen.
FilterNew_SkipsNext(t, bars) == {b \in bars : b > lastSeen[t] + 1}

\* _filter_new: the first poll forwards the window, later ones what is newer.
FilterNew(t, bars) == {b \in bars : b > lastSeen[t]}

NextTimeframe == at' = IF at = NumTimeframes THEN 1 ELSE at + 1

\* copy_bars and _filter_new.  Without a session the call fails, for ever:
\* cycle connects only when _connected is false.
Poll ==
    /\ ipc = "poll"
    /\ IF ~attached
       THEN /\ CycleFails(connected)
            /\ UNCHANGED lastSeen
       ELSE LET bars == CopyBars(at)
                new  == FilterNew(at, bars)
            IN /\ lastSeen' = [lastSeen EXCEPT ![at] =
                                 IF bars = {} THEN @ ELSE Max(bars)]
               /\ fresh' = new
               /\ lost' = [lost EXCEPT ![at] = @ \cup
                             ((lastSeen[at] + 1 .. closed[at]) \ bars)]
               /\ IF new = {}
                  THEN NextTimeframe /\ ipc' = "poll"
                  ELSE ipc' = "upsert" /\ at' = at
               /\ UNCHANGED attempt
    /\ UNCHANGED <<terminalVars, connected, stored, partial, job, stream,
                   featureVars, faults>>

\* upsert_bars: ON CONFLICT DO NOTHING, so the first row of a bar stays.
InsertBars(t, bars, forming) ==
    /\ stored' = [stored EXCEPT ![t] = @ \cup bars]
    /\ partial' = [partial EXCEPT ![t] = @ \cup ((bars \cap {forming}) \ stored[t])]

\* Mutant: a failing insert is logged, and the bars are published all the same.
Upsert_Swallows ==
    /\ ipc = "upsert"
    /\ \/ InsertBars(at, fresh, closed[at] + 1) /\ UNCHANGED faults
       \/ Fault /\ UNCHANGED <<stored, partial>>
    /\ ipc' = "publish"
    /\ UNCHANGED <<terminalVars, connected, attempt, at, fresh, lastSeen, lost,
                   job, stream, featureVars>>

Upsert ==
    /\ ipc = "upsert"
    /\ \/ /\ InsertBars(at, fresh, closed[at] + 1)
          /\ ipc' = "publish"
          /\ UNCHANGED <<attempt, at, fresh, lost, faults>>
       \/ /\ Fault
          /\ CycleFails(connected)
          /\ UNCHANGED <<stored, partial>>
    /\ UNCHANGED <<terminalVars, connected, lastSeen, job, stream, featureVars>>

Entries(t, bars) ==
    [i \in 1 .. Cardinality(bars) |->
        [tf |-> t, bar |-> CHOOSE b \in bars : Cardinality({x \in bars : x <= b}) = i]]

Add(entries) ==
    /\ Len(stream) + Len(entries) <= MaxEntries
    /\ stream' = stream \o entries
    /\ pending' = pending \o [i \in DOMAIN entries |-> 0]

\* _publish: the pipeline is not a transaction, a failure may come after some.
Publish ==
    /\ ipc = "publish"
    /\ \/ /\ Add(Entries(at, fresh))
          /\ NextTimeframe
          /\ ipc' = "poll" /\ fresh' = {}
          /\ UNCHANGED <<attempt, lost, faults>>
       \/ /\ Fault
          /\ \E n \in 0 .. Cardinality(fresh) : Add(SubSeq(Entries(at, fresh), 1, n))
          /\ CycleFails(connected)
    /\ UNCHANGED <<terminalVars, connected, lastSeen, stored, partial, job,
                   cursor, computed, rows, fpc, todo, latest>>

\* The container restarts; background jobs die with it.
RestartDataService ==
    /\ Fault
    /\ attached' = FALSE /\ connected' = FALSE
    /\ CycleFails(FALSE)
    /\ lastSeen' = [t \in Timeframes |-> NoBar]
    /\ job' = [j \in Jobs |-> IF job[j].stage = "idle" \/ job[j].script THEN job[j]
                              ELSE [job[j] EXCEPT !.stage = "died"]]
    /\ UNCHANGED <<closed, stored, partial, stream, featureVars>>

-----------------------------------------------------------------------------
(* Backfill: pages from the newest bar backwards, the forming one included  *)

SetJob(j, r) == job' = [job EXCEPT ![j] = r]

Begin(j, t, script) ==
    /\ job[j].stage = "idle"
    /\ SetJob(j, [IdleJob EXCEPT !.stage = "fetch", !.tf = t,
                                 !.script = script, !.session = script,
                                 !.newest = closed[t] + 1, !.low = closed[t] + 2])
    /\ UNCHANGED <<terminalVars, ingestVars, stored, partial, stream,
                   featureVars, lost, faults>>

\* POST /backfill: with the session of the ingest loop.
TriggerBackfill(j, t) == Begin(j, t, FALSE)

\* A run of a script: a process and a session of its own.
RunBackfill(j, t) == Begin(j, t, TRUE)

Session(r) == IF r.script THEN r.session ELSE attached

\* Mutant: the next page starts one bar too far.
NextStart_Skips(r) == r.start + Cardinality(r.page) + 1

\* Where the next page starts.
NextStart(r) == r.start + Cardinality(r.page)

\* One turn of iter_history_chunks: positions move on when bars close while
\* the job is running.  A terminal that answers nothing ends the job as well
\* as the end of the history does.
FetchPage(j) ==
    LET r    == job[j]
        page == IF Session(r) THEN Positions(r.tf, r.start, ChunkSize) ELSE {}
    IN /\ r.stage = "fetch"
       /\ SetJob(j, IF page = {} THEN [r EXCEPT !.stage = "ok"]
                    ELSE [r EXCEPT !.stage = "upsert", !.page = page,
                                   !.forming = closed[r.tf] + 1])
       /\ UNCHANGED <<terminalVars, ingestVars, stored, partial, stream,
                      featureVars, lost, faults>>

\* The chunk is stored, and not published; then the generator decides whether
\* there is another one.  A failing insert ends the job without an audit row.
StorePage(j) ==
    LET r == job[j] IN
    /\ r.stage = "upsert"
    /\ \/ /\ InsertBars(r.tf, r.page, r.forming)
          /\ SetJob(j, [r EXCEPT
               !.stage = IF Min(r.page) <= Cutoff \/ Cardinality(r.page) < ChunkSize
                         THEN "ok" ELSE "fetch",
               !.start = NextStart(r), !.low = Min(r.page \cup {@}), !.page = {}])
          /\ UNCHANGED faults
       \/ /\ Fault
          /\ SetJob(j, [r EXCEPT !.stage = "died"])
          /\ UNCHANGED <<stored, partial>>
    /\ UNCHANGED <<terminalVars, ingestVars, stream, featureVars, lost>>

\* "start_system.py features": rows for the whole history of a timeframe, and
\* no event.  A row that exists keeps its zones.
SeedFeatures(t) ==
    /\ Cardinality(stored[t]) > WarmUp + 1
    /\ rows' = rows \cup
         {<<t, b>> : b \in {x \in stored[t] : Cardinality({y \in stored[t] : y < x}) > WarmUp}}
    /\ UNCHANGED <<terminalVars, ingestVars, stored, partial, job, stream, cursor,
                   pending, computed, fpc, todo, latest, lost, faults>>

-----------------------------------------------------------------------------
(* feature-service                                                          *)

Goto(c, label) == fpc' = [fpc EXCEPT ![c] = label]
Current(c)     == Head(todo[c])
EventOf(c)     == stream[Current(c)]

AddMalformed ==
    /\ Fault
    /\ Add(<<Malformed>>)
    /\ UNCHANGED <<terminalVars, ingestVars, stored, partial, job, cursor,
                   computed, rows, fpc, todo, latest, lost>>

\* Mutant: the rest of the batch is dropped.
NextEntry_DropsRest(c) == todo' = [todo EXCEPT ![c] = <<>>] /\ Goto(c, "read")

\* The next entry of the batch, or back to XREADGROUP.
NextEntry(c) ==
    /\ todo' = [todo EXCEPT ![c] = Tail(@)]
    /\ Goto(c, IF Len(todo[c]) = 1 THEN "read" ELSE "fetch")

\* XREADGROUP ">" hands out what no consumer has had: once, and never again.
Read(c) ==
    /\ fpc[c] = "read"
    /\ cursor < Len(stream)
    /\ LET last == Min({Len(stream), cursor + BatchSize})
       IN /\ todo' = [todo EXCEPT ![c] = [i \in 1 .. last - cursor |-> cursor + i]]
          /\ pending' = [i \in DOMAIN pending |->
                           IF i \in cursor + 1 .. last THEN pending[i] + 1 ELSE pending[i]]
          /\ cursor' = last
    /\ Goto(c, "fetch")
    /\ UNCHANGED <<terminalVars, ingestVars, stored, partial, job, stream,
                   computed, rows, latest, lost, faults>>

\* fetch_bars: the latest bars of the timeframe, whatever the event's bar is.
FetchBars(c) == stored[EventOf(c).tf]

\* A malformed entry is dead-lettered: message_id.decode() fails on a str, and
\* the exception ends the task.
DeadLetterMalformed(c) ==
    /\ fpc[c] = "fetch"
    /\ EventOf(c) = Malformed
    /\ Goto(c, "dead")
    /\ UNCHANGED <<terminalVars, ingestVars, stored, partial, job, stream,
                   cursor, pending, computed, rows, todo, latest, lost, faults>>

\* A short history is logged and acknowledged without features.
Fetch(c) ==
    /\ fpc[c] = "fetch"
    /\ EventOf(c) # Malformed
    /\ IF FetchBars(c) = {} \/ Cardinality(FetchBars(c)) < MinBars
       THEN Goto(c, "ack") /\ UNCHANGED latest
       ELSE /\ latest' = [latest EXCEPT ![c] = Max(FetchBars(c))]
            /\ Goto(c, "store")
    /\ UNCHANGED <<terminalVars, ingestVars, stored, partial, job, stream,
                   cursor, pending, computed, rows, todo, lost, faults>>

RowKey(c) == <<EventOf(c).tf, latest[c]>>

\* upsert_feature_row, under the time of the latest bar.
StoreRow(c) ==
    /\ fpc[c] = "store"
    /\ rows' = rows \cup {RowKey(c)}
    /\ Goto(c, "announce")
    /\ UNCHANGED <<terminalVars, ingestVars, stored, partial, job, stream,
                   cursor, pending, computed, todo, latest, lost, faults>>

\* XADD feature.computed
Announce(c) ==
    /\ fpc[c] = "announce"
    /\ computed' = computed \cup
         {[tf |-> EventOf(c).tf, bar |-> latest[c], event |-> EventOf(c).bar]}
    /\ Goto(c, "ack")
    /\ UNCHANGED <<terminalVars, ingestVars, stored, partial, job, stream,
                   cursor, pending, rows, todo, latest, lost, faults>>

Ack(c) ==
    /\ fpc[c] = "ack"
    /\ pending' = [pending EXCEPT ![Current(c)] = 0]
    /\ NextEntry(c)
    /\ UNCHANGED <<terminalVars, ingestVars, stored, partial, job, stream,
                   cursor, computed, rows, latest, lost, faults>>

\* process_bar_event fails: the entry stays pending, or is dead-lettered after
\* MAX_DELIVERIES, which fails as above.
ProcessingFails(c) ==
    /\ Fault
    /\ fpc[c] \in {"fetch", "store", "announce"}
    /\ EventOf(c) # Malformed
    /\ IF pending[Current(c)] >= MaxDeliveries
       THEN Goto(c, "dead") /\ UNCHANGED todo
       ELSE NextEntry(c)
    /\ UNCHANGED <<terminalVars, ingestVars, stored, partial, job, stream,
                   cursor, pending, computed, rows, latest, lost>>

\* Redis fails in xpending or xack: neither is guarded, the task ends.
ConsumerDies(c) ==
    /\ Fault
    /\ fpc[c] \in {"fetch", "ack"}
    /\ Goto(c, "dead")
    /\ UNCHANGED <<terminalVars, ingestVars, stored, partial, job, stream,
                   cursor, pending, computed, rows, todo, latest, lost>>

\* The container restarts under a new consumer name.
RestartConsumer(c) ==
    /\ fpc[c] = "dead"
    /\ Goto(c, "read")
    /\ todo' = [todo EXCEPT ![c] = <<>>]
    /\ UNCHANGED <<terminalVars, ingestVars, stored, partial, job, stream,
                   cursor, pending, computed, rows, latest, lost, faults>>

\* The group is gone and created again at the start of the stream.
RecreateGroup ==
    /\ Fault
    /\ cursor > 0
    /\ cursor' = 0
    /\ pending' = [i \in DOMAIN pending |-> 0]
    /\ UNCHANGED <<terminalVars, ingestVars, stored, partial, job, stream,
                   computed, rows, fpc, todo, latest, lost>>

-----------------------------------------------------------------------------
Ingest      == Connect \/ Poll \/ Upsert \/ Publish
Backfill(j) == FetchPage(j) \/ StorePage(j)
Handle(c)   == \/ DeadLetterMalformed(c) \/ Fetch(c) \/ StoreRow(c) \/ Announce(c)
               \/ Ack(c)
Consumer(c) == Read(c) \/ Handle(c)

Next ==
    \/ \E t \in Timeframes : BarCloses(t)
    \/ TerminalRestarts
    \/ Ingest
    \/ RestartDataService
    \/ \E j \in Jobs, t \in Timeframes : TriggerBackfill(j, t) \/ RunBackfill(j, t)
    \/ \E t \in Timeframes : SeedFeatures(t)
    \/ \E j \in Jobs : Backfill(j)
    \/ AddMalformed
    \/ \E c \in Consumers : \/ Consumer(c) \/ ProcessingFails(c)
                            \/ ConsumerDies(c) \/ RestartConsumer(c)
    \/ RecreateGroup

\* The loops run; nobody has to restart anything.
Fairness ==
    /\ WF_vars(Ingest)
    /\ \A j \in Jobs : WF_vars(Backfill(j))
    /\ \A c \in Consumers : WF_vars(Consumer(c))

Spec == Init /\ [][Next]_vars /\ Fairness

-----------------------------------------------------------------------------
Published(t) == {b \in Bars : [tf |-> t, bar |-> b] \in Range(stream)}
Waiting(t)   == IF at = t THEN fresh ELSE {}

\* The filter marks a bar as seen before it is stored and published: it is in
\* the table and in the stream, or on its way there, or a failed cycle lost it.
SeenBarsAreForwarded ==
    \A t \in Timeframes : \A b \in 1 .. lastSeen[t] :
        b \in (stored[t] \cap Published(t)) \cup Waiting(t) \cup lost[t]

\* What is announced can be read: cycle stores the bars before it publishes.
PublishedBarsAreStored == \A t \in Timeframes : Published(t) \subseteq stored[t]

\* Features announced for an event are computed from a window that reaches the
\* event's bar, however late the event is handled.
FeaturesReachTheEvent == \A f \in computed : f.bar >= f.event

\* Whatever is announced on feature.computed has its row in features.
AnnouncedFeaturesHaveRows == \A f \in computed : <<f.tf, f.bar>> \in rows

\* A page may overlap the one before, because bars close meanwhile, but between
\* the newest and the oldest bar of a backfill nothing is missing.
BackfillHasNoHoles ==
    \A j \in Jobs : job[j].low .. job[j].newest \subseteq stored[job[j].tf]

\* Entries the group has handed out, that nobody has acknowledged and that no
\* consumer holds: nothing reads them again.
Stranded == {i \in 1 .. cursor : pending[i] > 0 /\ \A c \in Consumers : i \notin Range(todo[c])}

\* A bar whose event was delivered is handled, held by a consumer, or one of at
\* most a batch for each failure: a failing or poisonous entry may take the rest
\* of its batch with it, and no more.
StrandedBounded == Cardinality(Stranded) <= BatchSize * faults

\* consumer.py:5-6 promises more than the code does: "Transient processing
\* failures stay PENDING for redelivery", up to MAX_DELIVERIES.  No consumer asks
\* for a pending entry, so none is delivered again: this is that shortcoming, and
\* no run counts it as a virtue.
DeliveredOnce == \A i \in DOMAIN pending : pending[i] <= 1

\* No features from less history than the indicators need, whoever writes them:
\* the service that checks its window, or the script that skips the first bars.
FeaturesHaveHistory ==
    \A r \in rows : Cardinality({b \in stored[r[1]] : b <= r[2]}) >= Min({MinBars, WarmUp + 2})

\* What is announced can be relied on: bars are in the table before their event,
\* features in theirs, as new as the event and out of enough history.
AnnouncementsHold ==
    /\ PublishedBarsAreStored /\ AnnouncedFeaturesHaveRows
    /\ FeaturesReachTheEvent /\ FeaturesHaveHistory

\* upsert_bars: "Bulk-insert closed bars idempotently" (db.py:86).
OhlcvHoldsClosedBars ==
    \A t \in Timeframes : \A b \in partial[t] : b > closed[t]

Handled(t, b) == \E i \in 1 .. cursor : /\ stream[i] = [tf |-> t, bar |-> b]
                                        /\ pending[i] = 0

\* Unless something fails, every bar that closes is stored, and its event is
\* handled: once MinBars bars have been forwarded, a row as new as the bar is in
\* the features table.
EveryBarGetsFeatures ==
    \/ <>(faults > 0)
    \/ \A t \in Timeframes : \A b \in FirstClosed + 1 .. MaxClosed :
         closed[t] >= b ~>
            /\ b \in stored[t]
            /\ Handled(t, b)
            /\ Cardinality({x \in Published(t) : x <= b}) >= MinBars =>
                 \E r \in rows : r[1] = t /\ r[2] >= b
=============================================================================
