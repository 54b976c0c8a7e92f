--------------------------- MODULE OrderExecution ---------------------------
(***************************************************************************)
(* services/execution-service: the workers of the "execution-service"      *)
(* consumer group that turn order.request entries into broker orders.      *)
(*                                                                         *)
(* A worker reads a batch with XREADGROUP ">" and handles its entries one  *)
(* at a time.  Every await of ExecutionConsumer._handle is a step of its   *)
(* own, so the steps of several workers (two containers, or a container    *)
(* and the one-shot runner consumer_once.py) interleave freely, and a      *)
(* worker can die between any two of them.  Nothing reads the pending      *)
(* entries list again: an entry whose worker died stays there.             *)
(*                                                                         *)
(* An entry is abstracted to the idempotency key of its order, or NoOrder  *)
(* when _parse_order returns None.                                         *)
(***************************************************************************)
EXTENDS Naturals, Sequences, FiniteSets

CONSTANTS
    Consumers,          \* worker processes, each with its own consumer name
    Keys,               \* idempotency keys
    NoOrder,            \* Python's None: what a malformed entry parses to
    BatchSize,          \* count= of the XREADGROUP call
    MaxAttempts,        \* MAX_ATTEMPTS of mt5_executor.py
    DryRunners,         \* workers whose settings.dry_run_mode is on
    BrokerMayLoseReply, \* may order_send fail to report a deal it made?
    MaxEntries,         \* bound: entries ever added to order.request
    MaxCrashes,         \* bound: workers killed or cancelled, and batches lost
    MaxRedisFaults      \* bound: group losses and rewinds of the Redis data

ASSUME ConstantsAssumption ==
    /\ NoOrder \notin Keys
    /\ BatchSize \in Nat \ {0}
    /\ MaxAttempts \in Nat \ {0}
    /\ DryRunners \subseteq Consumers
    /\ BrokerMayLoseReply \in BOOLEAN
    /\ MaxEntries \in Nat
    /\ MaxCrashes \in Nat
    /\ MaxRedisFaults \in Nat

VARIABLES
    \* Redis
    stream,         \* order.request; an entry's id is its position
    group,          \* does the consumer group exist?
    cursor,         \* the group's last-delivered-id
    pel,            \* ids delivered and not acknowledged
    cached,         \* keys with a result:order:<key> value
    \* Postgres
    trade,          \* status of the trades row of each key, "absent" if none
    audited,        \* keys with an audit_log row
    \* the workers
    pc,             \* the await each worker is about to perform
    at,             \* id of the entry being handled
    last,           \* id of the last entry of the batch
    order,          \* the parsed order
    attempts,       \* local of MT5Executor.execute
    outcome,        \* what execute returned
    \* the broker and what left the service
    orderSends,     \* order_send calls made for each key, ever
    deals,          \* deals the broker made for each key
    filledEvents,   \* order.filled entries published
    rejectedEvents, \* order.rejected entries published
    \* environment
    crashes, redisFaults

redisVars  == <<stream, group, cursor, pel, cached>>
dbVars     == <<trade, audited>>
batchVars  == <<at, last>>
localVars  == <<order, attempts, outcome>>
brokerVars == <<orderSends, deals>>
eventVars  == <<filledEvents, rejectedEvents>>
faultVars  == <<crashes, redisFaults>>

vars == <<redisVars, dbVars, pc, batchVars, localVars, brokerVars, eventVars,
          faultVars>>

-----------------------------------------------------------------------------
Entry   == Keys \cup {NoOrder}
Status  == {"absent", "pending", "filled", "rejected"}
Settled == {"filled", "rejected"}
Outcome == {"none", "accepted", "rejected"}

\* Where a worker can be; "abandoned" is a worker whose task was cancelled at
\* shutdown while the executor thread it waited for runs on.
PC == {"down", "poll", "handle", "claim", "send", "abandoned", "record",
       "publish", "cache", "audit", "ack"}

TypeOK ==
    /\ stream \in Seq(Entry)
    /\ group \in BOOLEAN
    /\ cursor \in 0 .. Len(stream)
    /\ pel \subseteq 1 .. Len(stream)
    /\ cached \subseteq Keys
    /\ trade \in [Keys -> Status]
    /\ audited \subseteq Keys
    /\ pc \in [Consumers -> PC]
    /\ at \in [Consumers -> Nat]
    /\ last \in [Consumers -> Nat]
    /\ order \in [Consumers -> Entry]
    /\ attempts \in [Consumers -> 0 .. MaxAttempts]
    /\ outcome \in [Consumers -> Outcome]
    /\ orderSends \in [Keys -> Nat]
    /\ deals \in [Keys -> Nat]
    /\ filledEvents \in [Keys -> Nat]
    /\ rejectedEvents \in [Keys -> Nat]
    /\ crashes \in Nat
    /\ redisFaults \in Nat

Init ==
    /\ stream = <<>>
    /\ group = FALSE
    /\ cursor = 0
    /\ pel = {}
    /\ cached = {}
    /\ trade = [k \in Keys |-> "absent"]
    /\ audited = {}
    /\ pc = [c \in Consumers |-> "down"]
    /\ at = [c \in Consumers |-> 0]
    /\ last = [c \in Consumers |-> 0]
    /\ order = [c \in Consumers |-> NoOrder]
    /\ attempts = [c \in Consumers |-> 0]
    /\ outcome = [c \in Consumers |-> "none"]
    /\ orderSends = [k \in Keys |-> 0]
    /\ deals = [k \in Keys |-> 0]
    /\ filledEvents = [k \in Keys |-> 0]
    /\ rejectedEvents = [k \in Keys |-> 0]
    /\ crashes = 0
    /\ redisFaults = 0

Goto(c, label) == pc' = [pc EXCEPT ![c] = label]

-----------------------------------------------------------------------------
(* The producer: risk-service appends an intent.  It may append the same    *)
(* key again, and other tools may append entries that do not parse.         *)
Submit(e) ==
    /\ Len(stream) < MaxEntries
    /\ stream' = Append(stream, e)
    /\ UNCHANGED <<group, cursor, pel, cached, dbVars, pc, batchVars, localVars,
                   brokerVars, eventVars, faultVars>>

-----------------------------------------------------------------------------
(* The consumer group                                                       *)

\* Mutant: id="$", a new group starts at the end of the stream.
EnsureGroup_FromNow ==
    /\ group' = TRUE
    /\ cursor' = IF group THEN cursor ELSE Len(stream)
    /\ UNCHANGED <<stream, pel, cached>>

\* XGROUP CREATE id="0": BUSYGROUP is ignored, a new group starts at the
\* beginning of the stream.
EnsureGroup ==
    /\ group' = TRUE
    /\ cursor' = IF group THEN cursor ELSE 0
    /\ UNCHANGED <<stream, pel, cached>>

\* The process (re)starts and its consumer task enters run_forever.
Start(c) ==
    /\ pc[c] = "down"
    /\ EnsureGroup
    /\ Goto(c, "poll")
    /\ UNCHANGED <<dbVars, batchVars, localVars, brokerVars, eventVars, faultVars>>

\* XREADGROUP answered NOGROUP.
RecreateGroup(c) ==
    /\ pc[c] = "poll"
    /\ ~group
    /\ EnsureGroup
    /\ UNCHANGED <<dbVars, pc, batchVars, localVars, brokerVars, eventVars, faultVars>>

\* Mutant: XREADGROUP with NOACK, nothing enters the pending entries list.
Deliver_NoAck ==
    /\ group
    /\ cursor < Len(stream)
    /\ cursor' = IF cursor + BatchSize < Len(stream) THEN cursor + BatchSize
                                                     ELSE Len(stream)
    /\ UNCHANGED <<stream, group, pel, cached>>

\* XREADGROUP ">" delivers what the group has not seen, up to BatchSize.
Deliver ==
    /\ group
    /\ cursor < Len(stream)
    /\ cursor' = IF cursor + BatchSize < Len(stream) THEN cursor + BatchSize
                                                     ELSE Len(stream)
    /\ pel' = pel \cup (cursor + 1 .. cursor')
    /\ UNCHANGED <<stream, group, cached>>

Drain(c) ==
    /\ pc[c] = "poll"
    /\ Deliver
    /\ at' = [at EXCEPT ![c] = cursor + 1]
    /\ last' = [last EXCEPT ![c] = cursor']
    /\ Goto(c, "handle")
    /\ UNCHANGED <<dbVars, localVars, brokerVars, eventVars, faultVars>>

-----------------------------------------------------------------------------
(* ExecutionConsumer._handle                                                *)

DropMalformed(c) ==
    /\ pc[c] = "handle"
    /\ stream[at[c]] = NoOrder
    /\ Goto(c, "ack")
    /\ UNCHANGED <<redisVars, dbVars, batchVars, localVars, brokerVars, eventVars,
                   faultVars>>

\* Idempotency fast-path: the terminal outcome is in Redis.
SuppressCached(c) ==
    /\ pc[c] = "handle"
    /\ stream[at[c]] \in cached
    /\ Goto(c, "ack")
    /\ UNCHANGED <<redisVars, dbVars, batchVars, localVars, brokerVars, eventVars,
                   faultVars>>

\* Mutant: SET NX as a lock before the order is executed.
MissCache_MarksEarly(c) ==
    /\ pc[c] = "handle"
    /\ stream[at[c]] \in Keys \ cached
    /\ cached' = cached \cup {stream[at[c]]}
    /\ order' = [order EXCEPT ![c] = stream[at[c]]]
    /\ Goto(c, "claim")
    /\ UNCHANGED <<stream, group, cursor, pel, dbVars, batchVars, attempts, outcome,
                   brokerVars, eventVars, faultVars>>

MissCache(c) ==
    /\ pc[c] = "handle"
    /\ stream[at[c]] \in Keys \ cached
    /\ order' = [order EXCEPT ![c] = stream[at[c]]]
    /\ Goto(c, "claim")
    /\ UNCHANGED <<redisVars, dbVars, batchVars, attempts, outcome, brokerVars,
                   eventVars, faultVars>>

\* Mutant: ON CONFLICT DO UPDATE, every worker believes it claimed the key.
InsertPending_Upsert(c) ==
    /\ pc[c] = "claim"
    /\ trade' = [trade EXCEPT ![order[c]] = "pending"]
    /\ attempts' = [attempts EXCEPT ![c] = 0]
    /\ Goto(c, "send")
    /\ UNCHANGED <<redisVars, audited, batchVars, order, outcome, brokerVars,
                   eventVars, faultVars>>

\* INSERT ... ON CONFLICT DO NOTHING inserted the row: this worker executes.
InsertPending(c) ==
    /\ pc[c] = "claim"
    /\ trade[order[c]] = "absent"
    /\ trade' = [trade EXCEPT ![order[c]] = "pending"]
    /\ attempts' = [attempts EXCEPT ![c] = 0]
    /\ Goto(c, "send")
    /\ UNCHANGED <<redisVars, audited, batchVars, order, outcome, brokerVars,
                   eventVars, faultVars>>

\* The row was there already: ACK without touching the broker.
SuppressClaimed(c) ==
    /\ pc[c] = "claim"
    /\ trade[order[c]] # "absent"
    /\ Goto(c, "ack")
    /\ UNCHANGED <<redisVars, dbVars, batchVars, localVars, brokerVars, eventVars,
                   faultVars>>

\* execute returns: to its worker, or to nobody when the worker was cancelled.
ReturnOutcome(c, res) ==
    \/ /\ pc[c] = "send"
       /\ Goto(c, "record")
       /\ outcome' = [outcome EXCEPT ![c] = res]
       /\ UNCHANGED <<batchVars, order>>
    \/ /\ pc[c] = "abandoned"
       /\ Goto(c, "down")
       /\ order' = [order EXCEPT ![c] = NoOrder]
       /\ at' = [at EXCEPT ![c] = 0]
       /\ last' = [last EXCEPT ![c] = 0]
       /\ UNCHANGED outcome

\* Mutant: the last reply is taken for a fill when the attempts are used up.
RetryOrGiveUp_AsAccepted(c) ==
    IF attempts[c] + 1 < MaxAttempts
    THEN UNCHANGED <<pc, outcome, batchVars, order>>
    ELSE ReturnOutcome(c, "accepted")

\* The attempt is over without a deal being reported: back off and try again,
\* or give up with RETRY_EXHAUSTED after the last one.
RetryOrGiveUp(c) ==
    IF attempts[c] + 1 < MaxAttempts
    THEN UNCHANGED <<pc, outcome, batchVars, order>>
    ELSE ReturnOutcome(c, "rejected")

DealMade(c)   == deals' = [deals EXCEPT ![order[c]] = @ + 1]
NoDealMade(c) == UNCHANGED deals

\* One order_send call and the classification of its answer.
OrderSend(c) ==
    /\ c \notin DryRunners
    /\ pc[c] \in {"send", "abandoned"}
    /\ attempts[c] < MaxAttempts
    /\ attempts' = [attempts EXCEPT ![c] = @ + 1]
    /\ orderSends' = [orderSends EXCEPT ![order[c]] = @ + 1]
    /\ \/ DealMade(c) /\ ReturnOutcome(c, "accepted")    \* DONE, DONE_PARTIAL
       \/ NoDealMade(c) /\ ReturnOutcome(c, "rejected")  \* not retryable
       \/ NoDealMade(c) /\ RetryOrGiveUp(c)              \* retryable, or None
       \/ BrokerMayLoseReply /\ DealMade(c) /\ RetryOrGiveUp(c)
    /\ UNCHANGED <<redisVars, dbVars, eventVars, faultVars>>

\* Dry run: a simulated fill, order_send is not called.  Every process reads its
\* own settings, so a dry and a live worker may share the group.
DryRunFill(c) ==
    /\ c \in DryRunners
    /\ ReturnOutcome(c, "accepted")
    /\ UNCHANGED <<redisVars, dbVars, attempts, brokerVars, eventVars, faultVars>>

ResultStatus(c) == IF outcome[c] = "accepted" THEN "filled" ELSE "rejected"

\* Mutant: a rejection that used up its attempts is left open to be sent again.
SetStatus_Reopens(c) ==
    /\ pc[c] = "record"
    /\ trade' = [trade EXCEPT ![order[c]] =
                   IF attempts[c] = MaxAttempts /\ outcome[c] = "rejected"
                   THEN "absent" ELSE ResultStatus(c)]
    /\ Goto(c, "publish")
    /\ UNCHANGED <<redisVars, audited, batchVars, localVars, brokerVars, eventVars,
                   faultVars>>

\* UPDATE trades ... WHERE idempotency_key: whatever the row's status was.
SetStatus(c) ==
    /\ pc[c] = "record"
    /\ trade' = [trade EXCEPT ![order[c]] = ResultStatus(c)]
    /\ Goto(c, "publish")
    /\ UNCHANGED <<redisVars, audited, batchVars, localVars, brokerVars, eventVars,
                   faultVars>>

\* Mutant: only a fill is announced.
Publish_FillsOnly(c) ==
    /\ pc[c] = "publish"
    /\ filledEvents' = [filledEvents EXCEPT ![order[c]] =
                          @ + (IF outcome[c] = "accepted" THEN 1 ELSE 0)]
    /\ Goto(c, "cache")
    /\ UNCHANGED <<rejectedEvents, redisVars, dbVars, batchVars, localVars, brokerVars,
                   faultVars>>

Publish(c) ==
    /\ pc[c] = "publish"
    /\ IF outcome[c] = "accepted"
       THEN /\ filledEvents' = [filledEvents EXCEPT ![order[c]] = @ + 1]
            /\ UNCHANGED rejectedEvents
       ELSE /\ rejectedEvents' = [rejectedEvents EXCEPT ![order[c]] = @ + 1]
            /\ UNCHANGED filledEvents
    /\ Goto(c, "cache")
    /\ UNCHANGED <<redisVars, dbVars, batchVars, localVars, brokerVars, faultVars>>

CacheResult(c) ==
    /\ pc[c] = "cache"
    /\ cached' = cached \cup {order[c]}
    /\ Goto(c, "audit")
    /\ UNCHANGED <<stream, group, cursor, pel, dbVars, batchVars, localVars,
                   brokerVars, eventVars, faultVars>>

\* A database error while auditing is logged and swallowed.
Audit(c) ==
    /\ pc[c] = "audit"
    /\ audited' \in {audited, audited \cup {order[c]}}
    /\ Goto(c, "ack")
    /\ UNCHANGED <<redisVars, trade, batchVars, localVars, brokerVars, eventVars,
                   faultVars>>

ClearLocals(c) ==
    /\ order' = [order EXCEPT ![c] = NoOrder]
    /\ attempts' = [attempts EXCEPT ![c] = 0]
    /\ outcome' = [outcome EXCEPT ![c] = "none"]

\* XACK, then the next entry of the batch or the next poll.
Ack(c) ==
    /\ pc[c] = "ack"
    /\ pel' = pel \ {at[c]}
    /\ ClearLocals(c)
    /\ IF at[c] < last[c]
       THEN /\ at' = [at EXCEPT ![c] = @ + 1]
            /\ Goto(c, "handle")
            /\ UNCHANGED last
       ELSE /\ at' = [at EXCEPT ![c] = 0]
            /\ last' = [last EXCEPT ![c] = 0]
            /\ Goto(c, "poll")
    /\ UNCHANGED <<stream, group, cursor, cached, dbVars, brokerVars, eventVars,
                   faultVars>>

-----------------------------------------------------------------------------
(* Faults                                                                   *)

\* The process is killed, or an exception leaves _handle or _ack: nothing
\* catches it, the consumer task is gone and the rest of the batch with it.
Crash(c) ==
    /\ pc[c] # "down"
    /\ crashes < MaxCrashes
    /\ crashes' = crashes + 1
    /\ Goto(c, "down")
    /\ ClearLocals(c)
    /\ at' = [at EXCEPT ![c] = 0]
    /\ last' = [last EXCEPT ![c] = 0]
    /\ UNCHANGED <<redisVars, dbVars, brokerVars, eventVars, redisFaults>>

\* The connection breaks after Redis delivered a batch: drain logs "xreadgroup
\* failed; retrying" and polls on, the batch stays in the pending entries list.
DeliveryLost(c) ==
    /\ pc[c] = "poll"
    /\ crashes < MaxCrashes
    /\ crashes' = crashes + 1
    /\ Deliver
    /\ UNCHANGED <<dbVars, pc, batchVars, localVars, brokerVars, eventVars,
                   redisFaults>>

\* Shutdown cancels the task; the thread inside execute cannot be cancelled.
Cancel(c) ==
    /\ pc[c] = "send"
    /\ crashes < MaxCrashes
    /\ crashes' = crashes + 1
    /\ Goto(c, "abandoned")
    /\ UNCHANGED <<redisVars, dbVars, batchVars, localVars, brokerVars, eventVars,
                   redisFaults>>

\* The result value reaches RESULT_TTL_S, or Redis lost it.
CacheExpire(k) ==
    /\ k \in cached
    /\ cached' = cached \ {k}
    /\ UNCHANGED <<stream, group, cursor, pel, dbVars, pc, batchVars, localVars,
                   brokerVars, eventVars, faultVars>>

RedisLosesGroup ==
    /\ group
    /\ redisFaults < MaxRedisFaults
    /\ redisFaults' = redisFaults + 1
    /\ group' = FALSE
    /\ cursor' = 0
    /\ pel' = {}
    /\ UNCHANGED <<stream, cached, dbVars, pc, batchVars, localVars, brokerVars,
                   eventVars, crashes>>

\* Redis restarts from an append-only file flushed every second: the last
\* deliveries and acknowledgements are undone.
RedisRewinds ==
    /\ group
    /\ redisFaults < MaxRedisFaults
    /\ redisFaults' = redisFaults + 1
    /\ \E n \in 0 .. cursor : \E undone \in SUBSET (1 .. n) :
         /\ cursor' = n
         /\ pel' = (pel \cap (1 .. n)) \cup undone
    /\ UNCHANGED <<stream, group, cached, dbVars, pc, batchVars, localVars,
                   brokerVars, eventVars, crashes>>

-----------------------------------------------------------------------------
Handle(c) ==
    \/ DropMalformed(c) \/ SuppressCached(c) \/ MissCache(c)
    \/ InsertPending(c) \/ SuppressClaimed(c)
    \/ OrderSend(c) \/ DryRunFill(c)
    \/ SetStatus(c) \/ Publish(c) \/ CacheResult(c) \/ Audit(c)

Worker(c) ==
    \/ Start(c) \/ RecreateGroup(c) \/ Drain(c) \/ Handle(c) \/ Ack(c)

Environment ==
    \/ \E e \in Entry : Submit(e)
    \/ \E c \in Consumers : Crash(c) \/ DeliveryLost(c) \/ Cancel(c)
    \/ \E k \in Keys : CacheExpire(k)
    \/ RedisLosesGroup
    \/ RedisRewinds

Next ==
    \/ \E c \in Consumers : Worker(c)
    \/ Environment

Spec == Init /\ [][Next]_vars

\* asyncio keeps scheduling a live task, the awaited calls return, and a
\* stopped container is restarted ("restart: unless-stopped").
FairSpec == Spec /\ \A c \in Consumers : WF_vars(Worker(c))

-----------------------------------------------------------------------------
(* Safety                                                                   *)

\* Whatever is duplicated, redelivered, restarted or abandoned, one key costs
\* at most MAX_ATTEMPTS order_send calls in the whole history of the system
\* (consumer.py's two dedupe layers, the attempts loop of execute).
SendsBounded == \A k \in Keys : orderSends[k] <= MaxAttempts

\* One intent opens one position: no key ever gets a second deal, provided the
\* broker never makes a deal without reporting it (retries follow replies only).
SingleDeal == ~BrokerMayLoseReply => \A k \in Keys : deals[k] <= 1

\* order.filled and order.rejected are the outcome of a key, announced once:
\* never both, never twice, and never against the row downstream services read.
OneAnnouncedOutcome ==
    \A k \in Keys :
      /\ filledEvents[k] + rejectedEvents[k] <= 1
      /\ filledEvents[k] = 1 => trade[k] = "filled"
      /\ rejectedEvents[k] = 1 => trade[k] = "rejected"

\* The ledger tells the truth about the broker: a filled row has a deal behind
\* it or is a dry run's and was never sent, a rejected or unclaimed row has no
\* deal, and a group of dry workers never reaches the broker.
LedgerMatchesBroker ==
    \A k \in Keys :
      /\ trade[k] = "filled" /\ deals[k] = 0 => orderSends[k] = 0 /\ DryRunners # {}
      /\ trade[k] = "rejected" /\ ~BrokerMayLoseReply => deals[k] = 0
      /\ trade[k] = "absent" => orderSends[k] = 0
      /\ DryRunners = Consumers => orderSends[k] = 0 /\ deals[k] = 0

\* Orders that were claimed and have no outcome anybody hears of, while no worker
\* is on its way to one: a cancelled worker sends on, but reports to nobody.
Unreported ==
    {k \in Keys :
       /\ trade[k] # "absent"
       /\ filledEvents[k] = 0 /\ rejectedEvents[k] = 0
       /\ \A c \in Consumers :
            pc[c] \in {"send", "record", "publish"} => order[c] # k}

\* A crash between the claim and the report costs the report of one order, that
\* of the entry being handled, and so does a shutdown that leaves the executor
\* thread behind; nothing else keeps a claimed order from being announced.
UnreportedBounded == Cardinality(Unreported) <= crashes

\* The fast path hides a duplicate only behind an outcome that was announced,
\* so a suppressed duplicate never swallows the only report of an order.
CachedOutcomeWasAnnounced ==
    \A k \in cached : filledEvents[k] + rejectedEvents[k] = 1

\* An entry leaves the pending entries list only when its order is claimed in
\* Postgres (or does not parse): an acknowledged order is never forgotten.
AckedOnlyAfterClaim ==
    \A i \in 1 .. cursor :
      i \notin pel => stream[i] = NoOrder \/ trade[stream[i]] # "absent"

\* A row is claimed once and settled once; set_status is an unconditional
\* UPDATE, so only the protocol keeps a late worker from rewriting an outcome.
RowsOnlyAdvance ==
    [][\A k \in Keys :
         /\ trade[k] = "absent" => trade'[k] \in {"absent", "pending"}
         /\ trade[k] = "pending" => trade'[k] # "absent"
         /\ trade[k] \in Settled => trade'[k] = trade[k]]_vars

-----------------------------------------------------------------------------
(* The inductive invariant behind the safety properties                     *)

\* A worker owns the key it claimed from the insert until the audit record.
Owning  == {"send", "abandoned", "record", "publish", "cache", "audit"}
Owns(c) == pc[c] \in Owning

\* The unique key constraint hands every key to one worker at most.
OneOwner ==
    \A c, d \in Consumers :
      Owns(c) /\ Owns(d) /\ order[c] = order[d] => c = d

\* Whoever claims or owns holds a parsed order.
OrderParsed ==
    \A c \in Consumers : pc[c] = "claim" \/ Owns(c) => order[c] \in Keys

\* What a worker knows of its key at each await.
WorkerKnows(c) ==
  LET k == order[c] IN
    /\ pc[c] \in {"send", "abandoned"} =>
         /\ orderSends[k] = attempts[c]
         /\ attempts[c] < MaxAttempts
         /\ c \in DryRunners => attempts[c] = 0
         /\ ~BrokerMayLoseReply => deals[k] = 0
    /\ pc[c] \in {"send", "abandoned", "record"} => trade[k] = "pending"
    /\ pc[c] \in {"record", "publish"} => outcome[c] # "none"
    /\ pc[c] = "record" =>
         /\ outcome[c] = "accepted" /\ c \notin DryRunners => deals[k] >= 1
         /\ outcome[c] = "accepted" /\ c \in DryRunners => orderSends[k] = 0
         /\ outcome[c] = "rejected" /\ ~BrokerMayLoseReply => deals[k] = 0
         /\ outcome[c] = "rejected" \/ c \notin DryRunners => orderSends[k] > 0
    /\ pc[c] \in {"publish", "cache", "audit"} => trade[k] = ResultStatus(c)
    /\ pc[c] = "publish" => filledEvents[k] = 0 /\ rejectedEvents[k] = 0
    /\ pc[c] = "cache" => filledEvents[k] + rejectedEvents[k] = 1

OwnerKnows == \A c \in Consumers : WorkerKnows(c)

\* A key is announced and cached only after its row is settled.
UnsettledIsSilent ==
    \A k \in Keys :
      trade[k] \notin Settled =>
        /\ filledEvents[k] = 0
        /\ rejectedEvents[k] = 0
        /\ k \notin cached

\* A key nobody claimed never reached the broker.
UnclaimedIsUntouched ==
    \A k \in Keys : trade[k] = "absent" => orderSends[k] = 0 /\ deals[k] = 0

ProtocolInv ==
    /\ OneOwner
    /\ OwnerKnows
    /\ UnsettledIsSilent
    /\ UnclaimedIsUntouched
    /\ SendsBounded
    /\ SingleDeal
    /\ OneAnnouncedOutcome
    /\ LedgerMatchesBroker
    /\ CachedOutcomeWasAnnounced

\* An entry whose handler is done: it did not parse or its key has a row.
Claimed(i) == stream[i] = NoOrder \/ trade[stream[i]] # "absent"

\* Where each worker stands in its batch.
InBatch(c) ==
    /\ pc[c] \notin {"down", "poll"} => at[c] \in 1 .. last[c] /\ last[c] <= Len(stream)
    /\ pc[c] = "claim" \/ Owns(c) => order[c] = stream[at[c]]
    /\ pc[c] = "ack" => Claimed(at[c])

BatchInv == \A c \in Consumers : InBatch(c)

AckInv == BatchInv /\ AckedOnlyAfterClaim

IInv == TypeOK /\ OrderParsed /\ ProtocolInv /\ AckInv

-----------------------------------------------------------------------------
(* The abstract ledger this component implements                            *)
Ledger == INSTANCE OrderLedger WITH
            MaySimulate <- DryRunners # {},
            MaySend <- DryRunners # Consumers,
            row <- trade,
            sends <- orderSends,
            announced <- [k \in Keys |-> [filled |-> filledEvents[k],
                                          rejected |-> rejectedEvents[k]]]

\* Every behaviour of the workers, faults included, is one of the ledger.
ImplementsLedger == Ledger!Spec

-----------------------------------------------------------------------------
(* Liveness                                                                 *)
Requested(k) == \E i \in 1 .. Len(stream) : stream[i] = k

OutcomeKnown(k) ==
    /\ trade[k] \in Settled
    /\ filledEvents[k] + rejectedEvents[k] > 0

\* Every order that reaches order.request is settled and announced.
EveryOrderSettles == \A k \in Keys : Requested(k) ~> OutcomeKnown(k)
=============================================================================
