------------------------------- MODULE Notify -------------------------------
(***************************************************************************)
(* notify-service (consumer.py, lifecycle.py, telegram.py): one task reads *)
(* the five streams of a signal's life, writes an audit_log row for every  *)
(* event and sends the trader an alert.                                    *)
(*                                                                         *)
(* The i-th entry of stream s is the event <<s, i>>.  Streams only grow; a *)
(* group is a cursor per stream and the set of acknowledged entries.  What *)
(* was delivered and neither acknowledged nor in the current batch stays   *)
(* pending: nothing reads it again.  dropped and overtaken only record what *)
(* happened, no action reads them.                                         *)
(***************************************************************************)
EXTENDS Naturals, Sequences, FiniteSets, SequencesExt

CONSTANTS
    Count,      \* count= of the XREADGROUP call, per stream
    Published,  \* bound: entries of each stream
    AlertRejections, \* the setting alert_rejections
    MaxFaults   \* bound: deaths, lost replies, failed inserts and
                \* acknowledgements, lost groups

\* The tuple STREAMS; XREADGROUP answers in this order.
STREAMS == <<"signal.generated", "signal.rejected",
             "order.filled", "order.rejected", "order.closed">>

ASSUME NotifyAssumption ==
    /\ Count \in Nat \ {0} /\ MaxFaults \in Nat /\ AlertRejections \in BOOLEAN
    /\ Published \in [ToSet(STREAMS) -> Nat]

VARIABLES
    log,        \* per stream, its entries: of order.closed the fill that is closed
    groups,     \* streams that have the group
    cursor,     \* per stream, the last entry delivered
    acked,
    batch,      \* events read and not yet acknowledged
    pc,         \* where the task is; "ended": by an exception, the service still up
    audited,    \* events with a row in audit_log
    unaudited,  \* events whose insert failed
    alerts,     \* how often the trader was told of an event
    dropped,    \* events ever read in a batch that was given up
    overtaken,  \* closes ever read by a call that could not reach their fill
    faults, rewinds

history == <<dropped, overtaken>>

vars == <<log, groups, cursor, acked, batch, pc, audited, unaudited, alerts,
          history, faults, rewinds>>

Streams   == ToSet(STREAMS)
Event     == UNION {{s} \X (1 .. Published[s]) : s \in Streams}
Delivered == {e \in Event : e[2] <= cursor[e[1]]}
Lost      == (Delivered \ acked) \ ToSet(batch)

TypeOK ==
    /\ log \in [Streams -> Seq(Nat)]
    /\ groups \subseteq Streams
    /\ \A s \in Streams : cursor[s] \in 0 .. Len(log[s])
    /\ acked \subseteq Delivered
    /\ ToSet(batch) \subseteq Delivered \ acked
    /\ IsInjective(batch) /\ Len(batch) <= Count * Len(STREAMS)
    /\ pc \in {"drain", "handle", "record", "alert", "ack", "ended", "dead"}
    /\ (batch = <<>>) <=> (pc \in {"drain", "ended", "dead"})
    /\ audited \cup unaudited \subseteq Event
    /\ alerts \in [Event -> Nat]
    /\ dropped \cup overtaken \subseteq Event
    /\ faults + rewinds \in 0 .. MaxFaults

Init ==
    /\ log = [s \in Streams |-> <<>>]
    /\ groups = Streams
    /\ cursor = [s \in Streams |-> 0]
    /\ acked = {} /\ batch = <<>> /\ pc = "drain"
    /\ audited = {} /\ unaudited = {}
    /\ alerts = [e \in Event |-> 0]
    /\ dropped = {} /\ overtaken = {}
    /\ faults = 0 /\ rewinds = 0

Fault == faults + rewinds < MaxFaults /\ faults' = faults + 1 /\ UNCHANGED rewinds
NoFault == UNCHANGED <<faults, rewinds>>

-----------------------------------------------------------------------------
(* The publishers and Redis                                                 *)

Closable == {k \in DOMAIN log["order.filled"] :
               \A i \in DOMAIN log["order.closed"] : log["order.closed"][i] # k}

Publish(s) ==
    /\ Len(log[s]) < Published[s]
    /\ \E k \in IF s = "order.closed" THEN Closable ELSE {0} :
         log' = [log EXCEPT ![s] = Append(@, k)]
    /\ UNCHANGED <<groups, cursor, acked, batch, pc, audited, unaudited, alerts, history>>
    /\ NoFault

LoseGroup(s) ==
    /\ faults + rewinds < MaxFaults /\ rewinds' = rewinds + 1
    /\ s \in groups
    /\ groups' = groups \ {s}
    /\ UNCHANGED <<log, cursor, acked, batch, pc, audited, unaudited, alerts, history,
                   faults>>

-----------------------------------------------------------------------------
(* The task                                                                 *)

\* XREADGROUP with ">" on every stream: what each holds beyond its cursor.
ReadTo(s) == IF Len(log[s]) < cursor[s] + Count THEN Len(log[s]) ELSE cursor[s] + Count

NewOf(s)  == [k \in 1 .. ReadTo(s) - cursor[s] |-> <<s, cursor[s] + k>>]

\* Mutant: the streams answer in the order of the trades' end.
Batch_Reversed == NewOf(STREAMS[5]) \o NewOf(STREAMS[4]) \o NewOf(STREAMS[3])
                    \o NewOf(STREAMS[2]) \o NewOf(STREAMS[1])

Batch     == NewOf(STREAMS[1]) \o NewOf(STREAMS[2]) \o NewOf(STREAMS[3])
               \o NewOf(STREAMS[4]) \o NewOf(STREAMS[5])

\* Redis moves the cursors and answers with the batch.
Deliver ==
    /\ pc = "drain"
    /\ groups = Streams
    /\ Batch # <<>>
    /\ cursor' = [s \in Streams |-> ReadTo(s)]

\* Closes of this call whose fill lies beyond what the call reads of the fills.
Overtaking == {e \in ToSet(Batch) : /\ e[1] = "order.closed"
                                    /\ log[e[1]][e[2]] > ReadTo("order.filled")}

Drain ==
    /\ Deliver
    /\ batch' = Batch
    /\ pc' = "handle"
    /\ overtaken' = overtaken \cup Overtaking
    /\ UNCHANGED <<log, groups, acked, audited, unaudited, alerts, dropped>>
    /\ NoFault

\* The reply is lost: drain logs "xreadgroup failed; retrying" and calls again.
DeliveryLost ==
    /\ Deliver
    /\ Fault
    /\ dropped' = dropped \cup ToSet(Batch)
    /\ UNCHANGED <<log, groups, acked, batch, pc, audited, unaudited, alerts, overtaken>>

\* Mutant: NOGROUP is logged and the call repeated.
EnsureGroups_Retries ==
    /\ pc = "drain"
    /\ groups # Streams
    /\ UNCHANGED vars

\* A stream without the group fails the whole call with NOGROUP; the group is
\* made at the stream's beginning.  An existing one is BUSYGROUP and is kept.
EnsureGroups ==
    /\ pc = "drain"
    /\ groups # Streams
    /\ groups' = Streams
    /\ cursor' = [s \in Streams |-> IF s \in groups THEN cursor[s] ELSE 0]
    /\ acked' = {e \in acked : e[1] \in groups}
    /\ UNCHANGED <<log, batch, pc, audited, unaudited, alerts, history>>
    /\ NoFault

Stream == Head(batch)[1]

\* Does the entry name its subject?  signal.generated carries the signal as one
\* blob under the key "signal", with neither a signal_id nor an idempotency_key.
HasSubject(s) == s # "signal.generated"

\* The task is gone, and what it had read stays pending.
GiveUp == batch' = <<>> /\ dropped' = dropped \cup ToSet(batch)

\* Without a subject message_id.decode() is called, on a str (the client is made
\* with decode_responses): the AttributeError leaves _handle, drain and the task.
Handle ==
    /\ pc = "handle"
    /\ IF HasSubject(Stream)
       THEN pc' = "record" /\ UNCHANGED <<batch, dropped>>
       ELSE pc' = "ended" /\ GiveUp
    /\ UNCHANGED <<log, groups, cursor, acked, audited, unaudited, alerts, overtaken>>
    /\ NoFault

Alerting(s) == s = "signal.rejected" => AlertRejections

\* Mutant: a muted rejection returns before the lifecycle record is written.
Record_NotMuted ==
    /\ pc = "record"
    /\ \/ /\ audited' = IF Alerting(Stream) THEN audited \cup {Head(batch)} ELSE audited
          /\ NoFault /\ UNCHANGED unaudited
       \/ unaudited' = unaudited \cup {Head(batch)} /\ Fault /\ UNCHANGED audited
    /\ pc' = IF Alerting(Stream) THEN "alert" ELSE "ack"
    /\ UNCHANGED <<log, groups, cursor, acked, batch, alerts, history>>

\* A psycopg.Error is logged and swallowed.
Record ==
    /\ pc = "record"
    /\ \/ audited' = audited \cup {Head(batch)} /\ NoFault /\ UNCHANGED unaudited
       \/ unaudited' = unaudited \cup {Head(batch)} /\ Fault /\ UNCHANGED audited
    /\ pc' = IF Alerting(Stream) THEN "alert" ELSE "ack"
    /\ UNCHANGED <<log, groups, cursor, acked, batch, alerts, history>>

\* send() posts nothing without a complete token and swallows an httpx.HTTPError:
\* the message may or may not have arrived.
Alert ==
    /\ pc = "alert"
    /\ \/ UNCHANGED alerts
       \/ alerts' = [alerts EXCEPT ![Head(batch)] = @ + 1]
    /\ pc' = "ack"
    /\ UNCHANGED <<log, groups, cursor, acked, batch, audited, unaudited, history>>
    /\ NoFault

Ack ==
    /\ pc = "ack"
    /\ acked' = IF Stream \in groups THEN acked \cup {Head(batch)} ELSE acked
    /\ batch' = Tail(batch)
    /\ pc' = IF Len(batch) = 1 THEN "drain" ELSE "handle"
    /\ UNCHANGED <<log, groups, cursor, audited, unaudited, alerts, history>>
    /\ NoFault

\* Nothing catches an error of XACK.
AckFails ==
    /\ pc = "ack"
    /\ Fault
    /\ pc' = "ended" /\ GiveUp
    /\ UNCHANGED <<log, groups, cursor, acked, audited, unaudited, alerts, overtaken>>

Die ==
    /\ pc # "dead"
    /\ Fault
    /\ pc' = "dead" /\ GiveUp
    /\ UNCHANGED <<log, groups, cursor, acked, audited, unaudited, alerts, overtaken>>

\* Mutant: a restarted task begins with the pending entries of its name.
Restart_Pending ==
    /\ pc = "dead"
    /\ batch' = SetToSeq(Lost)
    /\ pc' = IF Lost = {} THEN "drain" ELSE "handle"
    /\ UNCHANGED <<log, groups, cursor, acked, audited, unaudited, alerts, history>>
    /\ NoFault

\* run_forever makes the groups first; a failure there would end the task.
Restart ==
    /\ pc = "dead"
    /\ pc' = "drain"
    /\ groups' = Streams
    /\ cursor' = [s \in Streams |-> IF s \in groups THEN cursor[s] ELSE 0]
    /\ acked' = {e \in acked : e[1] \in groups}
    /\ UNCHANGED <<log, batch, audited, unaudited, alerts, history>>
    /\ NoFault

-----------------------------------------------------------------------------

Task == Drain \/ EnsureGroups \/ Handle \/ Record \/ Alert \/ Ack

Next ==
    \/ \E s \in Streams : Publish(s) \/ LoseGroup(s)
    \/ Task \/ DeliveryLost \/ AckFails \/ Die \/ Restart

Spec == Init /\ [][Next]_vars

\* The loop runs while its process does, and compose restarts the process.
FairSpec == Spec /\ WF_vars(Task) /\ WF_vars(Restart)

-----------------------------------------------------------------------------

\* The trader is told of an event once, and once more for every time its group
\* was made anew: neither a restart nor a pending entry brings it back.  The
\* audit row was written before, or its insert has failed.
AlertedOnce ==
    \A e \in Event : /\ alerts[e] <= 1 + rewinds
                     /\ alerts[e] > 0 => e \in audited \cup unaudited

\* "The audit trail is the source of truth" (consumer.py): every event Redis has
\* handed out has its row, unless the insert failed, the batch is still in hand or
\* was given up; and a failure gives up one batch at most, the entry that ends the
\* task included.  Nothing is acknowledged without its row having been tried.
AuditIsComplete ==
    /\ Delivered \subseteq audited \cup unaudited \cup dropped \cup ToSet(batch)
    /\ acked \subseteq audited \cup unaudited
    /\ Cardinality(dropped)
         <= (faults + IF pc = "ended" THEN 1 ELSE 0) * (Count * Len(STREAMS))

\* The trail tells of a fill before it tells of the close of that position.  The
\* exceptions are the fill whose own insert failed or whose batch was given up,
\* and the close read by a call that found more fills waiting than it could take.
FilledBeforeClosed ==
    \A i \in DOMAIN log["order.closed"] :
        <<"order.closed", i>> \in audited \ overtaken =>
            <<"order.filled", log["order.closed"][i]>> \in audited \cup unaudited \cup dropped

\* "signal.generated -> telegram + audit" (consumer.py): every signal that is
\* generated gets its row, or has its insert fail.
SignalsAreRecorded ==
    \A i \in 1 .. Published["signal.generated"] :
        (i <= Len(log["signal.generated"]))
            ~> <<"signal.generated", i>> \in audited \cup unaudited

\* Unless its task has ended, the service acknowledges every event that was not
\* lost with an earlier task: also the muted ones and those it could not audit.
EventsAreSettled ==
    \A e \in Event :
        (e[2] <= Len(log[e[1]])) ~> (pc = "ended" \/ e \in acked \cup Lost)

=============================================================================
