--------------------------- MODULE Reconciliation ---------------------------
(***************************************************************************)
(* services/execution-service: the life of a trade after it was sent.      *)
(*                                                                         *)
(* Three parties write one trades row and look at one broker position      *)
(* without a lock: the worker that records its fill (consumer.py), the     *)
(* 30 s sweep that compares positions with open rows (reconciliation.py),  *)
(* and the manual close route (routes.py).  Every await and every broker   *)
(* call is a step.                                                         *)
(*                                                                         *)
(* A trade is identified with the ticket the broker gives it.  Positions   *)
(* opened by hand are only logged ("ORPHAN MT5 position") and left out.    *)
(***************************************************************************)
EXTENDS Naturals

CONSTANTS
    Trades,        \* trades this system sends, by ticket
    Sweepers,      \* running Reconciler loops
    Requests,      \* concurrent POST /close/{ticket} requests
    NoTrade,       \* no ticket
    Mt5Given,      \* was the Reconciler constructed with mt5=...?
    PartialFills,  \* may the broker fill a close in part?
    MaxFaults      \* bound: failed cycles, lost histories and aged deals

ASSUME ConstantsAssumption ==
    /\ NoTrade \notin Trades
    /\ Mt5Given \in BOOLEAN
    /\ PartialFills \in BOOLEAN
    /\ MaxFaults \in Nat

VARIABLES
    \* the broker
    position,     \* "none" before the deal, then "open", "part" after a close
                  \* filled in part, and "gone"
    outDeals,     \* tickets with a closing deal in the history window
    \* Postgres
    row,          \* "pending", "filled" (closed_at IS NULL) or "closed"
    source,       \* raw_response.source of a closed row
    \* Redis
    closedEvents, \* order.closed entries published, per ticket
    \* each sweep
    sweep,        \* what the sweep does next
    seen,         \* its mt5_tickets
    ghosts,       \* its ghosts still to be treated
    current,      \* the ghost being treated
    \* each manual close request
    request,      \* what the request does next
    target,       \* the ticket of its path
    faults

brokerVars  == <<position, outDeals>>
rowVars     == <<row, source>>
sweepVars   == <<sweep, seen, ghosts, current>>
requestVars == <<request, target>>

vars == <<brokerVars, rowVars, closedEvents, sweepVars, requestVars, faults>>

TypeOK ==
    /\ position \in [Trades -> {"none", "open", "part", "gone"}]
    /\ outDeals \subseteq Trades
    /\ row \in [Trades -> {"pending", "filled", "closed"}]
    /\ source \in [Trades -> {"none", "reconciliation", "manual_close"}]
    /\ closedEvents \in [Trades -> Nat]
    /\ sweep \in [Sweepers -> {"sleep", "local", "ghosts", "close", "announce"}]
    /\ seen \in [Sweepers -> SUBSET Trades]
    /\ ghosts \in [Sweepers -> SUBSET Trades]
    /\ current \in [Sweepers -> Trades \cup {NoTrade}]
    /\ request \in [Requests -> {"idle", "find", "send", "record"}]
    /\ target \in [Requests -> Trades \cup {NoTrade}]
    /\ faults \in Nat

\* insert_pending comes before order_send, so every trade starts with a row.
Init ==
    /\ position = [t \in Trades |-> "none"]
    /\ outDeals = {}
    /\ row = [t \in Trades |-> "pending"]
    /\ source = [t \in Trades |-> "none"]
    /\ closedEvents = [t \in Trades |-> 0]
    /\ sweep = [s \in Sweepers |-> "sleep"]
    /\ seen = [s \in Sweepers |-> {}]
    /\ ghosts = [s \in Sweepers |-> {}]
    /\ current = [s \in Sweepers |-> NoTrade]
    /\ request = [r \in Requests |-> "idle"]
    /\ target = [r \in Requests |-> NoTrade]
    /\ faults = 0

InMarket(t)   == position[t] \in {"open", "part"}
OpenPositions == {t \in Trades : InMarket(t)}
OpenTrades    == {t \in Trades : row[t] = "filled"}

-----------------------------------------------------------------------------
(* The worker: order_send makes the deal, set_status("filled") records the   *)
(* ticket in a later step.  A worker that dies in between never records it.  *)

DealMade(t) ==
    /\ position[t] = "none"
    /\ position' = [position EXCEPT ![t] = "open"]
    /\ UNCHANGED <<outDeals, rowVars, closedEvents, sweepVars, requestVars,
                   faults>>

RecordFill(t) ==
    /\ position[t] # "none"
    /\ row[t] = "pending"
    /\ row' = [row EXCEPT ![t] = "filled"]
    /\ UNCHANGED <<brokerVars, source, closedEvents, sweepVars, requestVars,
                   faults>>

-----------------------------------------------------------------------------
(* The broker                                                               *)

ClosesPosition(t) ==
    /\ position' = [position EXCEPT ![t] = "gone"]
    /\ outDeals' = outDeals \cup {t}

\* Stop loss, take profit, stop out, or a close in the terminal.
BrokerCloses(t) ==
    /\ InMarket(t)
    /\ ClosesPosition(t)
    /\ UNCHANGED <<rowVars, closedEvents, sweepVars, requestVars, faults>>

\* A closing deal gets older than the seven days _summarise_close asks for.
DealsAge(t) ==
    /\ position[t] = "gone"
    /\ t \in outDeals
    /\ faults < MaxFaults
    /\ faults' = faults + 1
    /\ outDeals' = outDeals \ {t}
    /\ UNCHANGED <<position, rowVars, closedEvents, sweepVars, requestVars>>

-----------------------------------------------------------------------------
(* Closing a row                                                            *)

\* Mutant: the UPDATE without "AND closed_at IS NULL".
CloseByTicket_Again(t, src) ==
    /\ row' = [row EXCEPT ![t] = "closed"]
    /\ source' = [source EXCEPT ![t] = src]

\* UPDATE trades SET closed_at ... WHERE broker_ticket AND closed_at IS NULL.
CloseByTicket(t, src) ==
    IF row[t] = "filled"
    THEN /\ row' = [row EXCEPT ![t] = "closed"]
         /\ source' = [source EXCEPT ![t] = src]
    ELSE UNCHANGED rowVars

-----------------------------------------------------------------------------
(* Reconciler.run_once                                                      *)

\* positions_get; None, its answer when the terminal fails, reads as no
\* positions.
ReadPositions(s) ==
    /\ sweep[s] = "sleep"
    /\ Mt5Given
    /\ \E answer \in {OpenPositions, {}} : seen' = [seen EXCEPT ![s] = answer]
    /\ sweep' = [sweep EXCEPT ![s] = "local"]
    /\ UNCHANGED <<brokerVars, rowVars, closedEvents, ghosts, current,
                   requestVars, faults>>

\* Mutant: an early exit when the terminal reports no positions.
ReadLocal_NoneIsFailure(s) ==
    /\ sweep[s] = "local"
    /\ ghosts' = [ghosts EXCEPT ![s] = IF seen[s] = {} THEN {}
                                                       ELSE OpenTrades \ seen[s]]
    /\ seen' = [seen EXCEPT ![s] = {}]
    /\ sweep' = [sweep EXCEPT ![s] = "ghosts"]
    /\ UNCHANGED <<brokerVars, rowVars, closedEvents, current, requestVars, faults>>

\* open_trades; the ghosts are its rows without a position in the snapshot.
ReadLocal(s) ==
    /\ sweep[s] = "local"
    /\ ghosts' = [ghosts EXCEPT ![s] = OpenTrades \ seen[s]]
    /\ seen' = [seen EXCEPT ![s] = {}]
    /\ sweep' = [sweep EXCEPT ![s] = "ghosts"]
    /\ UNCHANGED <<brokerVars, rowVars, closedEvents, current, requestVars, faults>>

\* _summarise_close finds an OUT deal; volumes and prices are left out.
ClosingDealFound(t) == t \in outDeals

\* Mutant: a ghost is closed whether or not its history shows a closing deal.
Summarise_AnyHistory(s) ==
    /\ sweep[s] = "ghosts"
    /\ \E t \in ghosts[s] :
         /\ ghosts' = [ghosts EXCEPT ![s] = @ \ {t}]
         /\ sweep' = [sweep EXCEPT ![s] = "close"]
         /\ current' = [current EXCEPT ![s] = t]
    /\ UNCHANGED <<brokerVars, rowVars, closedEvents, seen, requestVars, faults>>

\* history_deals_get of the next ghost; without an OUT deal it is left for a
\* later cycle.
Summarise(s) ==
    /\ sweep[s] = "ghosts"
    /\ \E t \in ghosts[s] :
         /\ ghosts' = [ghosts EXCEPT ![s] = @ \ {t}]
         /\ IF ClosingDealFound(t)
            THEN /\ sweep' = [sweep EXCEPT ![s] = "close"]
                 /\ current' = [current EXCEPT ![s] = t]
            ELSE UNCHANGED <<sweep, current>>
    /\ UNCHANGED <<brokerVars, rowVars, closedEvents, seen, requestVars, faults>>

\* Mutant: the rowcount of the UPDATE is not looked at.
CloseGhost_IgnoresRowcount(s) ==
    /\ sweep[s] = "close"
    /\ CloseByTicket(current[s], "reconciliation")
    /\ sweep' = [sweep EXCEPT ![s] = "announce"]
    /\ UNCHANGED <<brokerVars, closedEvents, seen, ghosts, current, requestVars,
                   faults>>

\* Whoever closes the row first goes on to announce it.
CloseGhost(s) ==
    /\ sweep[s] = "close"
    /\ CloseByTicket(current[s], "reconciliation")
    /\ IF row[current[s]] = "filled"
       THEN /\ sweep' = [sweep EXCEPT ![s] = "announce"]
            /\ UNCHANGED current
       ELSE /\ sweep' = [sweep EXCEPT ![s] = "ghosts"]
            /\ current' = [current EXCEPT ![s] = NoTrade]
    /\ UNCHANGED <<brokerVars, closedEvents, seen, ghosts, requestVars, faults>>

PublishClosed(s) ==
    /\ sweep[s] = "announce"
    /\ closedEvents' = [closedEvents EXCEPT ![current[s]] = @ + 1]
    /\ current' = [current EXCEPT ![s] = NoTrade]
    /\ sweep' = [sweep EXCEPT ![s] = "ghosts"]
    /\ UNCHANGED <<brokerVars, rowVars, seen, ghosts, requestVars, faults>>

EndCycle(s) ==
    /\ sweep[s] = "ghosts"
    /\ ghosts[s] = {}
    /\ sweep' = [sweep EXCEPT ![s] = "sleep"]
    /\ UNCHANGED <<brokerVars, rowVars, closedEvents, seen, ghosts, current,
                   requestVars, faults>>

\* An exception is logged and the loop sleeps; a restarted process is the same.
CycleFails(s) ==
    /\ sweep[s] # "sleep"
    /\ faults < MaxFaults
    /\ faults' = faults + 1
    /\ sweep' = [sweep EXCEPT ![s] = "sleep"]
    /\ seen' = [seen EXCEPT ![s] = {}]
    /\ ghosts' = [ghosts EXCEPT ![s] = {}]
    /\ current' = [current EXCEPT ![s] = NoTrade]
    /\ UNCHANGED <<brokerVars, rowVars, closedEvents, requestVars>>

-----------------------------------------------------------------------------
(* POST /close/{ticket}                                                     *)

Respond(r) ==
    /\ request' = [request EXCEPT ![r] = "idle"]
    /\ target' = [target EXCEPT ![r] = NoTrade]

\* trade_by_ticket: 404 unless a row with this ticket is open.
LookUp(r, t) ==
    /\ request[r] = "idle"
    /\ row[t] = "filled"
    /\ request' = [request EXCEPT ![r] = "find"]
    /\ target' = [target EXCEPT ![r] = t]
    /\ UNCHANGED <<brokerVars, rowVars, closedEvents, sweepVars, faults>>

\* positions_get(ticket=...): POSITION_NOT_FOUND answers 502.
FindPosition(r) ==
    /\ request[r] = "find"
    /\ \/ /\ InMarket(target[r])
          /\ request' = [request EXCEPT ![r] = "send"]
          /\ UNCHANGED target
       \/ Respond(r)
    /\ UNCHANGED <<brokerVars, rowVars, closedEvents, sweepVars, faults>>

\* order_send of the closing deal: only DONE is accepted, everything else
\* answers 502 - a refusal, a lost reply to a deal that was made, a part fill.
SendClose(r) ==
    /\ request[r] = "send"
    /\ \/ /\ InMarket(target[r])
          /\ ClosesPosition(target[r])
          /\ \/ request' = [request EXCEPT ![r] = "record"] /\ UNCHANGED target
             \/ Respond(r)
       \/ /\ PartialFills
          /\ InMarket(target[r])
          /\ outDeals' = outDeals \cup {target[r]}
          /\ position' = [position EXCEPT ![target[r]] = "part"]
          /\ Respond(r)
       \/ /\ Respond(r)
          /\ UNCHANGED brokerVars
    /\ UNCHANGED <<rowVars, closedEvents, sweepVars, faults>>

\* close_by_ticket with profit=0.0; whether it updated a row is ignored.
RecordClose(r) ==
    /\ request[r] = "record"
    /\ CloseByTicket(target[r], "manual_close")
    /\ Respond(r)
    /\ UNCHANGED <<brokerVars, closedEvents, sweepVars, faults>>

-----------------------------------------------------------------------------
Sweep(s) ==
    \/ ReadPositions(s) \/ ReadLocal(s) \/ Summarise(s) \/ CloseGhost(s)
    \/ PublishClosed(s) \/ EndCycle(s)

ManualClose(r) ==
    \/ \E t \in Trades : LookUp(r, t)
    \/ FindPosition(r) \/ SendClose(r) \/ RecordClose(r)

Next ==
    \/ \E t \in Trades : DealMade(t) \/ BrokerCloses(t) \/ DealsAge(t)
    \/ \E t \in Trades : RecordFill(t)
    \/ \E s \in Sweepers : Sweep(s) \/ CycleFails(s)
    \/ \E r \in Requests : ManualClose(r)

Spec == Init /\ [][Next]_vars

\* run_forever sweeps again after every sleep, and its awaits return.
FairSpec == Spec /\ \A s \in Sweepers : WF_vars(Sweep(s))

-----------------------------------------------------------------------------
(* Safety                                                                   *)

\* The sweep works on a positions snapshot older than the rows it compares it
\* with, and positions_get may fail: still no row of an untouched position is
\* closed, because a closing deal must be found first.
ClosedOnlyAfterDeal ==
    \A t \in Trades : row[t] = "closed" => position[t] \in {"part", "gone"}

\* order.closed is published at most once per trade, and only by the sweep
\* whose UPDATE closed the row: two sweeps, or a sweep and a manual close,
\* never both report the trade.
ClosedEventOnce ==
    \A t \in Trades :
      /\ closedEvents[t] <= 1
      /\ closedEvents[t] = 1 => row[t] = "closed" /\ source[t] = "reconciliation"

\* What the sweep found in the deal history stays: a manual close that was sent
\* before and records its profit of 0.0 later never replaces it, and whoever
\* closed a row, nobody opens it again.
RealisedPnlStays ==
    [][\A t \in Trades :
         row[t] = "closed" =>
           /\ row'[t] = "closed"
           /\ source[t] = "reconciliation" => source'[t] = "reconciliation"]_vars

\* routes.py:87 promises the opposite of a manual close, "realised PnL arrives
\* via reconciliation sweep": the sweep updates open rows only, so the 0.0 is
\* never completed.  This is that shortcoming, and no run counts it as a virtue.
ManualCloseIsNeverCompleted ==
    [][\A t \in Trades :
         row[t] = "closed" /\ source[t] = "manual_close" =>
           source'[t] = "manual_close"]_vars

-----------------------------------------------------------------------------
(* The inductive invariant behind the safety properties                     *)

\* A closing deal was made for this trade, of the whole position or a part.
DealBehind(t) == position[t] \in {"part", "gone"}

\* The history shows no deal the broker did not make.
HistoryInv == \A t \in outDeals : DealBehind(t)

\* A sweep that looks at a ghost has seen its closing deal, and one that
\* announces it has closed the row itself and was not announced before.
GhostInv ==
    \A s \in Sweepers :
      /\ sweep[s] \in {"close", "announce"} =>
           current[s] \in Trades /\ DealBehind(current[s])
      /\ sweep[s] = "announce" =>
           /\ row[current[s]] = "closed"
           /\ source[current[s]] = "reconciliation"
           /\ closedEvents[current[s]] = 0

\* The UPDATE lets one sweep through.
OneAnnouncer ==
    \A s, u \in Sweepers :
      sweep[s] = "announce" /\ sweep[u] = "announce" /\ current[s] = current[u] => s = u

\* A request knows its ticket, and records only a close that was made.
RequestInv ==
    \A r \in Requests :
      /\ request[r] # "idle" => target[r] \in Trades
      /\ request[r] = "record" => DealBehind(target[r])

Closing ==
    /\ HistoryInv
    /\ ClosedOnlyAfterDeal
    /\ GhostInv
    /\ OneAnnouncer
    /\ RequestInv
    /\ ClosedEventOnce

IInv == TypeOK /\ Closing

-----------------------------------------------------------------------------
(* Liveness                                                                 *)

\* A recorded trade whose position is gone, with its deals still in the
\* history window, is closed in the ledger.
EveryCloseIsRecorded ==
    \A t \in Trades :
      (row[t] = "filled" /\ position[t] = "gone" /\ t \in outDeals)
        ~> (row[t] = "closed" \/ t \notin outDeals)
=============================================================================
