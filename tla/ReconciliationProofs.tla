------------------------ MODULE ReconciliationProofs ------------------------
(***************************************************************************)
(* Proofs about Reconciliation, for any number of trades, sweeps, requests *)
(* and faults, with or without part fills.                                 *)
(***************************************************************************)
EXTENDS Reconciliation, TLAPS

USE DEF brokerVars, rowVars, sweepVars, requestVars

-----------------------------------------------------------------------------
(* Type correctness                                                         *)

LEMMA InitTypeOK == Init => TypeOK
BY DEF Init, TypeOK

LEMMA CloseByTicketType ==
  ASSUME TypeOK, NEW t \in Trades, NEW src \in {"reconciliation", "manual_close"},
         CloseByTicket(t, src)
  PROVE  /\ row' \in [Trades -> {"pending", "filled", "closed"}]
         /\ source' \in [Trades -> {"none", "reconciliation", "manual_close"}]
BY DEF TypeOK, CloseByTicket

LEMMA NextTypeOK == IInv /\ [Next]_vars => TypeOK'
<1> SUFFICES ASSUME IInv, [Next]_vars PROVE TypeOK'
  OBVIOUS
<1> USE DEF TypeOK
<1>1. TypeOK
  BY DEF IInv
<1>2. ASSUME NEW t \in Trades, DealMade(t) \/ BrokerCloses(t) \/ DealsAge(t) \/ RecordFill(t)
      PROVE  TypeOK'
  BY <1>1, <1>2, ConstantsAssumption DEF DealMade, BrokerCloses, ClosesPosition, DealsAge, RecordFill
<1>3. ASSUME NEW s \in Sweepers, ReadPositions(s) PROVE TypeOK'
  BY <1>1, <1>3 DEF ReadPositions, OpenPositions
<1>4. ASSUME NEW s \in Sweepers, ReadLocal(s) PROVE TypeOK'
  BY <1>1, <1>4 DEF ReadLocal, OpenTrades
<1>5. ASSUME NEW s \in Sweepers, Summarise(s) PROVE TypeOK'
  BY <1>1, <1>5 DEF Summarise
<1>6. ASSUME NEW s \in Sweepers, CloseGhost(s) PROVE TypeOK'
  <2>1. current[s] \in Trades
    BY <1>6 DEF CloseGhost, IInv, Closing, GhostInv
  <2>2. CloseByTicket(current[s], "reconciliation")
    BY <1>6 DEF CloseGhost
  <2>3. /\ row' \in [Trades -> {"pending", "filled", "closed"}]
        /\ source' \in [Trades -> {"none", "reconciliation", "manual_close"}]
    BY <1>1, <2>1, <2>2, CloseByTicketType
  <2>4. /\ sweep' \in [Sweepers -> {"sleep", "local", "ghosts", "close", "announce"}]
        /\ current' \in [Sweepers -> Trades \cup {NoTrade}]
    BY <1>1, <1>6 DEF CloseGhost
  <2>5. UNCHANGED <<brokerVars, closedEvents, seen, ghosts, requestVars, faults>>
    BY <1>6 DEF CloseGhost
  <2> QED
    BY <1>1, <2>3, <2>4, <2>5
<1>7. ASSUME NEW s \in Sweepers, PublishClosed(s) PROVE TypeOK'
  <2>1. current[s] \in Trades
    BY <1>7 DEF PublishClosed, IInv, Closing, GhostInv
  <2>2. closedEvents' \in [Trades -> Nat]
    BY <1>1, <1>7, <2>1 DEF PublishClosed
  <2> QED
    BY <1>1, <1>7, <2>2 DEF PublishClosed
<1>8. ASSUME NEW s \in Sweepers, EndCycle(s) \/ CycleFails(s) PROVE TypeOK'
  BY <1>1, <1>8, ConstantsAssumption DEF EndCycle, CycleFails
<1>9. ASSUME NEW r \in Requests, NEW t \in Trades, LookUp(r, t) PROVE TypeOK'
  BY <1>1, <1>9 DEF LookUp
<1>10. ASSUME NEW r \in Requests, FindPosition(r) PROVE TypeOK'
  BY <1>1, <1>10 DEF FindPosition, Respond
<1>11. ASSUME NEW r \in Requests, SendClose(r) PROVE TypeOK'
  <2>1. target[r] \in Trades
    BY <1>11 DEF SendClose, IInv, Closing, RequestInv
  <2> QED
    BY <1>1, <1>11, <2>1 DEF SendClose, ClosesPosition, Respond
<1>12. ASSUME NEW r \in Requests, RecordClose(r) PROVE TypeOK'
  <2>1. target[r] \in Trades
    BY <1>12 DEF RecordClose, IInv, Closing, RequestInv
  <2>2. CloseByTicket(target[r], "manual_close")
    BY <1>12 DEF RecordClose
  <2>3. /\ row' \in [Trades -> {"pending", "filled", "closed"}]
        /\ source' \in [Trades -> {"none", "reconciliation", "manual_close"}]
    BY <1>1, <2>1, <2>2, CloseByTicketType
  <2> QED
    BY <1>1, <1>12, <2>3 DEF RecordClose, Respond
<1>13. CASE UNCHANGED vars
  BY <1>1, <1>13 DEF vars
<1> QED
  BY <1>2, <1>3, <1>4, <1>5, <1>6, <1>7, <1>8, <1>9, <1>10, <1>11, <1>12, <1>13
     DEF Next, Sweep, ManualClose

-----------------------------------------------------------------------------
(* The protocol between the writers of a row                                *)

LEMMA InitClosing == Init => Closing
BY DEF Init, Closing, HistoryInv, ClosedOnlyAfterDeal, GhostInv, OneAnnouncer, RequestInv,
       ClosedEventOnce

\* The broker never takes a closing deal back.
LEMMA DealsStay ==
  ASSUME TypeOK, [Next]_vars, NEW t \in Trades, DealBehind(t)
  PROVE  DealBehind(t)'
<1>1. position \in [Trades -> {"none", "open", "part", "gone"}]
  BY DEF TypeOK
<1>2. CASE \E u \in Trades : DealMade(u) \/ BrokerCloses(u) \/ DealsAge(u) \/ RecordFill(u)
  BY <1>1, <1>2 DEF DealBehind, DealMade, BrokerCloses, ClosesPosition, DealsAge, RecordFill
<1>3. CASE \E s \in Sweepers : Sweep(s) \/ CycleFails(s)
  BY <1>3 DEF DealBehind, Sweep, CycleFails, ReadPositions, ReadLocal, Summarise, CloseGhost,
              PublishClosed, EndCycle
<1>4. CASE \E r \in Requests : ManualClose(r)
  BY <1>1, <1>4 DEF DealBehind, ManualClose, LookUp, FindPosition, SendClose, RecordClose,
                    ClosesPosition
<1>5. CASE UNCHANGED vars
  BY <1>5 DEF vars, DealBehind
<1> QED
  BY <1>2, <1>3, <1>4, <1>5 DEF Next

\* A closed row keeps its status and its source.
LEMMA ClosedStays ==
  ASSUME TypeOK, [Next]_vars, NEW t \in Trades, row[t] = "closed"
  PROVE  row'[t] = "closed" /\ source'[t] = source[t]
<1>1. /\ row \in [Trades -> {"pending", "filled", "closed"}]
      /\ source \in [Trades -> {"none", "reconciliation", "manual_close"}]
  BY DEF TypeOK
<1>2. CASE \E u \in Trades : DealMade(u) \/ BrokerCloses(u) \/ DealsAge(u) \/ RecordFill(u)
  BY <1>1, <1>2 DEF DealMade, BrokerCloses, DealsAge, RecordFill
<1>3. CASE \E s \in Sweepers : Sweep(s) \/ CycleFails(s)
  BY <1>1, <1>3 DEF Sweep, CycleFails, ReadPositions, ReadLocal, Summarise, CloseGhost,
              CloseByTicket, PublishClosed, EndCycle
<1>4. CASE \E r \in Requests : ManualClose(r)
  BY <1>1, <1>4 DEF ManualClose, LookUp, FindPosition, SendClose, RecordClose, CloseByTicket
<1>5. CASE UNCHANGED vars
  BY <1>1, <1>5 DEF vars
<1> QED
  BY <1>2, <1>3, <1>4, <1>5 DEF Next

LEMMA NextClosing == IInv /\ [Next]_vars => Closing'
<1> SUFFICES ASSUME IInv, [Next]_vars PROVE Closing'
  OBVIOUS
<1>1. TypeOK /\ Closing
  BY DEF IInv
<1>2. \A t \in Trades : DealBehind(t) => DealBehind(t)'
  BY <1>1, DealsStay
<1>3. \A t \in Trades : row[t] = "closed" => row'[t] = "closed" /\ source'[t] = source[t]
  BY <1>1, ClosedStays
<1>4. /\ position \in [Trades -> {"none", "open", "part", "gone"}]
      /\ outDeals \subseteq Trades
      /\ row \in [Trades -> {"pending", "filled", "closed"}]
      /\ source \in [Trades -> {"none", "reconciliation", "manual_close"}]
      /\ closedEvents \in [Trades -> Nat]
      /\ sweep \in [Sweepers -> {"sleep", "local", "ghosts", "close", "announce"}]
      /\ ghosts \in [Sweepers -> SUBSET Trades]
      /\ current \in [Sweepers -> Trades \cup {NoTrade}]
      /\ request \in [Requests -> {"idle", "find", "send", "record"}]
      /\ target \in [Requests -> Trades \cup {NoTrade}]
  BY <1>1 DEF TypeOK
<1>5. /\ HistoryInv /\ ClosedOnlyAfterDeal /\ GhostInv /\ OneAnnouncer
      /\ RequestInv /\ ClosedEventOnce
  BY <1>1 DEF Closing
\* Steps that leave the sweeps, the requests and the events alone.
<1>6. ASSUME UNCHANGED <<closedEvents, sweep, current, requestVars>>,
             \A t \in outDeals' : t \in Trades /\ DealBehind(t)',
             \A t \in Trades : row'[t] = "closed" => row[t] = "closed"
      PROVE  Closing'
  <2>1. HistoryInv' /\ ClosedOnlyAfterDeal'
    BY <1>2, <1>5, <1>6 DEF HistoryInv, ClosedOnlyAfterDeal, DealBehind
  <2>2. GhostInv' /\ OneAnnouncer' /\ RequestInv' /\ ClosedEventOnce'
    BY <1>2, <1>3, <1>4, <1>5, <1>6 DEF GhostInv, OneAnnouncer, RequestInv, ClosedEventOnce
  <2> QED
    BY <2>1, <2>2 DEF Closing
<1>7. CASE \E t \in Trades : DealMade(t) \/ BrokerCloses(t) \/ DealsAge(t) \/ RecordFill(t)
  <2>1. UNCHANGED <<closedEvents, sweep, current, requestVars>>
    BY <1>7 DEF DealMade, BrokerCloses, DealsAge, RecordFill
  <2>2. \A t \in outDeals' : t \in Trades /\ DealBehind(t)'
    BY <1>2, <1>4, <1>5, <1>7 DEF DealMade, BrokerCloses, ClosesPosition, DealsAge, RecordFill,
                               HistoryInv, DealBehind
  <2>3. \A t \in Trades : row'[t] = "closed" => row[t] = "closed"
    BY <1>4, <1>7 DEF DealMade, BrokerCloses, DealsAge, RecordFill
  <2> QED
    BY <1>6, <2>1, <2>2, <2>3
\* Steps of a sweep or a request that write no row and make no deal.
<1>8. ASSUME UNCHANGED <<brokerVars, rowVars, closedEvents>>, GhostInv', OneAnnouncer', RequestInv'
      PROVE  Closing'
  <2>1. HistoryInv' /\ ClosedOnlyAfterDeal' /\ ClosedEventOnce'
    BY <1>5, <1>8 DEF HistoryInv, ClosedOnlyAfterDeal, ClosedEventOnce, DealBehind
  <2> QED
    BY <1>8, <2>1 DEF Closing
<1>9. ASSUME NEW s \in Sweepers,
             ReadPositions(s) \/ ReadLocal(s) \/ EndCycle(s) \/ CycleFails(s)
      PROVE  Closing'
  <2>1. /\ UNCHANGED <<brokerVars, rowVars, closedEvents, requestVars>>
        /\ sweep'[s] \notin {"close", "announce"}
        /\ \A u \in Sweepers : u # s => sweep'[u] = sweep[u] /\ current'[u] = current[u]
    BY <1>4, <1>9 DEF ReadPositions, ReadLocal, EndCycle, CycleFails
  <2>2. GhostInv' /\ OneAnnouncer' /\ RequestInv'
    BY <1>5, <2>1 DEF GhostInv, OneAnnouncer, RequestInv, DealBehind
  <2> QED
    BY <1>8, <2>1, <2>2
<1>10. ASSUME NEW s \in Sweepers, Summarise(s) PROVE Closing'
  <2>1. /\ UNCHANGED <<brokerVars, rowVars, closedEvents, requestVars>>
        /\ sweep'[s] # "announce"
        /\ sweep'[s] = "close" => current'[s] \in Trades /\ current'[s] \in outDeals
        /\ \A u \in Sweepers : u # s => sweep'[u] = sweep[u] /\ current'[u] = current[u]
    BY <1>4, <1>10 DEF Summarise, ClosingDealFound
  <2>2. GhostInv' /\ OneAnnouncer' /\ RequestInv'
    BY <1>5, <2>1 DEF GhostInv, OneAnnouncer, RequestInv, DealBehind, HistoryInv
  <2> QED
    BY <1>8, <2>1, <2>2
<1>11. ASSUME NEW s \in Sweepers, CloseGhost(s) PROVE Closing'
  <2>1. /\ current[s] \in Trades /\ DealBehind(current[s])
        /\ UNCHANGED <<brokerVars, closedEvents, requestVars>>
        /\ \A u \in Sweepers : u # s => sweep'[u] = sweep[u] /\ current'[u] = current[u]
    BY <1>4, <1>5, <1>11 DEF CloseGhost, GhostInv
  <2>2. CASE row[current[s]] = "filled"
    <3>1. /\ row' = [row EXCEPT ![current[s]] = "closed"]
          /\ source' = [source EXCEPT ![current[s]] = "reconciliation"]
          /\ sweep'[s] = "announce" /\ current'[s] = current[s]
      BY <1>4, <1>11, <2>2 DEF CloseGhost, CloseByTicket
    <3>2. closedEvents[current[s]] = 0
      BY <1>4, <1>5, <2>1, <2>2 DEF ClosedEventOnce
    <3>3. HistoryInv' /\ ClosedOnlyAfterDeal' /\ RequestInv'
      BY <1>4, <1>5, <2>1, <3>1 DEF HistoryInv, ClosedOnlyAfterDeal, RequestInv, DealBehind
    <3>4. GhostInv'
      BY <1>2, <1>3, <1>4, <1>5, <2>1, <3>1, <3>2 DEF GhostInv
    <3>5. OneAnnouncer'
      BY <1>5, <2>1, <2>2, <3>1 DEF OneAnnouncer, GhostInv
    <3>6. ClosedEventOnce'
      BY <1>4, <1>5, <2>1, <3>1 DEF ClosedEventOnce
    <3> QED
      BY <3>3, <3>4, <3>5, <3>6 DEF Closing
  <2>3. CASE row[current[s]] # "filled"
    <3>1. UNCHANGED rowVars /\ sweep'[s] = "ghosts"
      BY <1>4, <1>11, <2>3 DEF CloseGhost, CloseByTicket
    <3>2. GhostInv' /\ OneAnnouncer' /\ RequestInv'
      BY <1>5, <2>1, <3>1 DEF GhostInv, OneAnnouncer, RequestInv, DealBehind
    <3> QED
      BY <1>8, <2>1, <3>1, <3>2
  <2> QED
    BY <2>2, <2>3
<1>12. ASSUME NEW s \in Sweepers, PublishClosed(s) PROVE Closing'
  <2>1. /\ current[s] \in Trades /\ sweep[s] = "announce"
        /\ row[current[s]] = "closed" /\ source[current[s]] = "reconciliation"
        /\ closedEvents[current[s]] = 0
    BY <1>5, <1>12 DEF PublishClosed, GhostInv
  <2>2. /\ closedEvents' = [closedEvents EXCEPT ![current[s]] = 1]
        /\ UNCHANGED <<brokerVars, rowVars, requestVars>>
        /\ sweep'[s] = "ghosts"
        /\ \A u \in Sweepers : u # s => sweep'[u] = sweep[u] /\ current'[u] = current[u]
    BY <1>4, <1>12, <2>1 DEF PublishClosed
  <2>3. HistoryInv' /\ ClosedOnlyAfterDeal' /\ RequestInv' /\ OneAnnouncer'
    BY <1>5, <2>2 DEF HistoryInv, ClosedOnlyAfterDeal, RequestInv, OneAnnouncer, DealBehind
  <2>4. GhostInv'
    BY <1>4, <1>5, <2>1, <2>2 DEF GhostInv, OneAnnouncer, DealBehind
  <2>5. ClosedEventOnce'
    BY <1>4, <1>5, <2>1, <2>2 DEF ClosedEventOnce
  <2> QED
    BY <2>3, <2>4, <2>5 DEF Closing
<1>13. ASSUME NEW r \in Requests, (\E t \in Trades : LookUp(r, t)) \/ FindPosition(r)
       PROVE  Closing'
  <2>1. /\ UNCHANGED <<brokerVars, rowVars, closedEvents, sweepVars>>
        /\ request'[r] # "record" /\ (request'[r] # "idle" => target'[r] \in Trades)
        /\ \A q \in Requests : q # r => request'[q] = request[q] /\ target'[q] = target[q]
    BY <1>4, <1>5, <1>13 DEF LookUp, FindPosition, Respond, RequestInv
  <2>2. GhostInv' /\ OneAnnouncer' /\ RequestInv'
    BY <1>5, <2>1 DEF GhostInv, OneAnnouncer, RequestInv, DealBehind
  <2> QED
    BY <1>8, <2>1, <2>2
<1>14. ASSUME NEW r \in Requests, SendClose(r) PROVE Closing'
  <2>1. /\ target[r] \in Trades
        /\ UNCHANGED <<rowVars, closedEvents, sweepVars>>
        /\ \A q \in Requests : q # r => request'[q] = request[q] /\ target'[q] = target[q]
        /\ outDeals' \subseteq outDeals \cup {target[r]}
    BY <1>4, <1>5, <1>14 DEF SendClose, ClosesPosition, Respond, RequestInv
  <2>2. \/ request'[r] = "idle"
        \/ /\ request'[r] = "record" /\ target'[r] = target[r]
           /\ DealBehind(target[r])'
    BY <1>4, <1>14, <2>1 DEF SendClose, ClosesPosition, Respond, DealBehind
  <2>3. outDeals' = outDeals \/ position'[target[r]] \in {"part", "gone"}
    <3>1. \/ position' = [position EXCEPT ![target[r]] = "gone"]
          \/ position' = [position EXCEPT ![target[r]] = "part"]
          \/ UNCHANGED brokerVars
      BY <1>14 DEF SendClose, ClosesPosition
    <3> QED
      BY <1>4, <2>1, <3>1
  <2>4. HistoryInv' /\ ClosedOnlyAfterDeal'
    <3>1. \A t \in outDeals' : DealBehind(t)'
      BY <1>2, <1>4, <1>5, <2>1, <2>3 DEF HistoryInv, DealBehind
    <3> QED
      BY <1>2, <1>5, <2>1, <3>1 DEF HistoryInv, ClosedOnlyAfterDeal, DealBehind
  <2>5. RequestInv'
    BY <1>2, <1>5, <2>1, <2>2 DEF RequestInv
  <2>6. GhostInv' /\ OneAnnouncer' /\ ClosedEventOnce'
    BY <1>2, <1>5, <2>1 DEF GhostInv, OneAnnouncer, ClosedEventOnce
  <2> QED
    BY <2>4, <2>5, <2>6 DEF Closing
<1>15. ASSUME NEW r \in Requests, RecordClose(r) PROVE Closing'
  <2>1. /\ target[r] \in Trades /\ DealBehind(target[r])
        /\ UNCHANGED <<brokerVars, closedEvents, sweepVars>>
        /\ request'[r] = "idle"
        /\ \A q \in Requests : q # r => request'[q] = request[q] /\ target'[q] = target[q]
    BY <1>4, <1>5, <1>15 DEF RecordClose, Respond, RequestInv
  <2>2. \A t \in Trades : row'[t] = "closed" => row[t] = "closed" \/ t = target[r]
    BY <1>4, <1>15, <2>1 DEF RecordClose, CloseByTicket
  <2>3. HistoryInv' /\ ClosedOnlyAfterDeal' /\ RequestInv'
    BY <1>5, <2>1, <2>2 DEF HistoryInv, ClosedOnlyAfterDeal, RequestInv, DealBehind
  <2>4. GhostInv' /\ OneAnnouncer' /\ ClosedEventOnce'
    BY <1>2, <1>3, <1>5, <2>1 DEF GhostInv, OneAnnouncer, ClosedEventOnce
  <2> QED
    BY <2>3, <2>4 DEF Closing
<1>16. CASE UNCHANGED vars
  BY <1>5, <1>8, <1>16 DEF vars, GhostInv, OneAnnouncer, RequestInv, DealBehind
<1> QED
  BY <1>7, <1>9, <1>10, <1>11, <1>12, <1>13, <1>14, <1>15, <1>16 DEF Next, Sweep, ManualClose

LEMMA Inductive == Spec => []IInv
<1>1. Init => IInv
  BY InitTypeOK, InitClosing DEF IInv
<1>2. IInv /\ [Next]_vars => IInv'
  BY NextTypeOK, NextClosing DEF IInv
<1> QED
  BY <1>1, <1>2, PTL DEF Spec

-----------------------------------------------------------------------------
(* The theorems                                                             *)

(* Rows, sweeps and requests keep their types: in particular no row is ever  *)
(* closed under a ticket that is not a trade's.                              *)
THEOREM TypeCorrect == Spec => []TypeOK
<1>1. IInv => TypeOK
  BY DEF IInv
<1> QED
  BY <1>1, Inductive, PTL

(* However stale the positions snapshot is and whenever positions_get fails, *)
(* neither a sweep nor a manual close writes closed_at into the row of a     *)
(* position no closing deal was made for.                                    *)
THEOREM ClosesFollowDeals == Spec => []ClosedOnlyAfterDeal
<1>1. IInv => ClosedOnlyAfterDeal
  BY DEF IInv, Closing
<1> QED
  BY <1>1, Inductive, PTL

(* order.closed is published once at most per trade, by the sweep whose      *)
(* UPDATE closed the row, however many sweeps and manual closes race.        *)
THEOREM AnnouncedAtMostOnce == Spec => []ClosedEventOnce
<1>1. IInv => ClosedEventOnce
  BY DEF IInv, Closing
<1> QED
  BY <1>1, Inductive, PTL

\* One step of RealisedPnlStays, and of ManualCloseIsNeverCompleted.
RealisedStep ==
    \A t \in Trades :
      row[t] = "closed" =>
        /\ row'[t] = "closed"
        /\ source[t] = "reconciliation" => source'[t] = "reconciliation"

ManualStep ==
    \A t \in Trades :
      row[t] = "closed" /\ source[t] = "manual_close" => source'[t] = "manual_close"

(* A manual close that comes late does not replace the profit a sweep took   *)
(* from the deal history, and no closed row is opened again: this is what    *)
(* close_by_ticket's condition closed_at IS NULL is worth.                   *)
THEOREM RealisedStays == Spec => RealisedPnlStays
<1>1. IInv /\ [Next]_vars => [RealisedStep]_vars
  BY ClosedStays DEF IInv, RealisedStep
<1>2. Spec => [][RealisedStep]_vars
  BY <1>1, Inductive, PTL DEF Spec
<1> QED
  BY <1>2 DEF RealisedPnlStays, RealisedStep

(* The same condition is why the sweep never attaches the realised profit to *)
(* a row the close route wrote 0.0 into, which routes.py:87 and :99 promise. *)
THEOREM ManualPnlNeverArrives == Spec => ManualCloseIsNeverCompleted
<1>1. IInv /\ [Next]_vars => [ManualStep]_vars
  BY ClosedStays DEF IInv, ManualStep
<1>2. Spec => [][ManualStep]_vars
  BY <1>1, Inductive, PTL DEF Spec
<1> QED
  BY <1>2 DEF ManualCloseIsNeverCompleted, ManualStep
=============================================================================
