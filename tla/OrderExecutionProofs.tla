------------------------ MODULE OrderExecutionProofs ------------------------
(***************************************************************************)
(* Proofs about OrderExecution, for any number of workers, keys, entries,  *)
(* attempts and faults.                                                    *)
(***************************************************************************)
EXTENDS OrderExecution, FiniteSetTheorems, TLAPS

USE DEF redisVars, dbVars, batchVars, localVars, brokerVars, eventVars, faultVars

-----------------------------------------------------------------------------
(* Type correctness                                                         *)

LEMMA InitTypeOK == Init => TypeOK
<1> SUFFICES ASSUME Init PROVE TypeOK
  OBVIOUS
<1> USE DEF Init
<1>1. stream \in Seq(Entry) /\ cursor \in 0 .. Len(stream)
  OBVIOUS
<1>2. /\ pc \in [Consumers -> PC]
      /\ trade \in [Keys -> Status]
      /\ outcome \in [Consumers -> Outcome]
      /\ order \in [Consumers -> Entry]
  BY DEF PC, Status, Outcome, Entry
<1>3. attempts \in [Consumers -> 0 .. MaxAttempts]
  BY ConstantsAssumption
<1> QED
  BY <1>1, <1>2, <1>3 DEF TypeOK

LEMMA GotoPC ==
  ASSUME pc \in [Consumers -> PC], NEW c \in Consumers, NEW l \in PC, Goto(c, l)
  PROVE  pc' \in [Consumers -> PC]
BY DEF Goto

LEMMA Labels ==
  /\ "down" \in PC /\ "poll" \in PC /\ "handle" \in PC /\ "claim" \in PC
  /\ "send" \in PC /\ "abandoned" \in PC /\ "record" \in PC
  /\ "publish" \in PC /\ "cache" \in PC /\ "audit" \in PC /\ "ack" \in PC
BY DEF PC

\* A delivery moves the cursor within the stream and fills the pending list
\* with entries of the stream.
LEMMA DeliverType ==
  ASSUME TypeOK, Deliver
  PROVE  /\ cursor' \in Nat /\ cursor' \in 0 .. Len(stream)'
         /\ pel' \subseteq 1 .. Len(stream)'
         /\ UNCHANGED <<stream, group, cached>>
<1>1. /\ stream \in Seq(Entry) /\ Len(stream) \in Nat
      /\ cursor \in 0 .. Len(stream) /\ pel \subseteq 1 .. Len(stream)
  BY DEF TypeOK
<1>2. /\ cursor' \in 0 .. Len(stream)
      /\ pel' = pel \cup (cursor + 1 .. cursor')
      /\ UNCHANGED <<stream, group, cached>>
  BY <1>1, ConstantsAssumption DEF Deliver
<1>3. (cursor + 1 .. cursor') \subseteq 1 .. Len(stream)
  BY <1>1, <1>2
<1> QED
  BY <1>1, <1>2, <1>3

LEMMA NextTypeOK == TypeOK /\ OrderParsed /\ [Next]_vars => TypeOK'
<1> SUFFICES ASSUME TypeOK, OrderParsed, [Next]_vars PROVE TypeOK'
  OBVIOUS
<1>T1. /\ Len(stream) \in Nat /\ cursor \in Nat /\ cursor <= Len(stream)
       /\ pel \subseteq 1 .. Len(stream)
  BY DEF TypeOK
<1>T2. pc \in [Consumers -> PC]
  BY DEF TypeOK
<1>T3. trade \in [Keys -> Status]
  BY DEF TypeOK
<1>T4. at \in [Consumers -> Nat] /\ last \in [Consumers -> Nat]
  BY DEF TypeOK
<1>T5. /\ order \in [Consumers -> Entry]
       /\ attempts \in [Consumers -> 0 .. MaxAttempts]
       /\ outcome \in [Consumers -> Outcome]
  BY DEF TypeOK
<1>T6. orderSends \in [Keys -> Nat] /\ deals \in [Keys -> Nat]
  BY DEF TypeOK
<1>T7. filledEvents \in [Keys -> Nat] /\ rejectedEvents \in [Keys -> Nat]
  BY DEF TypeOK
<1>T8. cached \subseteq Keys /\ audited \subseteq Keys
  BY DEF TypeOK
<1>1. ASSUME NEW e \in Entry, Submit(e) PROVE TypeOK'
  BY <1>1 DEF Submit, TypeOK
<1>2. ASSUME NEW c \in Consumers, Start(c) PROVE TypeOK'
  <2>1. (pc \in [Consumers -> PC])'
    BY <1>2, <1>T2, GotoPC, Labels DEF Start, EnsureGroup
  <2>2. (cursor \in 0 .. Len(stream))'
    BY <1>2, <1>T1 DEF Start, EnsureGroup
  <2> QED
    BY <1>2, <2>1, <2>2 DEF Start, EnsureGroup, TypeOK
<1>3. ASSUME NEW c \in Consumers, RecreateGroup(c) PROVE TypeOK'
  <2>1. (cursor \in 0 .. Len(stream))'
    BY <1>3, <1>T1 DEF RecreateGroup, EnsureGroup
  <2> QED
    BY <1>3, <2>1 DEF RecreateGroup, EnsureGroup, TypeOK
<1>4. ASSUME NEW c \in Consumers, Drain(c) PROVE TypeOK'
  <2>0. /\ cursor' \in Nat /\ cursor' \in 0 .. Len(stream)' /\ pel' \subseteq 1 .. Len(stream)'
        /\ UNCHANGED <<stream, group, cached>>
    BY <1>4, DeliverType DEF Drain
  <2>1. (pc \in [Consumers -> PC])'
    BY <1>4, <1>T2, GotoPC, Labels DEF Drain
  <2>2. (at \in [Consumers -> Nat])'
    BY <1>4, <1>T4, <1>T1, ConstantsAssumption DEF Drain
  <2>3. (last \in [Consumers -> Nat])'
    BY <1>4, <1>T4, <2>0 DEF Drain
  <2> QED
    BY <1>4, <2>0, <2>1, <2>2, <2>3 DEF Drain, TypeOK
<1>24. ASSUME NEW c \in Consumers, DeliveryLost(c) PROVE TypeOK'
  <2>1. /\ cursor' \in 0 .. Len(stream)' /\ pel' \subseteq 1 .. Len(stream)'
        /\ UNCHANGED <<stream, group, cached>>
    BY <1>24, DeliverType DEF DeliveryLost
  <2> QED
    BY <1>24, <2>1 DEF DeliveryLost, TypeOK
<1>5. ASSUME NEW c \in Consumers, DropMalformed(c) PROVE TypeOK'
  <2>1. (pc \in [Consumers -> PC])'
    BY <1>5, <1>T2, GotoPC, Labels DEF DropMalformed
  <2> QED
    BY <1>5, <2>1 DEF DropMalformed, TypeOK
<1>6. ASSUME NEW c \in Consumers, SuppressCached(c) PROVE TypeOK'
  <2>1. (pc \in [Consumers -> PC])'
    BY <1>6, <1>T2, GotoPC, Labels DEF SuppressCached
  <2> QED
    BY <1>6, <2>1 DEF SuppressCached, TypeOK
<1>7. ASSUME NEW c \in Consumers, MissCache(c) PROVE TypeOK'
  <2>1. (pc \in [Consumers -> PC])'
    BY <1>7, <1>T2, GotoPC, Labels DEF MissCache
  <2>2. (order \in [Consumers -> Entry])'
    BY <1>7, <1>T5 DEF MissCache, Entry
  <2> QED
    BY <1>7, <2>1, <2>2 DEF MissCache, TypeOK
<1>8. ASSUME NEW c \in Consumers, InsertPending(c) PROVE TypeOK'
  <2>1. (pc \in [Consumers -> PC])'
    BY <1>8, <1>T2, GotoPC, Labels DEF InsertPending
  <2>2. (trade \in [Keys -> Status])'
    BY <1>8, <1>T3 DEF InsertPending, Status
  <2>3. (attempts \in [Consumers -> 0 .. MaxAttempts])'
    BY <1>8, <1>T5, ConstantsAssumption DEF InsertPending
  <2> QED
    BY <1>8, <2>1, <2>2, <2>3 DEF InsertPending, TypeOK
<1>9. ASSUME NEW c \in Consumers, SuppressClaimed(c) PROVE TypeOK'
  <2>1. (pc \in [Consumers -> PC])'
    BY <1>9, <1>T2, GotoPC, Labels DEF SuppressClaimed
  <2> QED
    BY <1>9, <2>1 DEF SuppressClaimed, TypeOK
<1>10. ASSUME NEW c \in Consumers, OrderSend(c) PROVE TypeOK'
  <2>1. (pc \in [Consumers -> PC])'
    BY <1>10, <1>T2, GotoPC, Labels DEF OrderSend, RetryOrGiveUp, ReturnOutcome
  <2>2. (outcome \in [Consumers -> Outcome])'
    BY <1>10, <1>T5 DEF OrderSend, RetryOrGiveUp, ReturnOutcome, Outcome
  <2>3. (order \in [Consumers -> Entry])'
    BY <1>10, <1>T5 DEF OrderSend, RetryOrGiveUp, ReturnOutcome, Entry
  <2>4. (at \in [Consumers -> Nat] /\ last \in [Consumers -> Nat])'
    BY <1>10, <1>T4 DEF OrderSend, RetryOrGiveUp, ReturnOutcome
  <2>5. (attempts \in [Consumers -> 0 .. MaxAttempts])'
    BY <1>10, <1>T5, ConstantsAssumption DEF OrderSend
  <2>6. order[c] \in Keys
    BY <1>10 DEF OrderSend, ReturnOutcome, OrderParsed, Owns, Owning
  <2>7. (orderSends \in [Keys -> Nat])'
    BY <1>10, <1>T6, <2>6 DEF OrderSend
  <2>8. (deals \in [Keys -> Nat])'
    BY <1>10, <1>T6, <2>6 DEF OrderSend, DealMade, NoDealMade
  <2> QED
    BY <1>10, <2>1, <2>2, <2>3, <2>4, <2>5, <2>7, <2>8 DEF OrderSend, TypeOK
<1>11. ASSUME NEW c \in Consumers, DryRunFill(c) PROVE TypeOK'
  <2>1. (pc \in [Consumers -> PC])'
    BY <1>11, <1>T2, GotoPC, Labels DEF DryRunFill, RetryOrGiveUp, ReturnOutcome
  <2>2. (outcome \in [Consumers -> Outcome])'
    BY <1>11, <1>T5 DEF DryRunFill, RetryOrGiveUp, ReturnOutcome, Outcome
  <2>3. (order \in [Consumers -> Entry])'
    BY <1>11, <1>T5 DEF DryRunFill, RetryOrGiveUp, ReturnOutcome, Entry
  <2>4. (at \in [Consumers -> Nat] /\ last \in [Consumers -> Nat])'
    BY <1>11, <1>T4 DEF DryRunFill, RetryOrGiveUp, ReturnOutcome
  <2> QED
    BY <1>11, <2>1, <2>2, <2>3, <2>4 DEF DryRunFill, TypeOK
<1>12. ASSUME NEW c \in Consumers, SetStatus(c) PROVE TypeOK'
  <2>1. (pc \in [Consumers -> PC])'
    BY <1>12, <1>T2, GotoPC, Labels DEF SetStatus
  <2>2. (trade \in [Keys -> Status])'
    BY <1>12, <1>T3 DEF SetStatus, ResultStatus, Status
  <2> QED
    BY <1>12, <2>1, <2>2 DEF SetStatus, TypeOK
<1>13. ASSUME NEW c \in Consumers, Publish(c) PROVE TypeOK'
  <2>1. (pc \in [Consumers -> PC])'
    BY <1>13, <1>T2, GotoPC, Labels DEF Publish
  <2>2. order[c] \in Keys
    BY <1>13 DEF Publish, OrderParsed, Owns, Owning
  <2>3. (filledEvents \in [Keys -> Nat])'
    BY <1>13, <1>T7, <2>2 DEF Publish
  <2>4. (rejectedEvents \in [Keys -> Nat])'
    BY <1>13, <1>T7, <2>2 DEF Publish
  <2> QED
    BY <1>13, <2>1, <2>3, <2>4 DEF Publish, TypeOK
<1>14. ASSUME NEW c \in Consumers, CacheResult(c) PROVE TypeOK'
  <2>1. (pc \in [Consumers -> PC])'
    BY <1>14, <1>T2, GotoPC, Labels DEF CacheResult
  <2>2. order[c] \in Keys
    BY <1>14 DEF CacheResult, OrderParsed, Owns, Owning
  <2>3. (cached \subseteq Keys)'
    BY <1>14, <1>T8, <2>2 DEF CacheResult
  <2> QED
    BY <1>14, <2>1, <2>3 DEF CacheResult, TypeOK
<1>15. ASSUME NEW c \in Consumers, Audit(c) PROVE TypeOK'
  <2>1. (pc \in [Consumers -> PC])'
    BY <1>15, <1>T2, GotoPC, Labels DEF Audit
  <2>2. order[c] \in Keys
    BY <1>15 DEF Audit, OrderParsed, Owns, Owning
  <2>3. (audited \subseteq Keys)'
    BY <1>15, <1>T8, <2>2 DEF Audit
  <2> QED
    BY <1>15, <2>1, <2>3 DEF Audit, TypeOK
<1>16. ASSUME NEW c \in Consumers, Ack(c) PROVE TypeOK'
  <2>1. (pc \in [Consumers -> PC])'
    BY <1>16, <1>T2, GotoPC, Labels DEF Ack
  <2>2. (pel \subseteq 1 .. Len(stream))'
    BY <1>16, <1>T1 DEF Ack
  <2>3. (order \in [Consumers -> Entry])'
    BY <1>16, <1>T5 DEF Ack, ClearLocals, Entry
  <2>4. (attempts \in [Consumers -> 0 .. MaxAttempts])'
    BY <1>16, <1>T5, ConstantsAssumption DEF Ack, ClearLocals
  <2>5. (outcome \in [Consumers -> Outcome])'
    BY <1>16, <1>T5 DEF Ack, ClearLocals, Outcome
  <2>6. (at \in [Consumers -> Nat] /\ last \in [Consumers -> Nat])'
    BY <1>16, <1>T4 DEF Ack
  <2> QED
    BY <1>16, <2>1, <2>2, <2>3, <2>4, <2>5, <2>6 DEF Ack, ClearLocals, TypeOK
<1>17. ASSUME NEW c \in Consumers, Crash(c) PROVE TypeOK'
  <2>1. (pc \in [Consumers -> PC])'
    BY <1>17, <1>T2, GotoPC, Labels DEF Crash
  <2>2. (order \in [Consumers -> Entry])'
    BY <1>17, <1>T5 DEF Crash, ClearLocals, Entry
  <2>3. (attempts \in [Consumers -> 0 .. MaxAttempts])'
    BY <1>17, <1>T5, ConstantsAssumption DEF Crash, ClearLocals
  <2>4. (outcome \in [Consumers -> Outcome])'
    BY <1>17, <1>T5 DEF Crash, ClearLocals, Outcome
  <2>5. (at \in [Consumers -> Nat] /\ last \in [Consumers -> Nat])'
    BY <1>17, <1>T4 DEF Crash
  <2> QED
    BY <1>17, <2>1, <2>2, <2>3, <2>4, <2>5 DEF Crash, ClearLocals, TypeOK
<1>18. ASSUME NEW c \in Consumers, Cancel(c) PROVE TypeOK'
  <2>1. (pc \in [Consumers -> PC])'
    BY <1>18, <1>T2, GotoPC, Labels DEF Cancel
  <2> QED
    BY <1>18, <2>1 DEF Cancel, TypeOK
<1>19. ASSUME NEW k \in Keys, CacheExpire(k) PROVE TypeOK'
  BY <1>19 DEF CacheExpire, TypeOK
<1>20. CASE RedisLosesGroup
  <2>1. (cursor \in 0 .. Len(stream))' /\ redisFaults' \in Nat
    BY <1>20 DEF RedisLosesGroup, TypeOK
  <2> QED
    BY <1>20, <2>1 DEF RedisLosesGroup, TypeOK
<1>21. CASE RedisRewinds
  <2>1. (cursor \in 0 .. Len(stream))' /\ (pel \subseteq 1 .. Len(stream))'
    BY <1>21, <1>T1 DEF RedisRewinds
  <2> QED
    BY <1>21, <2>1 DEF RedisRewinds, TypeOK
<1>22. CASE UNCHANGED vars
  BY <1>22 DEF vars, TypeOK
<1> QED
  BY <1>1, <1>2, <1>3, <1>4, <1>5, <1>6, <1>7, <1>8, <1>9, <1>10, <1>11, <1>12, <1>13, <1>14, <1>15, <1>16, <1>17, <1>18, <1>19, <1>20, <1>21, <1>22, <1>24
     DEF Next, Worker, Handle, Environment

-----------------------------------------------------------------------------
(* A worker that claims or owns a key holds a parsed order                  *)

LEMMA InitOrderParsed == Init => OrderParsed
BY DEF Init, OrderParsed, Owns, Owning

LEMMA NextOrderParsed == TypeOK /\ OrderParsed /\ [Next]_vars => OrderParsed'
<1> SUFFICES ASSUME TypeOK, OrderParsed, [Next]_vars PROVE OrderParsed'
  OBVIOUS
<1>0. /\ pc \in [Consumers -> PC]
      /\ order \in [Consumers -> Entry]
  BY DEF TypeOK
<1> USE <1>0 DEF OrderParsed, Owns, Owning, Goto
<1>1. ASSUME UNCHANGED <<pc, order>> PROVE OrderParsed'
  BY <1>1
<1>2. ASSUME NEW c \in Consumers, Start(c) \/ Drain(c) PROVE OrderParsed'
  BY <1>2 DEF Start, Drain, Deliver
<1>3. ASSUME NEW c \in Consumers,
             DropMalformed(c) \/ SuppressCached(c) \/ SuppressClaimed(c)
      PROVE  OrderParsed'
  BY <1>3 DEF DropMalformed, SuppressCached, SuppressClaimed
<1>4. ASSUME NEW c \in Consumers, MissCache(c) PROVE OrderParsed'
  BY <1>4 DEF MissCache
<1>5. ASSUME NEW c \in Consumers, InsertPending(c) PROVE OrderParsed'
  BY <1>5 DEF InsertPending
<1>6. ASSUME NEW c \in Consumers, OrderSend(c) \/ DryRunFill(c) PROVE OrderParsed'
  BY <1>6 DEF OrderSend, DryRunFill, RetryOrGiveUp, ReturnOutcome
<1>7. ASSUME NEW c \in Consumers, SetStatus(c) \/ Publish(c) PROVE OrderParsed'
  BY <1>7 DEF SetStatus, Publish
<1>8. ASSUME NEW c \in Consumers,
             CacheResult(c) \/ Audit(c) \/ Cancel(c) \/ DeliveryLost(c)
      PROVE  OrderParsed'
  BY <1>8 DEF CacheResult, Audit, Cancel, DeliveryLost
<1>9. ASSUME NEW c \in Consumers, Ack(c) PROVE OrderParsed'
  BY <1>9 DEF Ack, ClearLocals
<1>10. ASSUME NEW c \in Consumers, Crash(c) PROVE OrderParsed'
  BY <1>10 DEF Crash, ClearLocals
<1>11. ASSUME NEW c \in Consumers, RecreateGroup(c) PROVE OrderParsed'
  BY <1>1, <1>11 DEF RecreateGroup
<1>12. CASE \E e \in Entry : Submit(e)
  BY <1>1, <1>12 DEF Submit
<1>13. CASE \E k \in Keys : CacheExpire(k)
  BY <1>1, <1>13 DEF CacheExpire
<1>14. CASE RedisLosesGroup \/ RedisRewinds
  BY <1>1, <1>14 DEF RedisLosesGroup, RedisRewinds
<1>15. CASE UNCHANGED vars
  BY <1>1, <1>15 DEF vars
<1> QED
  BY <1>2, <1>3, <1>4, <1>5, <1>6, <1>7, <1>8, <1>9, <1>10, <1>11, <1>12, <1>13,
     <1>14, <1>15 DEF Next, Worker, Handle, Environment

(* The rows, sends and orders the code writes are always well formed: every *)
(* trades row has a status the schema allows, every worker is at an await   *)
(* of its program, every counter stays in range.                            *)
THEOREM TypeCorrect == Spec => [](TypeOK /\ OrderParsed)
<1>1. Init => TypeOK /\ OrderParsed
  BY InitTypeOK, InitOrderParsed
<1>2. TypeOK /\ OrderParsed /\ [Next]_vars => TypeOK' /\ OrderParsed'
  BY NextTypeOK, NextOrderParsed
<1> QED
  BY <1>1, <1>2, PTL DEF Spec

-----------------------------------------------------------------------------
(* The protocol invariant.  Most actions are quiet: they change no row,      *)
(* counter or event, remove cache values at most, and leave every remaining  *)
(* owner where it was.  The six loud ones are treated one by one.            *)

Quiet ==
    /\ UNCHANGED <<trade, orderSends, deals, filledEvents, rejectedEvents>>
    /\ cached' \subseteq cached
    /\ \A c \in Consumers :
         Owns(c)' =>
           /\ pc[c] = pc'[c] \/ (pc[c] = "send" /\ pc'[c] = "abandoned")
           /\ order'[c] = order[c]
           /\ attempts'[c] = attempts[c]
           /\ outcome'[c] = outcome[c]

LEMMA QuietKeepsProtocol == ProtocolInv /\ Quiet => ProtocolInv'
<1> SUFFICES ASSUME ProtocolInv, Quiet PROVE ProtocolInv'
  OBVIOUS
<1> USE DEF Quiet
<1>1. OneOwner'
  BY DEF ProtocolInv, OneOwner, Owns, Owning
<1>2. OwnerKnows'
  BY DEF ProtocolInv, OwnerKnows, WorkerKnows, Owns, Owning, ResultStatus
<1>3. UnsettledIsSilent' /\ UnclaimedIsUntouched' /\ SendsBounded' /\ SingleDeal'
  BY DEF ProtocolInv, UnsettledIsSilent, UnclaimedIsUntouched, SendsBounded, SingleDeal
<1>4. OneAnnouncedOutcome' /\ LedgerMatchesBroker' /\ CachedOutcomeWasAnnounced'
  BY DEF ProtocolInv, OneAnnouncedOutcome, LedgerMatchesBroker, CachedOutcomeWasAnnounced
<1> QED
  BY <1>1, <1>2, <1>3, <1>4 DEF ProtocolInv

LEMMA InitProtocol == Init => ProtocolInv
<1> SUFFICES ASSUME Init PROVE ProtocolInv
  OBVIOUS
<1>1. OneOwner /\ OwnerKnows
  BY DEF Init, OneOwner, OwnerKnows, WorkerKnows, Owns, Owning
<1>2. UnsettledIsSilent /\ UnclaimedIsUntouched /\ SendsBounded /\ SingleDeal
  BY ConstantsAssumption
     DEF Init, UnsettledIsSilent, UnclaimedIsUntouched, SendsBounded, SingleDeal
<1>3. OneAnnouncedOutcome /\ LedgerMatchesBroker /\ CachedOutcomeWasAnnounced
  BY DEF Init, OneAnnouncedOutcome, LedgerMatchesBroker, CachedOutcomeWasAnnounced
<1> QED
  BY <1>1, <1>2, <1>3 DEF ProtocolInv

LEMMA QuietActions ==
  ASSUME TypeOK, [Next]_vars,
         ~ \E c \in Consumers : InsertPending(c) \/ OrderSend(c) \/ DryRunFill(c)
                              \/ SetStatus(c) \/ Publish(c) \/ CacheResult(c)
  PROVE  Quiet
<1>0. pc \in [Consumers -> PC]
  BY DEF TypeOK
<1> USE <1>0 DEF Quiet, Owns, Owning, Goto
<1>1. ASSUME UNCHANGED <<pc, order, attempts, outcome, trade, orderSends, deals>>,
             UNCHANGED eventVars, cached' \subseteq cached
      PROVE  Quiet
  BY <1>1
<1>2. ASSUME NEW c \in Consumers, Start(c) \/ Drain(c) PROVE Quiet
  BY <1>2 DEF Start, EnsureGroup, Drain, Deliver
<1>3. ASSUME NEW c \in Consumers,
             DropMalformed(c) \/ SuppressCached(c) \/ SuppressClaimed(c)
      PROVE  Quiet
  BY <1>3 DEF DropMalformed, SuppressCached, SuppressClaimed
<1>4. ASSUME NEW c \in Consumers, MissCache(c) PROVE Quiet
  BY <1>4 DEF MissCache
<1>5. ASSUME NEW c \in Consumers, Audit(c) \/ Cancel(c) PROVE Quiet
  BY <1>5 DEF Audit, Cancel
<1>6. ASSUME NEW c \in Consumers, Ack(c) PROVE Quiet
  BY <1>6 DEF Ack, ClearLocals
<1>7. ASSUME NEW c \in Consumers, Crash(c) PROVE Quiet
  BY <1>7 DEF Crash, ClearLocals
<1>8. ASSUME NEW c \in Consumers, RecreateGroup(c) \/ DeliveryLost(c) PROVE Quiet
  BY <1>1, <1>8 DEF RecreateGroup, EnsureGroup, DeliveryLost, Deliver
<1>9. CASE \E e \in Entry : Submit(e)
  BY <1>1, <1>9 DEF Submit
<1>10. CASE \E k \in Keys : CacheExpire(k)
  BY <1>1, <1>10 DEF CacheExpire
<1>11. CASE RedisLosesGroup \/ RedisRewinds
  BY <1>1, <1>11 DEF RedisLosesGroup, RedisRewinds
<1>12. CASE UNCHANGED vars
  BY <1>1, <1>12 DEF vars
<1> QED
  BY <1>2, <1>3, <1>4, <1>5, <1>6, <1>7, <1>8, <1>9, <1>10, <1>11, <1>12
     DEF Next, Worker, Handle, Environment

LEMMA InsertPendingProtocol ==
  ASSUME TypeOK, OrderParsed, ProtocolInv, NEW c \in Consumers, InsertPending(c)
  PROVE  ProtocolInv'
<1> DEFINE k == order[c]
<1>1. /\ pc \in [Consumers -> PC] /\ trade \in [Keys -> Status]
      /\ attempts \in [Consumers -> 0 .. MaxAttempts]
  BY DEF TypeOK
<1>2. /\ k \in Keys
      /\ trade[k] = "absent"
      /\ trade' = [trade EXCEPT ![k] = "pending"]
      /\ pc' = [pc EXCEPT ![c] = "send"]
      /\ attempts' = [attempts EXCEPT ![c] = 0]
      /\ UNCHANGED <<order, outcome, orderSends, deals, filledEvents, rejectedEvents, cached>>
  BY DEF InsertPending, OrderParsed, Goto
<1>3. /\ filledEvents[k] = 0 /\ rejectedEvents[k] = 0 /\ k \notin cached
      /\ orderSends[k] = 0 /\ deals[k] = 0
  BY <1>2 DEF ProtocolInv, UnsettledIsSilent, UnclaimedIsUntouched, Settled
<1>4. \A d \in Consumers : Owns(d) => trade[order[d]] # "absent"
  BY DEF ProtocolInv, OwnerKnows, WorkerKnows, Owns, Owning, OrderParsed, ResultStatus
<1> HIDE DEF k
<1>5. OneOwner'
  BY <1>1, <1>2, <1>3, <1>4 DEF ProtocolInv, OneOwner, Owns, Owning, k
<1>6. OwnerKnows'
  BY <1>1, <1>2, <1>3, <1>4, ConstantsAssumption DEF ProtocolInv, OwnerKnows, WorkerKnows, Owns, Owning, ResultStatus, k
<1>7. UnsettledIsSilent'
  BY <1>1, <1>2, <1>3 DEF ProtocolInv, UnsettledIsSilent, Settled
<1>8. UnclaimedIsUntouched'
  BY <1>1, <1>2, <1>3 DEF ProtocolInv, UnclaimedIsUntouched
<1>9. SendsBounded'
  BY <1>1, <1>2, <1>3 DEF ProtocolInv, SendsBounded
<1>10. SingleDeal'
  BY <1>1, <1>2, <1>3 DEF ProtocolInv, SingleDeal
<1>11. OneAnnouncedOutcome'
  BY <1>1, <1>2, <1>3 DEF ProtocolInv, OneAnnouncedOutcome
<1>12. LedgerMatchesBroker'
  BY <1>1, <1>2, <1>3 DEF ProtocolInv, LedgerMatchesBroker
<1>13. CachedOutcomeWasAnnounced'
  BY <1>1, <1>2, <1>3 DEF ProtocolInv, CachedOutcomeWasAnnounced
<1> QED
  BY <1>5, <1>6, <1>7, <1>8, <1>9, <1>10, <1>11, <1>12, <1>13 DEF ProtocolInv

LEMMA OrderSendProtocol ==
  ASSUME TypeOK, OrderParsed, ProtocolInv, NEW c \in Consumers, OrderSend(c)
  PROVE  ProtocolInv'
<1> DEFINE k == order[c]
<1>1. /\ pc \in [Consumers -> PC] /\ orderSends \in [Keys -> Nat]
      /\ deals \in [Keys -> Nat] /\ outcome \in [Consumers -> Outcome]
      /\ attempts \in [Consumers -> 0 .. MaxAttempts]
      /\ order \in [Consumers -> Entry]
      /\ MaxAttempts \in Nat
  BY ConstantsAssumption DEF TypeOK
<1>2. /\ k \in Keys
      /\ pc[c] \in {"send", "abandoned"}
      /\ c \notin DryRunners
      /\ attempts' = [attempts EXCEPT ![c] = attempts[c] + 1]
      /\ orderSends' = [orderSends EXCEPT ![k] = orderSends[k] + 1]
      /\ UNCHANGED <<trade, filledEvents, rejectedEvents, cached>>
  BY DEF OrderSend, OrderParsed, Owns, Owning
<1>3. /\ trade[k] = "pending"
      /\ orderSends[k] = attempts[c]
      /\ attempts[c] < MaxAttempts
      /\ ~BrokerMayLoseReply => deals[k] = 0
  BY <1>2 DEF ProtocolInv, OwnerKnows, WorkerKnows
<1>4. \/ /\ deals' = [deals EXCEPT ![k] = deals[k] + 1]
         /\ BrokerMayLoseReply \/ ReturnOutcome(c, "accepted")
      \/ deals' = deals
  BY DEF OrderSend, DealMade, NoDealMade
<1>5. \/ /\ attempts[c] + 1 < MaxAttempts
         /\ UNCHANGED <<pc, outcome, order>>
         /\ ~BrokerMayLoseReply => deals' = deals
      \/ /\ ReturnOutcome(c, "rejected")
         /\ ~BrokerMayLoseReply => deals' = deals
      \/ /\ ReturnOutcome(c, "accepted")
         /\ deals' = [deals EXCEPT ![k] = deals[k] + 1]
  BY DEF OrderSend, DealMade, NoDealMade, RetryOrGiveUp
<1>6. \A d \in Consumers : d # c /\ Owns(d) => order[d] # k
  BY <1>2 DEF ProtocolInv, OneOwner, Owns, Owning
<1>7. \A d \in Consumers : d # c => pc'[d] = pc[d] /\ order'[d] = order[d]
                                  /\ outcome'[d] = outcome[d] /\ attempts'[d] = attempts[d]
  BY <1>1, <1>2, <1>5 DEF ReturnOutcome, Goto
<1>8. \/ /\ pc'[c] = pc[c] /\ attempts[c] + 1 < MaxAttempts
         /\ order'[c] = k
         /\ ~BrokerMayLoseReply => deals' = deals
      \/ /\ pc'[c] = "record" /\ outcome'[c] = "rejected" /\ order'[c] = k
         /\ ~BrokerMayLoseReply => deals' = deals
      \/ /\ pc'[c] = "record" /\ outcome'[c] = "accepted" /\ order'[c] = k
         /\ deals' = [deals EXCEPT ![k] = deals[k] + 1]
      \/ pc'[c] = "down"
  BY <1>1, <1>2, <1>5 DEF ReturnOutcome, Goto
<1>9. \A j \in Keys : j # k => orderSends'[j] = orderSends[j] /\ deals'[j] = deals[j]
  BY <1>1, <1>2, <1>4
<1>10. /\ orderSends'[k] = attempts'[c] /\ orderSends'[k] <= MaxAttempts
       /\ orderSends'[k] > 0 /\ attempts'[c] = attempts[c] + 1
       /\ deals'[k] \in Nat /\ deals'[k] <= deals[k] + 1
       /\ ~BrokerMayLoseReply => deals'[k] <= 1
  BY <1>1, <1>2, <1>3, <1>4
<1> HIDE DEF k
<1>11. OneOwner'
  BY <1>2, <1>6, <1>7, <1>8 DEF ProtocolInv, OneOwner, Owns, Owning, k
<1>12. OwnerKnows'
  <2> SUFFICES ASSUME NEW d \in Consumers PROVE WorkerKnows(d)'
    BY DEF OwnerKnows
  <2>1. CASE d = c
    <3>1. deals' = [deals EXCEPT ![k] = deals[k] + 1] => deals'[k] >= 1
      BY <1>1, <1>2
    <3> QED
      BY <1>1, <1>2, <1>3, <1>8, <1>10, <2>1, <3>1 DEF WorkerKnows
  <2>2. CASE d # c /\ ~Owns(d)
    BY <1>7, <2>2 DEF WorkerKnows, Owns, Owning
  <2>3. CASE d # c /\ Owns(d)
    <3>1. order[d] \in Keys /\ order[d] # k
      BY <1>6, <2>3 DEF OrderParsed
    <3>2. /\ orderSends'[order[d]] = orderSends[order[d]]
          /\ deals'[order[d]] = deals[order[d]]
      BY <1>9, <3>1
    <3> QED
      BY <1>2, <1>7, <2>3, <3>1, <3>2 DEF ProtocolInv, OwnerKnows, WorkerKnows, ResultStatus
  <2> QED
    BY <2>1, <2>2, <2>3
<1>13. UnsettledIsSilent'
  BY <1>2 DEF ProtocolInv, UnsettledIsSilent
<1>14. UnclaimedIsUntouched'
  BY <1>2, <1>3, <1>9 DEF ProtocolInv, UnclaimedIsUntouched
<1>15. SendsBounded'
  BY <1>9, <1>10 DEF ProtocolInv, SendsBounded
<1>16. SingleDeal'
  BY <1>9, <1>10 DEF ProtocolInv, SingleDeal
<1>17. OneAnnouncedOutcome'
  BY <1>2 DEF ProtocolInv, OneAnnouncedOutcome
<1>18. LedgerMatchesBroker'
  BY <1>2, <1>3, <1>9 DEF ProtocolInv, LedgerMatchesBroker
<1>19. CachedOutcomeWasAnnounced'
  BY <1>2 DEF ProtocolInv, CachedOutcomeWasAnnounced
<1> QED
  BY <1>11, <1>12, <1>13, <1>14, <1>15, <1>16, <1>17, <1>18, <1>19 DEF ProtocolInv

LEMMA DryRunFillProtocol ==
  ASSUME TypeOK, OrderParsed, ProtocolInv, NEW c \in Consumers, DryRunFill(c)
  PROVE  ProtocolInv'
<1>1. /\ pc \in [Consumers -> PC] /\ outcome \in [Consumers -> Outcome]
      /\ order \in [Consumers -> Entry]
  BY DEF TypeOK
<1>2. /\ UNCHANGED <<trade, orderSends, deals, filledEvents, rejectedEvents, cached, attempts>>
      /\ c \in DryRunners
      /\ ReturnOutcome(c, "accepted")
  BY DEF DryRunFill
<1>3. /\ pc[c] \in {"send", "abandoned"}
      /\ \/ pc'[c] = "record" /\ outcome'[c] = "accepted" /\ order'[c] = order[c]
         \/ pc'[c] = "down"
  BY <1>1, <1>2 DEF ReturnOutcome, Goto
<1>4. \A d \in Consumers : d # c => /\ pc'[d] = pc[d] /\ order'[d] = order[d]
                                  /\ outcome'[d] = outcome[d]
  BY <1>1, <1>2 DEF ReturnOutcome, Goto
<1>5. OneOwner'
  BY <1>2, <1>3, <1>4 DEF ProtocolInv, OneOwner, Owns, Owning
<1>6. OwnerKnows'
  BY <1>2, <1>3, <1>4 DEF ProtocolInv, OwnerKnows, WorkerKnows, ResultStatus
<1>7. UnsettledIsSilent' /\ UnclaimedIsUntouched' /\ SendsBounded' /\ SingleDeal'
  BY <1>2, <1>3, <1>4 DEF ProtocolInv, UnsettledIsSilent, UnclaimedIsUntouched, SendsBounded, SingleDeal
<1>8. OneAnnouncedOutcome' /\ LedgerMatchesBroker' /\ CachedOutcomeWasAnnounced'
  BY <1>2, <1>3, <1>4 DEF ProtocolInv, OneAnnouncedOutcome, LedgerMatchesBroker, CachedOutcomeWasAnnounced
<1> QED
  BY <1>5, <1>6, <1>7, <1>8 DEF ProtocolInv

LEMMA SetStatusProtocol ==
  ASSUME TypeOK, OrderParsed, ProtocolInv, NEW c \in Consumers, SetStatus(c)
  PROVE  ProtocolInv'
<1> DEFINE k == order[c]
<1>1. /\ pc \in [Consumers -> PC] /\ trade \in [Keys -> Status]
      /\ outcome \in [Consumers -> Outcome]
  BY DEF TypeOK
<1>2. /\ k \in Keys /\ pc[c] = "record"
      /\ trade' = [trade EXCEPT ![k] = ResultStatus(c)]
      /\ pc' = [pc EXCEPT ![c] = "publish"]
      /\ UNCHANGED <<order, attempts, outcome, orderSends, deals, filledEvents, rejectedEvents, cached>>
  BY DEF SetStatus, OrderParsed, Owns, Owning, Goto
<1>3. /\ trade[k] = "pending" /\ outcome[c] \in {"accepted", "rejected"}
      /\ outcome[c] = "accepted" /\ c \notin DryRunners => deals[k] >= 1
      /\ outcome[c] = "accepted" /\ c \in DryRunners => orderSends[k] = 0
      /\ outcome[c] = "rejected" /\ ~BrokerMayLoseReply => deals[k] = 0
      /\ filledEvents[k] = 0 /\ rejectedEvents[k] = 0 /\ k \notin cached
  BY <1>1, <1>2 DEF ProtocolInv, OwnerKnows, WorkerKnows, UnsettledIsSilent, Settled, Outcome
<1>4. /\ trade'[k] = ResultStatus(c) /\ trade'[k] \in {"filled", "rejected"}
      /\ \A j \in Keys : j # k => trade'[j] = trade[j]
  BY <1>1, <1>2, <1>3 DEF ResultStatus
<1>5. \A d \in Consumers : d # c /\ Owns(d) => order[d] \in Keys /\ order[d] # k
  BY <1>2 DEF ProtocolInv, OneOwner, Owns, Owning, OrderParsed
<1> HIDE DEF k
<1>6. OneOwner'
  BY <1>1, <1>2 DEF ProtocolInv, OneOwner, Owns, Owning
<1>7. OwnerKnows'
  BY <1>1, <1>2, <1>3, <1>4, <1>5 DEF ProtocolInv, OwnerKnows, WorkerKnows, Owns, Owning, ResultStatus, k
<1>8. UnsettledIsSilent'
  BY <1>1, <1>2, <1>3, <1>4 DEF ProtocolInv, UnsettledIsSilent, Settled
<1>9. UnclaimedIsUntouched'
  BY <1>1, <1>2, <1>3, <1>4 DEF ProtocolInv, UnclaimedIsUntouched
<1>10. SendsBounded'
  BY <1>1, <1>2, <1>3, <1>4 DEF ProtocolInv, SendsBounded
<1>11. SingleDeal'
  BY <1>1, <1>2, <1>3, <1>4 DEF ProtocolInv, SingleDeal
<1>12. OneAnnouncedOutcome'
  BY <1>1, <1>2, <1>3, <1>4 DEF ProtocolInv, OneAnnouncedOutcome
<1>13. LedgerMatchesBroker'
  BY <1>1, <1>2, <1>3, <1>4 DEF ProtocolInv, LedgerMatchesBroker, ResultStatus
<1>14. CachedOutcomeWasAnnounced'
  BY <1>1, <1>2, <1>3, <1>4 DEF ProtocolInv, CachedOutcomeWasAnnounced
<1> QED
  BY <1>6, <1>7, <1>8, <1>9, <1>10, <1>11, <1>12, <1>13, <1>14 DEF ProtocolInv

LEMMA PublishProtocol ==
  ASSUME TypeOK, OrderParsed, ProtocolInv, NEW c \in Consumers, Publish(c)
  PROVE  ProtocolInv'
<1> DEFINE k == order[c]
<1>1. /\ pc \in [Consumers -> PC] /\ outcome \in [Consumers -> Outcome]
      /\ filledEvents \in [Keys -> Nat] /\ rejectedEvents \in [Keys -> Nat]
      /\ cached \subseteq Keys
  BY DEF TypeOK
<1>2. /\ k \in Keys /\ pc[c] = "publish"
      /\ pc' = [pc EXCEPT ![c] = "cache"]
      /\ UNCHANGED <<trade, order, attempts, outcome, orderSends, deals, cached>>
  BY DEF Publish, OrderParsed, Owns, Owning, Goto
<1>3. /\ trade[k] = ResultStatus(c)
      /\ filledEvents[k] = 0 /\ rejectedEvents[k] = 0
      /\ outcome[c] # "none"
  BY <1>2 DEF ProtocolInv, OwnerKnows, WorkerKnows
<1>4. \/ /\ trade[k] = "filled" /\ rejectedEvents' = rejectedEvents
         /\ filledEvents' = [filledEvents EXCEPT ![k] = filledEvents[k] + 1]
      \/ /\ trade[k] = "rejected" /\ filledEvents' = filledEvents
         /\ rejectedEvents' = [rejectedEvents EXCEPT ![k] = rejectedEvents[k] + 1]
  BY <1>3 DEF Publish, ResultStatus
<1>5. /\ filledEvents'[k] + rejectedEvents'[k] = 1
      /\ filledEvents'[k] = 1 => trade[k] = "filled"
      /\ rejectedEvents'[k] = 1 => trade[k] = "rejected"
      /\ trade[k] \in Settled
  BY <1>1, <1>2, <1>3, <1>4 DEF Settled
<1>6. \A j \in Keys : j # k => /\ filledEvents'[j] = filledEvents[j]
                               /\ rejectedEvents'[j] = rejectedEvents[j]
  BY <1>1, <1>4
<1>7. \A d \in Consumers : d # c /\ Owns(d) => order[d] \in Keys /\ order[d] # k
  BY <1>2 DEF ProtocolInv, OneOwner, Owns, Owning, OrderParsed
<1> HIDE DEF k
<1>8. OneOwner'
  BY <1>1, <1>2 DEF ProtocolInv, OneOwner, Owns, Owning
<1>9. OwnerKnows'
  BY <1>1, <1>2, <1>3, <1>5, <1>6, <1>7 DEF ProtocolInv, OwnerKnows, WorkerKnows, Owns, Owning, ResultStatus, k
<1>10. UnsettledIsSilent'
  BY <1>2, <1>5, <1>6 DEF ProtocolInv, UnsettledIsSilent
<1>11. UnclaimedIsUntouched'
  BY <1>2, <1>5, <1>6 DEF ProtocolInv, UnclaimedIsUntouched
<1>12. SendsBounded'
  BY <1>2, <1>5, <1>6 DEF ProtocolInv, SendsBounded
<1>13. SingleDeal'
  BY <1>2, <1>5, <1>6 DEF ProtocolInv, SingleDeal
<1>14. OneAnnouncedOutcome'
  BY <1>2, <1>5, <1>6 DEF ProtocolInv, OneAnnouncedOutcome
<1>15. LedgerMatchesBroker'
  BY <1>2, <1>5, <1>6 DEF ProtocolInv, LedgerMatchesBroker
<1>16. CachedOutcomeWasAnnounced'
  BY <1>1, <1>2, <1>5, <1>6 DEF ProtocolInv, CachedOutcomeWasAnnounced
<1> QED
  BY <1>8, <1>9, <1>10, <1>11, <1>12, <1>13, <1>14, <1>15, <1>16 DEF ProtocolInv

LEMMA CacheResultProtocol ==
  ASSUME TypeOK, OrderParsed, ProtocolInv, NEW c \in Consumers, CacheResult(c)
  PROVE  ProtocolInv'
<1> DEFINE k == order[c]
<1>1. pc \in [Consumers -> PC]
  BY DEF TypeOK
<1>2. /\ k \in Keys /\ pc[c] = "cache"
      /\ pc' = [pc EXCEPT ![c] = "audit"]
      /\ cached' = cached \cup {k}
      /\ UNCHANGED <<trade, order, attempts, outcome, orderSends, deals, filledEvents, rejectedEvents>>
  BY DEF CacheResult, OrderParsed, Owns, Owning, Goto
<1>3. filledEvents[k] + rejectedEvents[k] = 1 /\ trade[k] \in Settled
  BY <1>2 DEF ProtocolInv, OwnerKnows, WorkerKnows, ResultStatus, Settled
<1> HIDE DEF k
<1>4. OneOwner'
  BY <1>1, <1>2 DEF ProtocolInv, OneOwner, Owns, Owning
<1>5. OwnerKnows'
  BY <1>1, <1>2 DEF ProtocolInv, OwnerKnows, WorkerKnows, ResultStatus
<1>6. UnsettledIsSilent'
  BY <1>2, <1>3 DEF ProtocolInv, UnsettledIsSilent
<1>7. UnclaimedIsUntouched'
  BY <1>2, <1>3 DEF ProtocolInv, UnclaimedIsUntouched
<1>8. SendsBounded'
  BY <1>2, <1>3 DEF ProtocolInv, SendsBounded
<1>9. SingleDeal'
  BY <1>2, <1>3 DEF ProtocolInv, SingleDeal
<1>10. OneAnnouncedOutcome'
  BY <1>2, <1>3 DEF ProtocolInv, OneAnnouncedOutcome
<1>11. LedgerMatchesBroker'
  BY <1>2, <1>3 DEF ProtocolInv, LedgerMatchesBroker
<1>12. CachedOutcomeWasAnnounced'
  BY <1>2, <1>3 DEF ProtocolInv, CachedOutcomeWasAnnounced
<1> QED
  BY <1>4, <1>5, <1>6, <1>7, <1>8, <1>9, <1>10, <1>11, <1>12 DEF ProtocolInv

LEMMA NextProtocol ==
  TypeOK /\ OrderParsed /\ ProtocolInv /\ [Next]_vars => ProtocolInv'
BY QuietActions, QuietKeepsProtocol, InsertPendingProtocol, OrderSendProtocol,
   DryRunFillProtocol, SetStatusProtocol, PublishProtocol, CacheResultProtocol

-----------------------------------------------------------------------------
(* Rows                                                                     *)

\* One step of RowsOnlyAdvance.
RowsAdvanceStep ==
    \A k \in Keys :
      /\ trade[k] = "absent" => trade'[k] \in {"absent", "pending"}
      /\ trade[k] = "pending" => trade'[k] # "absent"
      /\ trade[k] \in Settled => trade'[k] = trade[k]

LEMMA RowsAdvance ==
  TypeOK /\ OrderParsed /\ ProtocolInv /\ [Next]_vars => RowsAdvanceStep
<1> SUFFICES ASSUME TypeOK, OrderParsed, ProtocolInv, [Next]_vars
             PROVE  RowsAdvanceStep
  OBVIOUS
<1>0. trade \in [Keys -> Status]
  BY DEF TypeOK
<1>1. ASSUME UNCHANGED trade PROVE RowsAdvanceStep
  BY <1>1 DEF RowsAdvanceStep, Settled
<1>2. ASSUME NEW c \in Consumers, InsertPending(c) PROVE RowsAdvanceStep
  BY <1>0, <1>2 DEF InsertPending, RowsAdvanceStep, Settled
<1>3. ASSUME NEW c \in Consumers, SetStatus(c) PROVE RowsAdvanceStep
  <2>1. /\ trade[order[c]] = "pending"
        /\ trade' = [trade EXCEPT ![order[c]] = ResultStatus(c)]
    BY <1>3 DEF SetStatus, ProtocolInv, OwnerKnows, WorkerKnows
  <2> QED
    BY <1>0, <2>1 DEF RowsAdvanceStep, Settled, ResultStatus
<1>4. CASE Quiet
  BY <1>1, <1>4 DEF Quiet
<1>5. CASE \E c \in Consumers : OrderSend(c) \/ DryRunFill(c) \/ Publish(c) \/ CacheResult(c)
  BY <1>1, <1>5 DEF OrderSend, DryRunFill, Publish, CacheResult
<1> QED
  BY <1>2, <1>3, <1>4, <1>5, QuietActions

-----------------------------------------------------------------------------
(* Acknowledgements                                                         *)

LEMMA InitAck == Init => AckInv
BY DEF Init, AckInv, BatchInv, InBatch, AckedOnlyAfterClaim, Owns, Owning

\* Entries are never rewritten, so a handled entry stays handled.
LEMMA StreamGrows ==
  ASSUME TypeOK, [Next]_vars
  PROVE  /\ Len(stream) \in Nat
         /\ Len(stream) <= Len(stream)' /\ Len(stream)' \in Nat
         /\ \A i \in 1 .. Len(stream) : stream'[i] = stream[i]
<1>0. stream \in Seq(Entry)
  BY DEF TypeOK
<1>1. CASE UNCHANGED stream
  BY <1>0, <1>1
<1>2. ASSUME NEW e \in Entry, Submit(e)
      PROVE  /\ Len(stream) <= Len(stream)' /\ Len(stream)' \in Nat
             /\ \A i \in 1 .. Len(stream) : stream'[i] = stream[i]
  BY <1>0, <1>2 DEF Submit
<1>3. CASE \E c \in Consumers : Worker(c)
  <2>1. UNCHANGED stream
    BY <1>3 DEF Worker, Handle, Start, RecreateGroup, EnsureGroup, Drain, Deliver, DropMalformed,
       SuppressCached, MissCache, InsertPending, SuppressClaimed, OrderSend, DryRunFill,
       SetStatus, Publish, CacheResult, Audit, Ack
  <2> QED
    BY <1>1, <2>1, <1>0
<1>4. CASE Environment /\ ~ \E e \in Entry : Submit(e)
  <2>1. UNCHANGED stream
    BY <1>4 DEF Environment, Crash, DeliveryLost, Deliver, Cancel, CacheExpire,
       RedisLosesGroup, RedisRewinds
  <2> QED
    BY <1>1, <2>1, <1>0
<1>5. CASE UNCHANGED vars
  BY <1>0, <1>1, <1>5 DEF vars
<1> QED
  BY <1>0, <1>2, <1>3, <1>4, <1>5 DEF Next, Environment

LEMMA ClaimedStable ==
  ASSUME TypeOK, OrderParsed, ProtocolInv, [Next]_vars
  PROVE  \A i \in 1 .. Len(stream) : Claimed(i) => Claimed(i)'
<1>1. RowsAdvanceStep
  BY RowsAdvance
<1>2. \A i \in 1 .. Len(stream) : stream'[i] = stream[i] /\ stream[i] \in Entry
  BY StreamGrows DEF TypeOK
<1>3. trade \in [Keys -> Status]
  BY DEF TypeOK
<1> QED
  BY <1>1, <1>2, <1>3 DEF Claimed, RowsAdvanceStep, Entry, Settled, Status

\* A worker other than the acting one keeps its place; stated for the worker
\* whose entry, batch end, order and await did not change.
LEMMA BatchFrame ==
  ASSUME TypeOK, OrderParsed, ProtocolInv, BatchInv, [Next]_vars,
         NEW d \in Consumers,
         at'[d] = at[d], last'[d] = last[d], order'[d] = order[d],
         pc'[d] = pc[d] \/ (pc[d] = "send" /\ pc'[d] = "abandoned")
  PROVE  InBatch(d)'
<1>0. at[d] \in Nat /\ last[d] \in Nat
  BY DEF TypeOK
<1>1. pc'[d] \notin {"down", "poll"} => at[d] \in 1 .. last[d] /\ last[d] <= Len(stream)
  BY DEF BatchInv, InBatch
<1>2. (pc[d] \notin {"down", "poll"} => at[d] \in 1 .. last[d] /\ last[d] <= Len(stream))'
  BY <1>0, <1>1, StreamGrows
<1>3. (pc[d] = "claim" \/ Owns(d) => order[d] = stream[at[d]])'
  BY <1>0, <1>1, StreamGrows DEF BatchInv, InBatch, Owns, Owning
<1>4. (pc[d] = "ack" => Claimed(at[d]))'
  BY <1>0, <1>1, StreamGrows, ClaimedStable DEF BatchInv, InBatch
<1> QED
  BY <1>2, <1>3, <1>4 DEF InBatch

LEMMA NextBatch ==
  TypeOK /\ OrderParsed /\ ProtocolInv /\ AckInv /\ [Next]_vars => BatchInv'
<1> SUFFICES ASSUME TypeOK, OrderParsed, ProtocolInv, AckInv, [Next]_vars,
                    NEW d \in Consumers
             PROVE  InBatch(d)'
  BY DEF BatchInv
<1>0. /\ pc \in [Consumers -> PC] /\ at \in [Consumers -> Nat]
      /\ last \in [Consumers -> Nat] /\ order \in [Consumers -> Entry]
      /\ BatchInv /\ InBatch(d)
  BY DEF TypeOK, AckInv, BatchInv
<1> DEFINE Stays == /\ at'[d] = at[d] /\ last'[d] = last[d] /\ order'[d] = order[d]
                    /\ pc'[d] = pc[d] \/ (pc[d] = "send" /\ pc'[d] = "abandoned")
<1>1. Stays => InBatch(d)'
  BY <1>0, BatchFrame
<1>2. pc'[d] \in {"down", "poll"} => InBatch(d)'
  BY DEF InBatch, Owns, Owning
\* The next await of the same entry: d keeps its place and its order.
<1>3. ASSUME UNCHANGED <<stream, at, last>>, order'[d] = stream[at[d]],
             pc[d] \notin {"down", "poll"},
             pc'[d] = "ack" => Claimed(at[d])
      PROVE  InBatch(d)'
  <2>1. at[d] \in 1 .. last[d] /\ last[d] <= Len(stream)
    BY <1>0, <1>3 DEF InBatch
  <2>2. at[d] \in 1 .. Len(stream)
    BY <1>0, <2>1, StreamGrows
  <2> QED
    BY <1>3, <2>1, <2>2, ClaimedStable DEF InBatch
<1> HIDE DEF Stays
<1>4. ASSUME NEW c \in Consumers, Start(c) PROVE InBatch(d)'
  BY <1>0, <1>1, <1>2, <1>4 DEF Start, Goto, Stays
<1>5. ASSUME NEW c \in Consumers, RecreateGroup(c) PROVE InBatch(d)'
  BY <1>1, <1>5 DEF RecreateGroup, Stays
<1>6. ASSUME NEW c \in Consumers, Drain(c) PROVE InBatch(d)'
  <2>1. CASE c = d
    <3>1. /\ cursor \in Nat /\ Len(stream) \in Nat /\ cursor < Len(stream)
          /\ cursor' = IF cursor + BatchSize < Len(stream) THEN cursor + BatchSize
                                                          ELSE Len(stream)
      BY <1>6 DEF Drain, Deliver, TypeOK
    <3>2. cursor' \in Nat /\ cursor + 1 <= cursor' /\ cursor' <= Len(stream)
      BY <3>1, ConstantsAssumption
    <3>3. /\ at'[d] = cursor + 1 /\ last'[d] = cursor' /\ pc'[d] = "handle"
          /\ stream' = stream
      BY <1>0, <1>6, <2>1 DEF Drain, Deliver, Goto
    <3> QED
      BY <3>1, <3>2, <3>3 DEF InBatch, Owns, Owning
  <2>2. CASE c # d
    BY <1>0, <1>1, <1>6, <2>2 DEF Drain, Deliver, Goto, Stays
  <2> QED
    BY <2>1, <2>2
<1>7. ASSUME NEW c \in Consumers, DropMalformed(c) \/ SuppressCached(c) PROVE InBatch(d)'
  <2>1. CASE c = d
    <3>1. /\ UNCHANGED <<stream, at, last, order>> /\ pc'[d] = "ack" /\ pc[d] = "handle"
          /\ stream[at[d]] = NoOrder \/ stream[at[d]] \in cached
      BY <1>0, <1>7, <2>1 DEF DropMalformed, SuppressCached, Goto
    <3>2. Claimed(at[d])
      BY <3>1 DEF Claimed, ProtocolInv, UnsettledIsSilent, Settled, TypeOK
    <3>3. at[d] \in 1 .. last[d] /\ last[d] <= Len(stream) /\ at[d] \in 1 .. Len(stream)
      BY <1>0, <3>1, StreamGrows DEF InBatch
    <3> QED
      BY <3>1, <3>2, <3>3, ClaimedStable DEF InBatch, Owns, Owning
  <2>2. CASE c # d
    BY <1>0, <1>1, <1>7, <2>2 DEF DropMalformed, SuppressCached, Goto, Stays
  <2> QED
    BY <2>1, <2>2
<1>8. ASSUME NEW c \in Consumers, MissCache(c) PROVE InBatch(d)'
  <2>1. CASE c = d
    BY <1>0, <1>3, <1>8, <2>1 DEF MissCache, Goto
  <2>2. CASE c # d
    BY <1>0, <1>1, <1>8, <2>2 DEF MissCache, Goto, Stays
  <2> QED
    BY <2>1, <2>2
<1>9. ASSUME NEW c \in Consumers, SuppressClaimed(c) PROVE InBatch(d)'
  <2>1. CASE c = d
    BY <1>0, <1>3, <1>9, <2>1 DEF SuppressClaimed, Goto, InBatch, Claimed
  <2>2. CASE c # d
    BY <1>0, <1>1, <1>9, <2>2 DEF SuppressClaimed, Goto, Stays
  <2> QED
    BY <2>1, <2>2
<1>10. ASSUME NEW c \in Consumers, InsertPending(c) PROVE InBatch(d)'
  <2>1. CASE c = d
    BY <1>0, <1>3, <1>10, <2>1 DEF InsertPending, Goto, InBatch
  <2>2. CASE c # d
    BY <1>0, <1>1, <1>10, <2>2 DEF InsertPending, Goto, Stays
  <2> QED
    BY <2>1, <2>2
<1>11. ASSUME NEW c \in Consumers, OrderSend(c) \/ DryRunFill(c) PROVE InBatch(d)'
  <2>1. \/ UNCHANGED <<pc, at, last, order>>
        \/ /\ pc[c] = "send" /\ Goto(c, "record") /\ UNCHANGED <<at, last, order>>
        \/ /\ Goto(c, "down")
           /\ order' = [order EXCEPT ![c] = NoOrder]
           /\ at' = [at EXCEPT ![c] = 0]
           /\ last' = [last EXCEPT ![c] = 0]
    BY <1>11 DEF OrderSend, DryRunFill, RetryOrGiveUp, ReturnOutcome
  <2>2. UNCHANGED stream
    BY <1>11 DEF OrderSend, DryRunFill
  <2>3. CASE c = d
    <3>1. CASE UNCHANGED <<pc, at, last, order>>
      BY <1>1, <3>1 DEF Stays
    <3>2. CASE pc[c] = "send" /\ Goto(c, "record") /\ UNCHANGED <<at, last, order>>
      BY <1>0, <1>3, <2>2, <2>3, <3>2 DEF Goto, InBatch, Owns, Owning
    <3>3. CASE Goto(c, "down")
      BY <1>0, <1>2, <2>3, <3>3 DEF Goto
    <3> QED
      BY <2>1, <3>1, <3>2, <3>3
  <2>4. CASE c # d
    BY <1>0, <1>1, <2>1, <2>4 DEF Goto, Stays
  <2> QED
    BY <2>3, <2>4
<1>12. ASSUME NEW c \in Consumers, SetStatus(c) \/ Publish(c) \/ CacheResult(c)
       PROVE  InBatch(d)'
  <2>1. /\ UNCHANGED <<stream, at, last, order>>
        /\ Owns(c) /\ \E l \in {"publish", "cache", "audit"} : Goto(c, l)
    BY <1>12 DEF SetStatus, Publish, CacheResult, Owns, Owning
  <2>2. CASE c = d
    BY <1>0, <1>3, <2>1, <2>2 DEF Goto, InBatch, Owns, Owning
  <2>3. CASE c # d
    BY <1>0, <1>1, <2>1, <2>3 DEF Goto, Stays
  <2> QED
    BY <2>2, <2>3
<1>13. ASSUME NEW c \in Consumers, Audit(c) PROVE InBatch(d)'
  <2>1. CASE c = d
    <3>1. order[d] = stream[at[d]] /\ order[d] \in Keys /\ trade[order[d]] # "absent"
      BY <1>0, <1>13, <2>1 DEF Audit, InBatch, Owns, Owning, OrderParsed, ProtocolInv,
         OwnerKnows, WorkerKnows, ResultStatus
    <3>2. Claimed(at[d])
      BY <3>1 DEF Claimed
    <3> QED
      BY <1>0, <1>3, <1>13, <2>1, <3>1, <3>2 DEF Audit, Goto
  <2>2. CASE c # d
    BY <1>0, <1>1, <1>13, <2>2 DEF Audit, Goto, Stays
  <2> QED
    BY <2>1, <2>2
<1>14. ASSUME NEW c \in Consumers, Ack(c) PROVE InBatch(d)'
  <2>1. CASE c = d /\ at[c] < last[c]
    <3>1. /\ at'[d] = at[d] + 1 /\ last' = last /\ pc'[d] = "handle" /\ stream' = stream
          /\ pc[d] = "ack"
      BY <1>0, <1>14, <2>1 DEF Ack, Goto
    <3>2. at[d] + 1 \in 1 .. last[d] /\ last[d] <= Len(stream)
      BY <1>0, <2>1, <3>1 DEF InBatch
    <3> QED
      BY <3>1, <3>2 DEF InBatch, Owns, Owning
  <2>2. CASE c = d /\ ~(at[c] < last[c])
    BY <1>0, <1>2, <1>14, <2>2 DEF Ack, Goto
  <2>3. CASE c # d
    <3>1. at'[d] = at[d] /\ last'[d] = last[d] /\ pc'[d] = pc[d]
      BY <1>0, <1>14, <2>3 DEF Ack, Goto
    <3>2. order'[d] = order[d]
      BY <1>0, <1>14, <2>3 DEF Ack, ClearLocals
    <3> QED
      BY <1>1, <3>1, <3>2 DEF Stays
  <2> QED
    BY <2>1, <2>2, <2>3
<1>15. ASSUME NEW c \in Consumers, Crash(c) PROVE InBatch(d)'
  BY <1>0, <1>1, <1>2, <1>15 DEF Crash, ClearLocals, Goto, Stays
<1>16. ASSUME NEW c \in Consumers, Cancel(c) PROVE InBatch(d)'
  BY <1>0, <1>1, <1>16 DEF Cancel, Goto, Stays
<1>17. CASE (\E e \in Entry : Submit(e)) \/ (\E k \in Keys : CacheExpire(k))
  BY <1>1, <1>17 DEF Submit, CacheExpire, Stays
<1>18. CASE RedisLosesGroup \/ RedisRewinds
  BY <1>1, <1>18 DEF RedisLosesGroup, RedisRewinds, Stays
<1>19. CASE UNCHANGED vars
  BY <1>1, <1>19 DEF vars, Stays
<1>20. ASSUME NEW c \in Consumers, DeliveryLost(c) PROVE InBatch(d)'
  BY <1>0, <1>1, <1>20 DEF DeliveryLost, Deliver, Stays
<1> QED
  BY <1>4, <1>5, <1>6, <1>7, <1>8, <1>9, <1>10, <1>11, <1>12, <1>13, <1>14, <1>15,
     <1>16, <1>17, <1>18, <1>19, <1>20 DEF Next, Worker, Handle, Environment

LEMMA NextAcked ==
  TypeOK /\ OrderParsed /\ ProtocolInv /\ AckInv /\ [Next]_vars => AckedOnlyAfterClaim'
<1> SUFFICES ASSUME TypeOK, OrderParsed, ProtocolInv, AckInv, [Next]_vars,
                    NEW i \in 1 .. cursor', i \notin pel'
             PROVE  Claimed(i)'
  BY DEF AckedOnlyAfterClaim, Claimed
<1>0. /\ cursor \in Nat /\ cursor <= Len(stream) /\ Len(stream) \in Nat
      /\ pel \subseteq 1 .. Len(stream)
      /\ cursor' \in 0 .. Len(stream)'
      /\ at \in [Consumers -> Nat] /\ last \in [Consumers -> Nat]
  BY NextTypeOK DEF TypeOK
<1>1. \A j \in 1 .. cursor : j \notin pel => Claimed(j)
  BY DEF AckInv, AckedOnlyAfterClaim, Claimed
\* Acknowledged before the step, or acknowledged by it.
<1>2. ASSUME i \in 1 .. cursor, i \notin pel PROVE Claimed(i)'
  <2>1. i \in 1 .. Len(stream)
    BY <1>0, <1>2
  <2> QED
    BY <1>1, <1>2, <2>1, ClaimedStable
<1>3. ASSUME NEW c \in Consumers, Ack(c) PROVE Claimed(i)'
  <2>1. pel' = pel \ {at[c]} /\ cursor' = cursor /\ pc[c] = "ack"
    BY <1>3 DEF Ack
  <2>2. CASE i = at[c]
    <3>1. Claimed(at[c]) /\ at[c] \in 1 .. last[c] /\ last[c] <= Len(stream)
      BY <2>1 DEF AckInv, BatchInv, InBatch
    <3>2. i \in 1 .. Len(stream)
      BY <1>0, <2>2, <3>1
    <3> QED
      BY <2>2, <3>1, <3>2, ClaimedStable
  <2>3. CASE i # at[c]
    BY <1>2, <2>1, <2>3
  <2> QED
    BY <2>2, <2>3
<1>4. CASE \E c \in Consumers : Drain(c) \/ DeliveryLost(c)
  <2>1. pel' = pel \cup (cursor + 1 .. cursor')
    BY <1>4 DEF Drain, DeliveryLost, Deliver
  <2>2. i \in 1 .. cursor /\ i \notin pel
    BY <1>0, <2>1
  <2> QED
    BY <1>2, <2>2
<1>5. CASE (\E c \in Consumers : Start(c) \/ RecreateGroup(c)) \/ RedisLosesGroup
  <2>1. \/ cursor' = cursor /\ pel' = pel
        \/ cursor' = 0
    BY <1>5 DEF Start, RecreateGroup, EnsureGroup, RedisLosesGroup
  <2> QED
    BY <1>2, <2>1
<1>6. CASE RedisRewinds
  <2>1. PICK n \in 0 .. cursor : cursor' = n /\ pel \cap (1 .. n) \subseteq pel'
    BY <1>6 DEF RedisRewinds
  <2>2. i \in 1 .. cursor /\ i \notin pel
    BY <1>0, <2>1
  <2> QED
    BY <1>2, <2>2
<1>7. CASE UNCHANGED <<cursor, pel>>
  BY <1>2, <1>7
<1>8. CASE \E c \in Consumers : Handle(c)
  <2>1. UNCHANGED <<cursor, pel>>
    BY <1>8 DEF Handle, DropMalformed, SuppressCached, MissCache, InsertPending,
       SuppressClaimed, OrderSend, DryRunFill, SetStatus, Publish, CacheResult, Audit
  <2> QED
    BY <1>7, <2>1
<1>9. CASE /\ Environment /\ ~RedisLosesGroup /\ ~RedisRewinds
           /\ ~ \E c \in Consumers : DeliveryLost(c)
  <2>1. UNCHANGED <<cursor, pel>>
    BY <1>9 DEF Environment, Submit, Crash, Cancel, CacheExpire
  <2> QED
    BY <1>7, <2>1
<1>10. CASE UNCHANGED vars
  BY <1>7, <1>10 DEF vars
<1> QED
  BY <1>3, <1>4, <1>5, <1>6, <1>8, <1>9, <1>10 DEF Next, Worker, Environment

-----------------------------------------------------------------------------
(* Orders without a reported outcome                                        *)

Reporting(c) == pc[c] \in {"send", "record", "publish"}

\* As long as rows and events stay, an order becomes unreported only when a
\* worker on its way to report it stops being so.
LEMMA WorkersReport ==
  ASSUME UNCHANGED <<trade, filledEvents, rejectedEvents>>,
         NEW c \in Consumers,
         \A d \in Consumers \ {c} : pc'[d] = pc[d] /\ order'[d] = order[d]
  PROVE  /\ Unreported' \subseteq Unreported \cup {order[c]}
         /\ ~Reporting(c) => Unreported' \subseteq Unreported
BY DEF Unreported, Reporting

\* A step leaves at most one more order unreported, and is then counted.
LEMMA UnreportedGrows ==
  ASSUME TypeOK, OrderParsed, [Next]_vars
  PROVE  \/ /\ Unreported' \subseteq Unreported
            /\ crashes' = crashes \/ crashes' = crashes + 1
         \/ /\ \E k \in Entry : Unreported' \subseteq Unreported \cup {k}
            /\ crashes' = crashes + 1
<1>0. /\ pc \in [Consumers -> PC] /\ order \in [Consumers -> Entry]
      /\ trade \in [Keys -> Status]
      /\ filledEvents \in [Keys -> Nat] /\ rejectedEvents \in [Keys -> Nat]
  BY DEF TypeOK
<1>1. CASE UNCHANGED <<trade, pc, order, filledEvents, rejectedEvents>>
           /\ crashes' \in {crashes, crashes + 1}
  BY <1>1 DEF Unreported
<1>2. ASSUME NEW c \in Consumers,
             Start(c) \/ Drain(c) \/ DropMalformed(c) \/ SuppressCached(c)
               \/ MissCache(c) \/ SuppressClaimed(c)
               \/ CacheResult(c) \/ Audit(c) \/ Ack(c)
      PROVE  Unreported' \subseteq Unreported /\ crashes' = crashes
  <2>1. /\ UNCHANGED <<trade, filledEvents, rejectedEvents, crashes>>
        /\ ~Reporting(c)
    BY <1>2 DEF Start, EnsureGroup, Drain, Deliver, DropMalformed, SuppressCached,
       MissCache, SuppressClaimed, CacheResult, Audit, Ack, Reporting
  <2>2. \A d \in Consumers \ {c} : pc'[d] = pc[d]
    BY <1>0, <1>2 DEF Start, Drain, DropMalformed, SuppressCached,
       MissCache, SuppressClaimed, CacheResult, Audit, Ack, Goto
  <2>3. \A d \in Consumers \ {c} : order'[d] = order[d]
    BY <1>0, <1>2 DEF Start, Drain, DropMalformed, SuppressCached,
       MissCache, SuppressClaimed, CacheResult, Audit, Ack, ClearLocals
  <2> QED
    BY <2>1, <2>2, <2>3, WorkersReport
<1>3. ASSUME NEW c \in Consumers, OrderSend(c) \/ DryRunFill(c) \/ SetStatus(c)
      PROVE  Unreported' \subseteq Unreported /\ crashes' = crashes
  <2>1. CASE SetStatus(c)
    <3>1. order[c] \in Keys /\ trade[order[c]] \in Status
      BY <1>0, <2>1 DEF SetStatus, OrderParsed, Owns, Owning
    <3>2. /\ trade' = [trade EXCEPT ![order[c]] = ResultStatus(c)]
          /\ pc[c] = "record" /\ pc' = [pc EXCEPT ![c] = "publish"]
          /\ UNCHANGED <<order, filledEvents, rejectedEvents, crashes>>
      BY <2>1 DEF SetStatus, Goto
    <3> QED
      BY <1>0, <3>1, <3>2 DEF Unreported
  <2>2. CASE OrderSend(c) \/ DryRunFill(c)
    <3>1. /\ UNCHANGED <<trade, filledEvents, rejectedEvents, crashes>>
          /\ \/ UNCHANGED <<pc, order>>
             \/ pc[c] = "send" /\ pc' = [pc EXCEPT ![c] = "record"] /\ UNCHANGED order
             \/ /\ pc[c] = "abandoned" /\ pc' = [pc EXCEPT ![c] = "down"]
                /\ order' = [order EXCEPT ![c] = NoOrder]
      BY <2>2 DEF OrderSend, DryRunFill, RetryOrGiveUp, ReturnOutcome, Goto
    <3> QED
      BY <1>0, <3>1 DEF Unreported
  <2> QED
    BY <1>3, <2>1, <2>2
<1>4. ASSUME NEW c \in Consumers, InsertPending(c)
      PROVE  Unreported' \subseteq Unreported /\ crashes' = crashes
  <2>1. /\ order[c] \in Keys
        /\ trade' = [trade EXCEPT ![order[c]] = "pending"]
        /\ pc[c] = "claim" /\ pc' = [pc EXCEPT ![c] = "send"]
        /\ UNCHANGED <<order, filledEvents, rejectedEvents, crashes>>
    BY <1>4 DEF InsertPending, OrderParsed, Goto
  <2> QED
    BY <1>0, <2>1 DEF Unreported
<1>5. ASSUME NEW c \in Consumers, Publish(c)
      PROVE  Unreported' \subseteq Unreported /\ crashes' = crashes
  <2>1. /\ order[c] \in Keys
        /\ pc' = [pc EXCEPT ![c] = "cache"]
        /\ UNCHANGED <<order, trade, crashes>>
    BY <1>5 DEF Publish, OrderParsed, Owns, Owning, Goto
  <2>2. /\ \A k \in Keys \ {order[c]} : /\ filledEvents'[k] = filledEvents[k]
                                        /\ rejectedEvents'[k] = rejectedEvents[k]
        /\ filledEvents'[order[c]] # 0 \/ rejectedEvents'[order[c]] # 0
    BY <1>0, <1>5, <2>1 DEF Publish
  <2> QED
    BY <1>0, <2>1, <2>2 DEF Unreported
<1>6. ASSUME NEW c \in Consumers, Crash(c) \/ Cancel(c)
      PROVE  /\ \E k \in Entry : Unreported' \subseteq Unreported \cup {k}
             /\ crashes' = crashes + 1
  <2>1. /\ UNCHANGED <<trade, filledEvents, rejectedEvents>>
        /\ crashes' = crashes + 1
    BY <1>6 DEF Crash, Cancel
  <2>2. \A d \in Consumers \ {c} : pc'[d] = pc[d] /\ order'[d] = order[d]
    BY <1>0, <1>6 DEF Crash, Cancel, ClearLocals, Goto
  <2>3. order[c] \in Entry
    BY <1>0
  <2> QED
    BY <2>1, <2>2, <2>3, WorkersReport
<1>7. CASE \/ \E c \in Consumers : RecreateGroup(c) \/ DeliveryLost(c)
           \/ \E e \in Entry : Submit(e)
           \/ \E k \in Keys : CacheExpire(k)
           \/ RedisLosesGroup \/ RedisRewinds
           \/ UNCHANGED vars
  BY <1>1, <1>7 DEF RecreateGroup, EnsureGroup, DeliveryLost, Deliver, Submit,
     CacheExpire, RedisLosesGroup, RedisRewinds, vars
<1> QED
  BY <1>2, <1>3, <1>4, <1>5, <1>6, <1>7 DEF Next, Worker, Handle, Environment

CountInv == IsFiniteSet(Unreported) /\ UnreportedBounded

LEMMA InitCount == Init => CountInv
<1> SUFFICES ASSUME Init PROVE CountInv
  OBVIOUS
<1>1. Unreported = {}
  BY DEF Init, Unreported
<1> QED
  BY <1>1, FS_EmptySet DEF Init, CountInv, UnreportedBounded

LEMMA NextCount == TypeOK /\ OrderParsed /\ CountInv /\ [Next]_vars => CountInv'
<1> SUFFICES ASSUME TypeOK, OrderParsed, CountInv, [Next]_vars PROVE CountInv'
  OBVIOUS
<1>1. IsFiniteSet(Unreported)
  BY DEF CountInv
<1>2. PICK n \in Nat : n = Cardinality(Unreported) /\ n <= crashes /\ crashes \in Nat
  BY <1>1, FS_CardinalityType DEF CountInv, UnreportedBounded, TypeOK
<1>3. ASSUME Unreported' \subseteq Unreported,
             crashes' = crashes \/ crashes' = crashes + 1
      PROVE  CountInv'
  <2>1. IsFiniteSet(Unreported')
    BY <1>1, <1>3, FS_Subset
  <2>2. PICK m \in Nat : m = Cardinality(Unreported') /\ m <= n
    BY <1>1, <1>2, <1>3, <2>1, FS_Subset, FS_CardinalityType
  <2>3. m <= crashes'
    BY <1>2, <1>3, <2>2
  <2> QED
    BY <2>1, <2>2, <2>3 DEF CountInv, UnreportedBounded
<1>4. ASSUME NEW k \in Entry, Unreported' \subseteq Unreported \cup {k},
             crashes' = crashes + 1
      PROVE  CountInv'
  <2> DEFINE S == Unreported \cup {k}
  <2>1. /\ IsFiniteSet(S)
        /\ Cardinality(S) = n \/ Cardinality(S) = n + 1
    BY <1>1, <1>2, FS_AddElement
  <2>2. PICK s \in Nat : s = Cardinality(S) /\ s <= n + 1
    BY <1>2, <2>1
  <2>3. IsFiniteSet(Unreported')
    BY <1>4, <2>1, FS_Subset
  <2>4. PICK m \in Nat : m = Cardinality(Unreported') /\ m <= s
    BY <1>4, <2>1, <2>2, <2>3, FS_Subset, FS_CardinalityType
  <2>5. m <= crashes'
    BY <1>2, <1>4, <2>2, <2>4
  <2> QED
    BY <2>3, <2>4, <2>5 DEF CountInv, UnreportedBounded
<1> QED
  BY <1>3, <1>4, UnreportedGrows

-----------------------------------------------------------------------------
(* The theorems                                                             *)

LEMMA Inductive == Spec => []IInv
<1>1. Init => IInv
  BY InitTypeOK, InitOrderParsed, InitProtocol, InitAck DEF IInv
<1>2. IInv /\ [Next]_vars => IInv'
  BY NextTypeOK, NextOrderParsed, NextProtocol, NextBatch, NextAcked DEF IInv, AckInv
<1> QED
  BY <1>1, <1>2, PTL DEF Spec

(* However often an order is duplicated or redelivered and whoever crashes, *)
(* one key costs at most MAX_ATTEMPTS order_send calls.                     *)
THEOREM AtMostMaxAttempts == Spec => []SendsBounded
<1>1. IInv => SendsBounded
  BY DEF IInv, ProtocolInv
<1> QED
  BY <1>1, Inductive, PTL

(* With a broker that reports every deal it makes, one key opens at most    *)
(* one position.                                                            *)
THEOREM AtMostOneDeal == Spec => []SingleDeal
<1>1. IInv => SingleDeal
  BY DEF IInv, ProtocolInv
<1> QED
  BY <1>1, Inductive, PTL

(* order.filled and order.rejected carry one outcome per key, the one in    *)
(* the trades row, once.                                                    *)
THEOREM AnnouncedOnce == Spec => []OneAnnouncedOutcome
<1>1. IInv => OneAnnouncedOutcome
  BY DEF IInv, ProtocolInv
<1> QED
  BY <1>1, Inductive, PTL

(* The trades table never claims a fill the broker did not make, nor a      *)
(* rejection of a deal it made, and a dry run never reaches the broker.     *)
THEOREM TruthfulLedger == Spec => []LedgerMatchesBroker
<1>1. IInv => LedgerMatchesBroker
  BY DEF IInv, ProtocolInv
<1> QED
  BY <1>1, Inductive, PTL

(* A duplicate is hidden by the Redis fast path only after the outcome of   *)
(* its order was announced.                                                 *)
THEOREM CacheIsLate == Spec => []CachedOutcomeWasAnnounced
<1>1. IInv => CachedOutcomeWasAnnounced
  BY DEF IInv, ProtocolInv
<1> QED
  BY <1>1, Inductive, PTL

(* No order leaves the pending entries list before it is claimed.           *)
THEOREM AckedIsClaimed == Spec => []AckedOnlyAfterClaim
<1>1. IInv => AckedOnlyAfterClaim
  BY DEF IInv, AckInv
<1> QED
  BY <1>1, Inductive, PTL

(* Every claimed order is reported by order.filled or order.rejected, or is *)
(* the one a killed or cancelled worker held: _handle has no other way out  *)
(* between insert_pending and publish.                                      *)
THEOREM LostReportsAreCrashes == Spec => []UnreportedBounded
<1>1. Init => CountInv
  BY InitCount
<1>2. IInv /\ CountInv /\ [Next]_vars => CountInv'
  BY NextCount DEF IInv
<1>3. CountInv => UnreportedBounded
  BY DEF CountInv
<1> QED
  BY <1>1, <1>2, <1>3, Inductive, PTL DEF Spec

(* The unconditional UPDATE of set_status never rewrites a settled row.     *)
THEOREM RowsNeverRegress == Spec => RowsOnlyAdvance
<1>1. IInv /\ [Next]_vars => [RowsAdvanceStep]_vars
  BY RowsAdvance DEF IInv
<1>2. Spec => [][RowsAdvanceStep]_vars
  BY <1>1, Inductive, PTL DEF Spec
<1> QED
  BY <1>2 DEF RowsOnlyAdvance, RowsAdvanceStep

-----------------------------------------------------------------------------
(* Refinement of OrderLedger                                                *)

LEMMA InitRefines == Init => Ledger!Init
BY DEF Init, Ledger!Init, Ledger!Nothing

\* The steps that change no row, no counter and no event are stutters.
LEMMA LedgerStutters ==
  UNCHANGED <<trade, orderSends, filledEvents, rejectedEvents>>
    => UNCHANGED Ledger!ledgerVars
BY DEF Ledger!ledgerVars

LEMMA ClaimRefines ==
  ASSUME TypeOK, OrderParsed, NEW c \in Consumers, InsertPending(c)
  PROVE  Ledger!Next
<1>1. order[c] \in Keys
  BY DEF OrderParsed, InsertPending
<1>2. Ledger!Claim(order[c])
  BY DEF InsertPending, brokerVars, eventVars, Ledger!Claim
<1> QED
  BY <1>1, <1>2 DEF Ledger!Next

LEMMA SendRefines ==
  ASSUME TypeOK, OrderParsed, ProtocolInv, NEW c \in Consumers, OrderSend(c)
  PROVE  Ledger!Next
<1>1. order[c] \in Keys
  BY DEF OrderParsed, OrderSend, Owns, Owning
<1>2. /\ trade[order[c]] = "pending"
      /\ orderSends[order[c]] < MaxAttempts
  BY DEF OrderSend, ProtocolInv, OwnerKnows, WorkerKnows
<1>3. Ledger!Send(order[c])
  BY <1>2 DEF OrderSend, dbVars, eventVars, Ledger!Send
<1> QED
  BY <1>1, <1>3 DEF Ledger!Next

LEMMA SettleRefines ==
  ASSUME TypeOK, OrderParsed, ProtocolInv, NEW c \in Consumers, SetStatus(c)
  PROVE  Ledger!Next
<1> DEFINE k == order[c]
<1>1. k \in Keys
  BY DEF OrderParsed, SetStatus, Owns, Owning
<1>2. trade[k] = "pending" /\ outcome[c] # "none"
  BY DEF SetStatus, ProtocolInv, OwnerKnows, WorkerKnows
<1>3. outcome[c] = "rejected" \/ c \notin DryRunners => orderSends[k] > 0
  BY DEF SetStatus, ProtocolInv, OwnerKnows, WorkerKnows
<1>4. outcome[c] \in {"accepted", "rejected"}
  BY <1>2 DEF TypeOK, Outcome
<1>5. /\ trade' = [trade EXCEPT ![k] = ResultStatus(c)]
      /\ UNCHANGED <<orderSends, filledEvents, rejectedEvents>>
  BY DEF SetStatus, brokerVars, eventVars
<1>6. Ledger!Settle(k)
  BY <1>2, <1>3, <1>4, <1>5, ConstantsAssumption DEF ResultStatus, Ledger!Settle
<1> QED
  BY <1>1, <1>6 DEF Ledger!Next

LEMMA AnnounceRefines ==
  ASSUME TypeOK, OrderParsed, ProtocolInv, NEW c \in Consumers, Publish(c)
  PROVE  Ledger!Next
<1> DEFINE k == order[c]
<1>1. k \in Keys
  BY DEF OrderParsed, Publish, Owns, Owning
<1>2. /\ trade[k] = ResultStatus(c)
      /\ filledEvents[k] = 0 /\ rejectedEvents[k] = 0
  BY DEF Publish, ProtocolInv, OwnerKnows, WorkerKnows
<1>3. filledEvents \in [Keys -> Nat] /\ rejectedEvents \in [Keys -> Nat]
  BY DEF TypeOK
<1> DEFINE ann == [j \in Keys |-> [filled |-> filledEvents[j], rejected |-> rejectedEvents[j]]]
<1>4. CASE outcome[c] = "accepted"
  <2>1. /\ filledEvents' = [filledEvents EXCEPT ![k] = 1]
        /\ UNCHANGED <<rejectedEvents, trade, orderSends>>
    BY <1>1, <1>2, <1>3, <1>4 DEF Publish, dbVars, brokerVars
  <2>2. ann' = [ann EXCEPT ![k].filled = 1]
    BY <1>1, <1>3, <2>1
  <2> QED
    BY <1>1, <1>2, <1>4, <2>1, <2>2
       DEF Ledger!Next, Ledger!Announce, Ledger!Nothing, ResultStatus
<1>5. CASE outcome[c] # "accepted"
  <2>1. /\ rejectedEvents' = [rejectedEvents EXCEPT ![k] = 1]
        /\ UNCHANGED <<filledEvents, trade, orderSends>>
    BY <1>1, <1>2, <1>3, <1>5 DEF Publish, dbVars, brokerVars
  <2>2. ann' = [ann EXCEPT ![k].rejected = 1]
    BY <1>1, <1>3, <2>1
  <2> QED
    BY <1>1, <1>2, <1>5, <2>1, <2>2
       DEF Ledger!Next, Ledger!Announce, Ledger!Nothing, ResultStatus
<1> QED
  BY <1>4, <1>5

LEMMA NextRefines ==
  TypeOK /\ OrderParsed /\ ProtocolInv /\ [Next]_vars
    => [Ledger!Next]_Ledger!ledgerVars
<1> SUFFICES ASSUME TypeOK, OrderParsed, ProtocolInv, [Next]_vars
             PROVE  Ledger!Next \/ UNCHANGED Ledger!ledgerVars
  OBVIOUS
<1>1. CASE Quiet
  BY <1>1, LedgerStutters DEF Quiet
<1>2. CASE \E c \in Consumers : DryRunFill(c) \/ CacheResult(c)
  BY <1>2, LedgerStutters DEF DryRunFill, CacheResult, dbVars, brokerVars, eventVars
<1> QED
  BY <1>1, <1>2, QuietActions, ClaimRefines, SendRefines, SettleRefines, AnnounceRefines

(* Streams, caches, threads, crashes and Redis faults included, the service *)
(* behaves towards a key as the abstract ledger promises: claim, send,      *)
(* settle, announce, each in its turn.                                      *)
THEOREM RefinesLedger == Spec => ImplementsLedger
<1>1. IInv /\ [Next]_vars => [Ledger!Next]_Ledger!ledgerVars
  BY NextRefines DEF IInv
<1>2. Init => Ledger!Init
  BY InitRefines
<1> QED
  BY <1>1, <1>2, Inductive, PTL DEF Spec, ImplementsLedger, Ledger!Spec
=============================================================================
