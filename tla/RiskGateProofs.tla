--------------------------- MODULE RiskGateProofs ---------------------------
(***************************************************************************)
(* Proofs about RiskGate: how far any number of instances and faults can   *)
(* exceed the limits on open positions and on the summed risk, and that a  *)
(* signal delivered once is answered once.                                 *)
(***************************************************************************)
EXTENDS RiskGate, FiniteSetTheorems, TLAPS

USE DEF redisVars, eventVars, decisionVars, envVars

-----------------------------------------------------------------------------
(* Type correctness                                                         *)

LEMMA InitTypeOK == Init => TypeOK
<1> SUFFICES ASSUME Init PROVE TypeOK
  OBVIOUS
<1> USE DEF Init
<1>1. stream \in Seq(Entry) /\ cursor \in 0 .. Len(stream)
  OBVIOUS
<1>4. account \in BOOLEAN /\ bounds \in Scenarios
  OBVIOUS
<1>2. exposure \in [Signals -> 0 .. RiskPct] /\ amount \in [Instances -> 0 .. RiskPct]
  BY ConstantsAssumption
<1>3. pc \in [Instances -> PC] /\ todo \in [Instances -> Seq(Entry)] /\ hint \in [Instances -> BOOLEAN]
  BY DEF PC
<1> QED
  BY <1>1, <1>2, <1>3, <1>4 DEF TypeOK

LEMMA GotoPC ==
  ASSUME pc \in [Instances -> PC], NEW c \in Instances, NEW l \in PC, Goto(c, l)
  PROVE  pc' \in [Instances -> PC]
BY DEF Goto

LEMMA Labels ==
  /\ "poll" \in PC /\ "hint" \in PC /\ "preflight" \in PC /\ "context" \in PC
  /\ "approve" \in PC /\ "register" \in PC /\ "reject" \in PC /\ "ack" \in PC
BY DEF PC

\* The head of a nonempty batch is an entry, and so is the rest.
LEMMA BatchParts ==
  ASSUME NEW s \in Seq(Entry), Len(s) > 0
  PROVE  Head(s) \in Entry /\ Tail(s) \in Seq(Entry) /\ Len(Tail(s)) = Len(s) - 1
OBVIOUS

LEMMA NextTypeOK == TypeOK /\ BatchInv /\ [Next]_vars => TypeOK'
<1> SUFFICES ASSUME TypeOK, BatchInv, [Next]_vars PROVE TypeOK'
  OBVIOUS
<1>1. /\ stream \in Seq(Entry) /\ Len(stream) \in Nat /\ cursor \in 0 .. Len(stream)
      /\ account \in BOOLEAN
      /\ exposure \in [Signals -> 0 .. RiskPct] /\ RiskPct \in Nat
      /\ intents \subseteq Signals /\ rejections \subseteq Signals /\ open \subseteq intents
      /\ faults \in Nat /\ rewinds \in Nat /\ blind \in Nat /\ bounds \in Scenarios
  BY ConstantsAssumption DEF TypeOK
<1>2. pc \in [Instances -> PC]
  BY DEF TypeOK
<1>3. todo \in [Instances -> Seq(Entry)]
  BY DEF TypeOK
<1>4. hint \in [Instances -> BOOLEAN] /\ amount \in [Instances -> 0 .. RiskPct]
  BY DEF TypeOK
<1>5. ASSUME NEW e \in Entry, Generate(e) PROVE TypeOK'
  <2>1. /\ stream' \in Seq(Entry) /\ Len(stream') = Len(stream) + 1
    BY <1>1, <1>5 DEF Generate
  <2> QED
    BY <1>1, <1>2, <1>3, <1>4, <1>5, <2>1 DEF Generate, TypeOK
<1>6. ASSUME NEW k \in Signals, Release(k) \/ RegistrationLost(k) PROVE TypeOK'
  <2>1. exposure' \in [Signals -> 0 .. RiskPct]
    BY <1>1, <1>6 DEF Release, RegistrationLost
  <2>2. /\ open' \subseteq intents' /\ intents' \subseteq Signals /\ faults' \in Nat
        /\ UNCHANGED <<stream, cursor, account, rejections, pc, todo, decisionVars, blind,
                       rewinds, bounds>>
    BY <1>1, <1>6 DEF Release, RegistrationLost
  <2> QED
    BY <1>1, <1>2, <1>3, <1>4, <2>1, <2>2 DEF TypeOK
<1>7. CASE AccountChanges
  BY <1>1, <1>2, <1>3, <1>4, <1>7 DEF AccountChanges, TypeOK
<1>8. CASE GroupRewinds
  BY <1>1, <1>2, <1>3, <1>4, <1>8 DEF GroupRewinds, TypeOK
<1>9. ASSUME NEW c \in Instances, Drain(c) PROVE TypeOK'
  <2>1. cursor' \in 0 .. Len(stream)
    BY <1>1, <1>9, ConstantsAssumption DEF Drain
  <2>2. SubSeq(stream, cursor + 1, cursor') \in Seq(Entry)
    BY <1>1, <2>1
  <2>3. todo' \in [Instances -> Seq(Entry)]
    BY <1>3, <1>9, <2>2 DEF Drain
  <2>4. pc' \in [Instances -> PC]
    BY <1>2, <1>9, GotoPC, Labels DEF Drain
  <2> QED
    BY <1>1, <1>4, <1>9, <2>1, <2>3, <2>4 DEF Drain, TypeOK
<1>10. ASSUME NEW c \in Instances, DropMalformed(c) \/ BalanceHint(c) \/ Preflight(c)
       PROVE  TypeOK'
  <2>1. pc' \in [Instances -> PC]
    BY <1>2, <1>10, GotoPC, Labels DEF DropMalformed, BalanceHint, Preflight
  <2>2. hint' \in [Instances -> BOOLEAN]
    BY <1>1, <1>4, <1>10 DEF DropMalformed, BalanceHint, Preflight
  <2>3. /\ UNCHANGED <<redisVars, eventVars, todo, amount, faults, rewinds, bounds>>
        /\ blind' \in Nat
    BY <1>1, <1>10 DEF DropMalformed, BalanceHint, Preflight
  <2> QED
    BY <1>1, <1>3, <1>4, <2>1, <2>2, <2>3 DEF TypeOK
<1>11. ASSUME NEW c \in Instances, SizeOrder(c) PROVE TypeOK'
  <2>1. pc' \in [Instances -> PC]
    BY <1>2, <1>11, GotoPC, Labels DEF SizeOrder
  <2>2. amount' \in [Instances -> 0 .. RiskPct]
    <3>1. amount' = amount \/ \E risk \in 1 .. RiskPct : amount' = [amount EXCEPT ![c] = risk]
      BY <1>11, ConstantsAssumption DEF SizeOrder
    <3>2. ASSUME NEW risk \in 1 .. RiskPct, amount' = [amount EXCEPT ![c] = risk]
          PROVE  amount' \in [Instances -> 0 .. RiskPct]
      <4>1. risk \in 0 .. RiskPct
        BY <1>1
      <4> QED
        BY <1>4, <3>2, <4>1
    <3> QED
      BY <1>4, <3>1, <3>2
  <2> QED
    BY <1>1, <1>3, <1>4, <1>11, <2>1, <2>2 DEF SizeOrder, TypeOK
<1>12. ASSUME NEW c \in Instances,
              PublishIntent(c) \/ RegisterExposure(c) \/ PublishRejection(c)
       PROVE  TypeOK'
  <2>1. Signal(c) \in Signals
    BY <1>12 DEF BatchInv, PublishIntent, RegisterExposure, PublishRejection
  <2>2. pc' \in [Instances -> PC]
    BY <1>2, <1>12, GotoPC, Labels DEF PublishIntent, RegisterExposure, PublishRejection
  <2>3. exposure' \in [Signals -> 0 .. RiskPct]
    BY <1>1, <1>4, <1>12, <2>1 DEF PublishIntent, RegisterExposure, PublishRejection
  <2>4. /\ intents' \subseteq Signals /\ rejections' \subseteq Signals /\ open' \subseteq intents'
        /\ UNCHANGED <<stream, cursor, account, todo, decisionVars, envVars>>
    BY <1>1, <1>12, <2>1 DEF PublishIntent, RegisterExposure, PublishRejection
  <2> QED
    BY <1>1, <1>3, <1>4, <2>2, <2>3, <2>4 DEF TypeOK
<1>13. ASSUME NEW c \in Instances, Ack(c) \/ Crash(c) PROVE TypeOK'
  <2>1. pc' \in [Instances -> PC]
    BY <1>2, <1>13, GotoPC, Labels DEF Ack, Crash
  <2>2. todo' \in [Instances -> Seq(Entry)]
    <3>1. CASE Ack(c)
      <4>1. Len(todo[c]) > 0
        BY <3>1 DEF Ack, BatchInv
      <4>2. Tail(todo[c]) \in Seq(Entry)
        BY <1>3, <4>1, BatchParts
      <4> QED
        BY <1>3, <3>1, <4>2 DEF Ack
    <3>2. CASE Crash(c)
      BY <1>3, <3>2 DEF Crash
    <3> QED
      BY <1>13, <3>1, <3>2
  <2>3. hint' \in [Instances -> BOOLEAN] /\ amount' \in [Instances -> 0 .. RiskPct]
    <3>1. hint' = [hint EXCEPT ![c] = FALSE] /\ amount' = [amount EXCEPT ![c] = 0]
      BY <1>13 DEF Ack, Crash, ForgetDecision
    <3>2. 0 \in 0 .. RiskPct
      BY <1>1
    <3> QED
      BY <1>4, <3>1, <3>2
  <2>4. faults' \in Nat /\ UNCHANGED <<redisVars, eventVars, blind, rewinds, bounds>>
    BY <1>1, <1>13 DEF Ack, Crash
  <2> QED
    BY <1>1, <2>1, <2>2, <2>3, <2>4 DEF TypeOK
<1>14. CASE UNCHANGED vars
  BY <1>1, <1>2, <1>3, <1>4, <1>14 DEF vars, TypeOK
<1> QED
  BY <1>5, <1>6, <1>7, <1>8, <1>9, <1>10, <1>11, <1>12, <1>13, <1>14 DEF Next, Instance

-----------------------------------------------------------------------------
(* Batches and intents                                                      *)

\* A step of one instance, or its crash, leaves the others where they are.
LEMMA OthersStay ==
  ASSUME TypeOK, NEW c \in Instances, Instance(c) \/ Crash(c),
         NEW d \in Instances, d # c
  PROVE  pc'[d] = pc[d] /\ todo'[d] = todo[d] /\ amount'[d] = amount[d]
<1>1. pc \in [Instances -> PC] /\ todo \in [Instances -> Seq(Entry)]
      /\ amount \in [Instances -> 0 .. RiskPct]
  BY DEF TypeOK
<1> QED
  BY <1>1 DEF Instance, Crash, Drain, DropMalformed, BalanceHint, Preflight, SizeOrder,
              PublishIntent, RegisterExposure, PublishRejection, Ack, ForgetDecision, Goto

\* The environment moves no instance.
LEMMA EnvironmentMovesNobody ==
  ASSUME [Next]_vars, ~ \E c \in Instances : Instance(c) \/ Crash(c)
  PROVE  UNCHANGED <<pc, todo, amount>>
BY DEF Next, Generate, Release, RegistrationLost, AccountChanges, GroupRewinds, vars

LEMMA NextBatchInv == TypeOK /\ BatchInv /\ [Next]_vars => BatchInv'
<1> SUFFICES ASSUME TypeOK, BatchInv, [Next]_vars PROVE BatchInv'
  OBVIOUS
<1>1. CASE ~ \E c \in Instances : Instance(c) \/ Crash(c)
  BY <1>1, EnvironmentMovesNobody DEF BatchInv, Signal
<1>2. ASSUME NEW c \in Instances, Instance(c) \/ Crash(c),
             /\ pc'[c] # "poll" => Len(todo'[c]) > 0
             /\ pc'[c] \notin {"poll", "hint", "ack"} => Head(todo'[c]) \in Signals
             /\ pc'[c] \in {"approve", "register"} => amount'[c] > 0
      PROVE  BatchInv'
  BY <1>2, OthersStay DEF BatchInv, Signal
<1>3. /\ pc \in [Instances -> PC] /\ todo \in [Instances -> Seq(Entry)]
      /\ amount \in [Instances -> 0 .. RiskPct] /\ RiskPct \in Nat
      /\ stream \in Seq(Entry) /\ Len(stream) \in Nat /\ cursor \in 0 .. Len(stream)
  BY ConstantsAssumption DEF TypeOK
<1>4. ASSUME NEW c \in Instances
      PROVE  /\ pc[c] # "poll" => Len(todo[c]) > 0 /\ Head(todo[c]) \in Entry
             /\ pc[c] \notin {"poll", "hint", "ack"} => Head(todo[c]) \in Signals
             /\ pc[c] \in {"approve", "register"} => amount[c] > 0
  BY <1>3, BatchParts DEF BatchInv, Signal
<1>5. ASSUME NEW c \in Instances, Drain(c) PROVE BatchInv'
  <2>1. cursor' \in cursor + 1 .. Len(stream)
    BY <1>3, <1>5, ConstantsAssumption DEF Drain
  <2>2. Len(SubSeq(stream, cursor + 1, cursor')) > 0
    <3>1. cursor + 1 \in Nat /\ cursor' \in Nat /\ cursor + 1 <= cursor'
      BY <1>3, <2>1
    <3>2. Len(SubSeq(stream, cursor + 1, cursor')) = cursor' - (cursor + 1) + 1
      BY <1>3, <3>1, <2>1
    <3> QED
      BY <3>1, <3>2
  <2>3. pc'[c] = "hint" /\ Len(todo'[c]) > 0
    BY <1>3, <1>5, <2>2 DEF Drain, Goto
  <2> QED
    BY <1>2, <1>5, <2>3 DEF Instance
<1>6. ASSUME NEW c \in Instances, DropMalformed(c) \/ BalanceHint(c) PROVE BatchInv'
  <2>1. /\ pc[c] = "hint" /\ UNCHANGED todo
        /\ \/ pc'[c] = "ack"
           \/ pc'[c] = "preflight" /\ Head(todo[c]) # NoSignal
    BY <1>3, <1>6 DEF DropMalformed, BalanceHint, Goto, Signal
  <2> QED
    BY <1>2, <1>4, <1>6, <2>1 DEF Instance, Entry
<1>7. ASSUME NEW c \in Instances, Preflight(c) \/ PublishRejection(c) \/ RegisterExposure(c)
      PROVE  BatchInv'
  <2>1. /\ pc[c] \notin {"poll", "hint", "ack"} /\ UNCHANGED todo
        /\ pc'[c] \in {"context", "reject", "ack"}
    BY <1>3, <1>7 DEF Preflight, PublishRejection, RegisterExposure, Goto
  <2> QED
    BY <1>2, <1>4, <1>7, <2>1 DEF Instance
<1>8. ASSUME NEW c \in Instances, SizeOrder(c) PROVE BatchInv'
  <2>1. /\ pc[c] = "context" /\ UNCHANGED todo
        /\ \/ pc'[c] = "reject"
           \/ /\ pc'[c] = "approve"
              /\ \E risk \in 1 .. RiskPct : amount' = [amount EXCEPT ![c] = risk]
    BY <1>3, <1>8, ConstantsAssumption DEF SizeOrder, Goto
  <2>2. pc'[c] = "approve" => amount'[c] > 0
    BY <1>3, <2>1
  <2> QED
    BY <1>2, <1>4, <1>8, <2>1, <2>2 DEF Instance
<1>9. ASSUME NEW c \in Instances, PublishIntent(c) PROVE BatchInv'
  <2>1. pc[c] = "approve" /\ pc'[c] = "register" /\ UNCHANGED <<todo, amount>>
    BY <1>3, <1>9 DEF PublishIntent, Goto
  <2> QED
    BY <1>2, <1>4, <1>9, <2>1 DEF Instance
<1>10. ASSUME NEW c \in Instances, Ack(c) PROVE BatchInv'
  <2>1. /\ pc[c] = "ack" /\ todo'[c] = Tail(todo[c])
        /\ pc'[c] = IF Len(todo[c]) > 1 THEN "hint" ELSE "poll"
    BY <1>3, <1>10 DEF Ack, Goto
  <2>2. Len(todo[c]) \in Nat /\ Len(Tail(todo[c])) = Len(todo[c]) - 1
    BY <1>3, <1>4, <2>1, BatchParts
  <2>3. \/ pc'[c] = "hint" /\ Len(todo'[c]) > 0
        \/ pc'[c] = "poll"
    BY <2>1, <2>2
  <2> QED
    BY <1>2, <1>10, <2>1, <2>3 DEF Instance
<1>11. ASSUME NEW c \in Instances, Crash(c) PROVE BatchInv'
  <2>1. pc'[c] = "poll"
    BY <1>3, <1>11 DEF Crash, Goto
  <2> QED
    BY <1>2, <1>11, <2>1
<1> QED
  BY <1>1, <1>5, <1>6, <1>7, <1>8, <1>9, <1>10, <1>11 DEF Instance

\* Intents only accumulate.
LEMMA NextIntentInv == TypeOK /\ BatchInv /\ IntentInv /\ [Next]_vars => IntentInv'
<1> SUFFICES ASSUME TypeOK, BatchInv, IntentInv, [Next]_vars PROVE IntentInv'
  OBVIOUS
<1>1. /\ pc \in [Instances -> PC] /\ todo \in [Instances -> Seq(Entry)]
      /\ exposure \in [Signals -> 0 .. RiskPct]
  BY DEF TypeOK
<1>2. /\ \A s \in Signals : exposure[s] > 0 => s \in intents
      /\ \A c \in Instances : pc[c] = "register" => Signal(c) \in intents
  BY DEF IntentInv, ExposureHasIntent, Registered
<1>3. intents \subseteq intents'
  BY DEF Next, Instance, Generate, Release, RegistrationLost, AccountChanges, GroupRewinds,
         Drain, DropMalformed, BalanceHint, Preflight, SizeOrder, PublishIntent,
         RegisterExposure, PublishRejection, Ack, Crash, vars
<1>4. \A s \in Signals : exposure'[s] > 0 => s \in intents'
  <2>1. CASE \E c \in Instances : RegisterExposure(c)
    <3> PICK c \in Instances : RegisterExposure(c)
      BY <2>1
    <3>1. /\ exposure' = [exposure EXCEPT ![Signal(c)] = amount[c]]
          /\ pc[c] = "register"
      BY DEF RegisterExposure
    <3> QED
      BY <1>1, <1>2, <1>3, <3>1
  <2>2. CASE \E k \in Signals : Release(k) \/ RegistrationLost(k)
    <3> PICK k \in Signals : Release(k) \/ RegistrationLost(k)
      BY <2>2
    <3>1. exposure' = [exposure EXCEPT ![k] = 0]
      BY DEF Release, RegistrationLost
    <3> QED
      BY <1>1, <1>2, <1>3, <3>1
  <2>3. CASE UNCHANGED exposure
    BY <1>2, <1>3, <2>3
  <2> QED
    BY <2>1, <2>2, <2>3 DEF Next, Instance, Generate, AccountChanges, GroupRewinds,
         Drain, DropMalformed, BalanceHint, Preflight, SizeOrder, PublishIntent,
         PublishRejection, Ack, Crash, vars
<1>5. ASSUME NEW d \in Instances, pc'[d] = "register" PROVE Head(todo'[d]) \in intents'
  <2>1. CASE pc'[d] = pc[d] /\ todo'[d] = todo[d]
    BY <1>2, <1>3, <1>5, <2>1 DEF Signal
  <2>2. CASE ~(pc'[d] = pc[d] /\ todo'[d] = todo[d])
    <3>1. Instance(d) \/ Crash(d)
      BY <2>2, OthersStay, EnvironmentMovesNobody DEF Next
    <3>2. PublishIntent(d)
      BY <1>1, <1>5, <3>1 DEF Instance, Drain, DropMalformed, BalanceHint, Preflight, SizeOrder,
                         RegisterExposure, PublishRejection, Ack, Crash, Goto
    <3> QED
      BY <3>2 DEF PublishIntent, Signal
  <2> QED
    BY <2>1, <2>2
<1> QED
  BY <1>4, <1>5 DEF IntentInv, ExposureHasIntent, Registered, Signal

-----------------------------------------------------------------------------
(* Capacity                                                                 *)

\* The sets the invariants count are finite.
LEMMA Finite ==
  ASSUME TypeOK
  PROVE  /\ IsFiniteSet(Registered) /\ IsFiniteSet(Passed) /\ IsFiniteSet(Registering)
         /\ IsFiniteSet(open) /\ IsFiniteSet(Unregistered)
         /\ Cardinality(Registered) \in Nat /\ Cardinality(Passed) \in Nat
         /\ Cardinality(Registering) \in Nat /\ Cardinality(Unregistered) \in Nat
         /\ Cardinality(open) \in Nat /\ Cardinality(Instances) \in Nat
         /\ Cardinality(Passed) <= Cardinality(Instances)
         /\ Cardinality(Registering) <= Cardinality(Passed)
<1>1. IsFiniteSet(Signals) /\ IsFiniteSet(Instances)
  BY ConstantsAssumption
<1>2. open \subseteq Signals
  BY DEF TypeOK
<1>3. /\ Registered \in SUBSET Signals /\ open \in SUBSET Signals
      /\ Unregistered \in SUBSET open
      /\ Passed \in SUBSET Instances /\ Registering \in SUBSET Passed
  BY <1>2 DEF Registered, Unregistered, Passed, Registering
<1>4. IsFiniteSet(Registered) /\ IsFiniteSet(open)
  BY <1>1, <1>3, FS_Subset
<1>5. IsFiniteSet(Passed) /\ Cardinality(Passed) <= Cardinality(Instances)
  BY <1>1, <1>3, FS_Subset
<1>6. IsFiniteSet(Unregistered)
  BY <1>3, <1>4, FS_Subset
<1>7. IsFiniteSet(Registering) /\ Cardinality(Registering) <= Cardinality(Passed)
  BY <1>3, <1>5, FS_Subset
<1> QED
  BY <1>1, <1>4, <1>5, <1>6, <1>7, FS_CardinalityType

\* Fewer registrations and fewer instances in flight keep the capacity.
LEMMA CapacityShrinks ==
  ASSUME TypeOK, TypeOK', CapacityInv,
         Registered' \subseteq Registered, Passed' \subseteq Passed
  PROVE  CapacityInv'
<1>1. Cardinality(Registered') <= Cardinality(Registered) /\ Cardinality(Registered') \in Nat
  BY Finite, FS_Subset, FS_CardinalityType
<1>2. Cardinality(Passed') <= Cardinality(Passed) /\ Cardinality(Passed') \in Nat
  BY Finite, FS_Subset, FS_CardinalityType
<1> QED
  BY <1>1, <1>2, Finite, ConstantsAssumption DEF CapacityInv

\* Only preflight lets another instance through.
LEMMA OnlyPreflightPasses ==
  ASSUME TypeOK, [Next]_vars, ~ \E c \in Instances : Preflight(c) /\ LimitsAllow(c)
  PROVE  Passed' \subseteq Passed
<1>1. pc \in [Instances -> PC]
  BY DEF TypeOK
<1>2. CASE UNCHANGED pc
  BY <1>2 DEF Passed
<1>3. ASSUME NEW c \in Instances, Instance(c) \/ Crash(c) PROVE Passed' \subseteq Passed
  <2>1. pc'[c] \in {"context", "approve", "register"}
          => pc[c] \in {"context", "approve", "register"}
    BY <1>1, <1>3 DEF Instance, Drain, DropMalformed, BalanceHint, Preflight, SizeOrder,
         PublishIntent, RegisterExposure, PublishRejection, Ack, Crash, Goto
  <2> QED
    BY <1>3, <2>1, OthersStay DEF Passed
<1> QED
  BY <1>2, <1>3, EnvironmentMovesNobody

LEMMA NextCapacity ==
  TypeOK /\ TypeOK' /\ BatchInv /\ CapacityInv /\ [Next]_vars => CapacityInv'
<1> SUFFICES ASSUME TypeOK, TypeOK', BatchInv, CapacityInv, [Next]_vars PROVE CapacityInv'
  OBVIOUS
<1>1. pc \in [Instances -> PC] /\ exposure \in [Signals -> 0 .. RiskPct]
  BY DEF TypeOK
\* An instance that passes the limits sees a free place in the registry.
<1>2. ASSUME NEW c \in Instances, Preflight(c), LimitsAllow(c) PROVE CapacityInv'
  <2>1. Registered' = Registered
    BY <1>2 DEF Preflight, Registered
  <2>2. Cardinality(Registered) < MaxOpenTrades
    BY <1>2 DEF LimitsAllow, OpenCount
  <2>3. Cardinality(Passed)' <= Cardinality(Instances) /\ Cardinality(Passed)' \in Nat
    <3>1. IsFiniteSet(Instances) /\ Passed' \in SUBSET Instances
      BY ConstantsAssumption DEF Passed
    <3> QED
      BY <3>1, FS_Subset, FS_CardinalityType
  <2> QED
    BY <2>1, <2>2, <2>3, Finite, ConstantsAssumption DEF CapacityInv
\* A registration takes one place and frees the instance.
<1>3. ASSUME NEW c \in Instances, RegisterExposure(c) PROVE CapacityInv'
  <2>1. c \in Passed /\ Passed' = Passed \ {c}
    BY <1>1, <1>3 DEF RegisterExposure, Passed, Goto
  <2>2. Registered' \in SUBSET (Registered \cup {Signal(c)})
    BY <1>1, <1>3 DEF RegisterExposure, Registered
  <2>3. Cardinality(Passed') = Cardinality(Passed) - 1
    BY <2>1, Finite, FS_RemoveElement
  <2>4. /\ Cardinality(Registered') <= Cardinality(Registered) + 1
        /\ Cardinality(Registered') \in Nat
    <3>1. /\ IsFiniteSet(Registered \cup {Signal(c)})
          /\ Cardinality(Registered \cup {Signal(c)}) <= Cardinality(Registered) + 1
          /\ Cardinality(Registered \cup {Signal(c)}) \in Nat
      <4>1. IsFiniteSet(Registered) /\ Cardinality(Registered) \in Nat
        BY Finite
      <4>2. /\ IsFiniteSet(Registered \cup {Signal(c)})
            /\ Cardinality(Registered \cup {Signal(c)}) =
                 IF Signal(c) \in Registered THEN Cardinality(Registered)
                                             ELSE Cardinality(Registered) + 1
        BY <4>1, FS_AddElement
      <4> QED
        BY <4>1, <4>2
    <3>2. /\ IsFiniteSet(Registered')
          /\ Cardinality(Registered') <= Cardinality(Registered \cup {Signal(c)})
      BY <2>2, <3>1, FS_Subset
    <3> QED
      BY <3>1, <3>2, Finite, FS_CardinalityType
  <2> QED
    BY <2>3, <2>4, Finite, ConstantsAssumption DEF CapacityInv
\* Every other step only frees.
<1>4. ASSUME ~ \E c \in Instances : (Preflight(c) /\ LimitsAllow(c)) \/ RegisterExposure(c)
      PROVE  CapacityInv'
  <2>1. Registered' \subseteq Registered
    <3>1. CASE \E k \in Signals : Release(k) \/ RegistrationLost(k)
      BY <1>1, <3>1 DEF Release, RegistrationLost, Registered
    <3>2. CASE UNCHANGED exposure
      BY <3>2 DEF Registered
    <3> QED
      BY <1>4, <3>1, <3>2 DEF Next, Instance, Generate, AccountChanges, GroupRewinds,
           Drain, DropMalformed, BalanceHint, Preflight, SizeOrder, PublishIntent,
           PublishRejection, Ack, Crash, vars
  <2>2. Passed' \subseteq Passed
    BY <1>4, OnlyPreflightPasses
  <2> QED
    BY <2>1, <2>2, CapacityShrinks
<1> QED
  BY <1>2, <1>3, <1>4

-----------------------------------------------------------------------------
(* Sums over the registry                                                   *)

\* A finite set has no endless chain of smaller and smaller subsets.
LEMMA Smallest ==
  ASSUME NEW D, IsFiniteSet(D), NEW T, T \subseteq SUBSET D, T # {}
  PROVE  \E S \in T : \A R \in T : R \subseteq S => R = S
<1>1. \E S \in T : \A R \in T : ~(<<R, S>> \in StrictSubsetOrdering(D))
  BY FS_FiniteSubsetsOfFinite, FS_StrictSubsetOrderingWellFounded, WFMin
<1> QED
  BY <1>1 DEF StrictSubsetOrdering

\* Induction over the numbers, for a set of them.
LEMMA Counting ==
  ASSUME NEW P \in SUBSET Nat, 0 \in P, \A n \in P : n + 1 \in P
  PROVE  P = Nat
<1> SUFFICES ASSUME NEW N \in Nat \ P PROVE FALSE
  OBVIOUS
<1> DEFINE D == 0 .. N
           T == {0 .. n : n \in D \ P}
<1>1. IsFiniteSet(D)
  BY FS_Interval
<1>2. T \subseteq SUBSET D /\ T # {}
  OBVIOUS
<1>3. \E S \in T : \A R \in T : R \subseteq S => R = S
  <2> HIDE DEF T, D
  <2> QED
    BY <1>1, <1>2, Smallest
<1>4. PICK n \in D \ P : \A m \in D \ P : 0 .. m \subseteq 0 .. n => 0 .. m = 0 .. n
  <2>1. PICK S \in T : \A R \in T : R \subseteq S => R = S
    BY <1>3
  <2>2. PICK n \in D \ P : S = 0 .. n
    OBVIOUS
  <2>3. \A m \in D \ P : 0 .. m \in T
    OBVIOUS
  <2> HIDE DEF T, D
  <2> QED
    BY <2>1, <2>2, <2>3
<1>5. n \in Nat /\ n # 0
  OBVIOUS
<1>6. n - 1 \in D \ P
  <2>1. n - 1 \in D /\ (n - 1) + 1 = n
    BY <1>5
  <2> QED
    BY <2>1
<1>7. 0 .. n - 1 \subseteq 0 .. n /\ n \in 0 .. n /\ n \notin 0 .. n - 1
  BY <1>5
<1> QED
  BY <1>4, <1>6, <1>7

Pick(S) == CHOOSE x \in S : TRUE

\* TotalRisk's sum, of a registry e.
Sum(e) == CHOOSE f : f = [S \in SUBSET Signals |->
             IF S = {} THEN 0 ELSE e[Pick(S)] + f[S \ {Pick(S)}]]

LEMMA TotalRiskIsSum ==
  /\ TotalRisk = Sum(exposure)[Signals]
  /\ TotalRisk' = Sum(exposure')[Signals]
<1>1. TotalRisk = Sum(exposure)[Signals]
  BY DEF TotalRisk, MapThenSumSet, MapThenFoldSet, Sum, Pick
<1>2. TotalRisk' = Sum(exposure')[Signals]
  BY DEF TotalRisk, MapThenSumSet, MapThenFoldSet, Sum, Pick
<1> QED
  BY <1>1, <1>2

\* The recursion is defined on the sets of up to n signals, for every n.
LEMMA SumDefined ==
  ASSUME NEW e \in [Signals -> Nat]
  PROVE  /\ Sum(e) \in [SUBSET Signals -> Nat]
         /\ Sum(e)[{}] = 0
         /\ \A S \in SUBSET Signals :
              S # {} => Sum(e)[S] = e[Pick(S)] + Sum(e)[S \ {Pick(S)}]
<1> DEFINE Small(n) == {S \in SUBSET Signals : Cardinality(S) <= n}
           Adds(f, S) == f[S] = IF S = {} THEN 0 ELSE e[Pick(S)] + f[S \ {Pick(S)}]
           P == {n \in Nat : \E f \in [Small(n) -> Nat] : \A S \in Small(n) : Adds(f, S)}
<1>1. IsFiniteSet(Signals)
  BY ConstantsAssumption
<1>2. ASSUME NEW S \in SUBSET Signals
      PROVE  /\ IsFiniteSet(S) /\ Cardinality(S) \in Nat
             /\ Cardinality(S) <= Cardinality(Signals)
             /\ S # {} => /\ Pick(S) \in S
                          /\ Cardinality(S \ {Pick(S)}) = Cardinality(S) - 1
                          /\ Cardinality(S) # 0
  <2>1. IsFiniteSet(S) /\ Cardinality(S) \in Nat /\ Cardinality(S) <= Cardinality(Signals)
    BY <1>1, FS_Subset, FS_CardinalityType
  <2>2. ASSUME S # {}
        PROVE  /\ Pick(S) \in S /\ Cardinality(S \ {Pick(S)}) = Cardinality(S) - 1
               /\ Cardinality(S) # 0
    <3>1. Pick(S) \in S
      BY <2>2 DEF Pick
    <3> QED
      BY <2>1, <2>2, <3>1, FS_RemoveElement, FS_EmptySet
  <2> QED
    BY <2>1, <2>2
<1>3. 0 \in P
  <2> DEFINE f == [S \in Small(0) |-> 0]
  <2>1. ASSUME NEW S \in Small(0) PROVE S = {}
    <3>1. S \in SUBSET Signals /\ Cardinality(S) <= 0
      OBVIOUS
    <3>2. Cardinality(S) \in Nat /\ (S # {} => Cardinality(S) # 0)
      BY <1>2, <3>1
    <3> QED
      BY <3>1, <3>2
  <2>2. f \in [Small(0) -> Nat] /\ \A S \in Small(0) : Adds(f, S)
    BY <2>1
  <2> QED
    BY <2>2
<1>4. ASSUME NEW n \in P PROVE n + 1 \in P
  <2>1. n \in Nat
    OBVIOUS
  <2>2. PICK f \in [Small(n) -> Nat] : \A S \in Small(n) : Adds(f, S)
    OBVIOUS
  <2> DEFINE g == [S \in Small(n + 1) |-> IF S = {} THEN 0 ELSE e[Pick(S)] + f[S \ {Pick(S)}]]
  <2>3. ASSUME NEW S \in Small(n + 1), S # {}
        PROVE  /\ S \ {Pick(S)} \in Small(n) /\ S \ {Pick(S)} \in Small(n + 1)
               /\ Pick(S) \in Signals
    BY <1>2, <2>1, <2>3
  <2>4. ASSUME NEW S \in Small(n) PROVE S \in Small(n + 1) /\ g[S] = f[S]
    <3>1. S \in Small(n + 1)
      <4>1. S \in SUBSET Signals /\ Cardinality(S) <= n
        OBVIOUS
      <4>2. Cardinality(S) \in Nat
        BY <1>2, <4>1
      <4>3. Cardinality(S) <= n + 1
        BY <2>1, <4>1, <4>2
      <4> QED
        BY <4>1, <4>3
    <3>2. Adds(f, S)
      BY <2>2
    <3> QED
      BY <3>1, <3>2
  <2>5. g \in [Small(n + 1) -> Nat]
    <3>1. ASSUME NEW S \in Small(n + 1), S # {} PROVE e[Pick(S)] + f[S \ {Pick(S)}] \in Nat
      <4>1. e[Pick(S)] \in Nat /\ f[S \ {Pick(S)}] \in Nat
        BY <2>3, <3>1
      <4> QED
        BY <4>1
    <3> QED
      BY <3>1
  <2>6. ASSUME NEW S \in Small(n + 1) PROVE Adds(g, S)
    BY <2>3, <2>4
  <2>7. n + 1 \in Nat
    BY <2>1
  <2> HIDE DEF g
  <2> QED
    BY <2>5, <2>6, <2>7
<1>5. P = Nat
  <2>1. P \in SUBSET Nat
    OBVIOUS
  <2> HIDE DEF P
  <2> QED
    BY <1>3, <1>4, <2>1, Counting
<1>6. Cardinality(Signals) \in P
  BY <1>1, <1>5, FS_CardinalityType
<1>7. Small(Cardinality(Signals)) = SUBSET Signals
  BY <1>2
<1>8. PICK f \in [SUBSET Signals -> Nat] : \A S \in SUBSET Signals : Adds(f, S)
  BY <1>6, <1>7
<1>9. f = [S \in SUBSET Signals |-> IF S = {} THEN 0 ELSE e[Pick(S)] + f[S \ {Pick(S)}]]
  BY <1>8
<1>10. Sum(e) = [S \in SUBSET Signals |->
                   IF S = {} THEN 0 ELSE e[Pick(S)] + Sum(e)[S \ {Pick(S)}]]
  BY <1>9 DEF Sum
<1> DEFINE h == Sum(e)
<1>11. \A S \in SUBSET Signals : Adds(h, S)
  BY <1>10
<1>12. h \in [SUBSET Signals -> Nat]
  <2> DEFINE T == {S \in SUBSET Signals : h[S] \notin Nat}
  <2>1. ASSUME T # {} PROVE FALSE
    <3>1. PICK S \in T : \A R \in T : R \subseteq S => R = S
      <4>1. T \subseteq SUBSET Signals
        OBVIOUS
      <4> HIDE DEF T
      <4> QED
        BY <1>1, <2>1, <4>1, Smallest
    <3>2. S \in SUBSET Signals /\ S # {} /\ Pick(S) \in S
      <4>1. S \in SUBSET Signals /\ h[S] \notin Nat
        BY <3>1
      <4>2. Adds(h, {})
        <5>1. {} \in SUBSET Signals
          OBVIOUS
        <5> HIDE DEF Adds, h
        <5> QED
          BY <1>11, <5>1
      <4>3. h[{}] = 0
        BY <4>2
      <4>4. S # {}
        <5> HIDE DEF h
        <5>1. ASSUME S = {} PROVE h[S] = 0
          BY <4>3, <5>1
        <5> QED
          BY <4>1, <5>1
      <4> QED
        BY <1>2, <4>1, <4>4
    <3>3. S \ {Pick(S)} \notin T
      BY <3>1, <3>2
    <3>4. h[S \ {Pick(S)}] \in Nat /\ e[Pick(S)] \in Nat
      BY <3>2, <3>3
    <3>5. h[S] = e[Pick(S)] + h[S \ {Pick(S)}]
      BY <1>11, <3>2
    <3>6. h[S] \in Nat
      BY <3>4, <3>5
    <3> QED
      BY <3>1, <3>6
  <2>2. h = [S \in SUBSET Signals |-> h[S]]
    BY <1>10
  <2> QED
    BY <2>1, <2>2
<1> QED
  BY <1>11, <1>12

\* The order in which the signals are taken does not matter.
LEMMA SumSplits ==
  ASSUME NEW e \in [Signals -> Nat], NEW S \in SUBSET Signals, NEW k \in S
  PROVE  Sum(e)[S] = e[k] + Sum(e)[S \ {k}]
<1> DEFINE f == Sum(e)
           T == {R \in SUBSET Signals : \E x \in R : f[R] # e[x] + f[R \ {x}]}
<1>1. /\ f \in [SUBSET Signals -> Nat]
      /\ \A R \in SUBSET Signals : R # {} => f[R] = e[Pick(R)] + f[R \ {Pick(R)}]
  BY SumDefined
<1> HIDE DEF f
<1>2. ASSUME T # {} PROVE FALSE
  <2>1. PICK R \in T : \A Q \in T : Q \subseteq R => Q = R
    <3>1. T \subseteq SUBSET Signals /\ IsFiniteSet(Signals)
      BY ConstantsAssumption
    <3> HIDE DEF T
    <3> QED
      BY <1>2, <3>1, Smallest
  <2>2. PICK x \in R : f[R] # e[x] + f[R \ {x}]
    BY <2>1
  <2> DEFINE y == Pick(R)
  <2>3. R \in SUBSET Signals /\ y \in R /\ f[R] = e[y] + f[R \ {y}]
    BY <1>1, <2>1 DEF Pick
  <2> HIDE DEF y
  <2>4. x # y
    BY <2>2, <2>3
  <2>5. R \ {x} \notin T /\ R \ {y} \notin T
    BY <2>1, <2>2, <2>3
  <2>6. f[R \ {x}] = e[y] + f[(R \ {x}) \ {y}] /\ f[R \ {y}] = e[x] + f[(R \ {y}) \ {x}]
    BY <2>3, <2>4, <2>5
  <2>7. (R \ {x}) \ {y} = (R \ {y}) \ {x}
    OBVIOUS
  <2>8. e[x] \in Nat /\ e[y] \in Nat /\ f[(R \ {y}) \ {x}] \in Nat
    BY <1>1, <2>3
  <2>9. PICK a \in Nat, b \in Nat, z \in Nat :
          e[x] = a /\ e[y] = b /\ f[(R \ {y}) \ {x}] = z
    BY <2>8
  <2>10. f[R] = b + (a + z) /\ f[R \ {x}] = b + z
    BY <2>3, <2>6, <2>7, <2>9
  <2>11. f[R] = a + (b + z)
    BY <2>10
  <2> QED
    BY <2>2, <2>9, <2>10, <2>11
<1> QED
  BY <1>2 DEF f

\* The sum over a set depends on that set's amounts only.
LEMMA SumAgrees ==
  ASSUME NEW e \in [Signals -> Nat], NEW g \in [Signals -> Nat],
         NEW S \in SUBSET Signals, \A s \in S : e[s] = g[s]
  PROVE  Sum(e)[S] = Sum(g)[S]
<1> DEFINE T == {R \in SUBSET S : Sum(e)[R] # Sum(g)[R]}
<1>1. ASSUME T # {} PROVE FALSE
  <2>1. PICK R \in T : \A Q \in T : Q \subseteq R => Q = R
    <3>1. T \subseteq SUBSET Signals /\ IsFiniteSet(Signals)
      BY ConstantsAssumption
    <3> HIDE DEF T
    <3> QED
      BY <1>1, <3>1, Smallest
  <2>2. R \in SUBSET Signals /\ R \subseteq S /\ R # {}
    BY <2>1, SumDefined
  <2>3. Pick(R) \in R
    BY <2>2 DEF Pick
  <2>4. R \ {Pick(R)} \notin T
    BY <2>1, <2>3
  <2>5. Sum(e)[R \ {Pick(R)}] = Sum(g)[R \ {Pick(R)}] /\ e[Pick(R)] = g[Pick(R)]
    BY <2>2, <2>3, <2>4
  <2>6. /\ Sum(e)[R] = e[Pick(R)] + Sum(e)[R \ {Pick(R)}]
        /\ Sum(g)[R] = g[Pick(R)] + Sum(g)[R \ {Pick(R)}]
    BY <2>2, SumDefined
  <2> QED
    BY <2>1, <2>5, <2>6
<1> QED
  BY <1>1

\* What one registration or release does to the total.
LEMMA SumUpdate ==
  ASSUME NEW e \in [Signals -> Nat], NEW k \in Signals, NEW v \in Nat
  PROVE  Sum([e EXCEPT ![k] = v])[Signals] + e[k] = Sum(e)[Signals] + v
<1> DEFINE g == [e EXCEPT ![k] = v]
           R == Signals \ {k}
<1>1. g \in [Signals -> Nat] /\ g[k] = v /\ \A s \in R : e[s] = g[s]
  OBVIOUS
<1>2. R \in SUBSET Signals /\ Signals \in SUBSET Signals
  OBVIOUS
<1> HIDE DEF g, R
<1>3. Sum(g)[R] = Sum(e)[R] /\ Sum(e)[R] \in Nat
  BY <1>1, <1>2, SumAgrees, SumDefined
<1>4. /\ Sum(e)[Signals] = e[k] + Sum(e)[Signals \ {k}]
      /\ Sum(g)[Signals] = g[k] + Sum(g)[Signals \ {k}]
  BY <1>1, <1>2, SumSplits
<1>5. e[k] \in Nat
  OBVIOUS
<1>6. Sum(g)[Signals] + e[k] = Sum(e)[Signals] + v
  BY <1>1, <1>3, <1>4, <1>5 DEF R
<1> QED
  BY <1>6 DEF g

LEMMA SumOfNothing ==
  ASSUME NEW e \in [Signals -> Nat], \A s \in Signals : e[s] = 0
  PROVE  Sum(e)[Signals] = 0
<1> DEFINE T == {R \in SUBSET Signals : Sum(e)[R] # 0}
<1>1. ASSUME T # {} PROVE FALSE
  <2>1. PICK R \in T : \A Q \in T : Q \subseteq R => Q = R
    <3>1. T \subseteq SUBSET Signals /\ IsFiniteSet(Signals)
      BY ConstantsAssumption
    <3> HIDE DEF T
    <3> QED
      BY <1>1, <3>1, Smallest
  <2>2. R \in SUBSET Signals /\ R # {}
    BY <2>1, SumDefined
  <2>3. Pick(R) \in R
    BY <2>2 DEF Pick
  <2>4. R \ {Pick(R)} \notin T
    BY <2>1, <2>3
  <2>5. Sum(e)[R] = e[Pick(R)] + Sum(e)[R \ {Pick(R)}]
    BY <2>2, SumDefined
  <2> QED
    BY <2>1, <2>2, <2>3, <2>4, <2>5
<1>2. Signals \in SUBSET Signals
  OBVIOUS
<1> QED
  BY <1>1, <1>2

-----------------------------------------------------------------------------
(* Positions the registry has lost                                          *)

\* A fault costs at most one position, anything else none.
LEMMA LostGrows ==
  ASSUME TypeOK, TypeOK', LostInv, NEW x,
         \/ /\ Unregistered' \subseteq Unregistered
            /\ faults' = faults
         \/ /\ Unregistered' \subseteq Unregistered \cup {x}
            /\ faults' = faults + 1
  PROVE  LostInv'
<1>1. /\ IsFiniteSet(Unregistered) /\ Cardinality(Unregistered) \in Nat
      /\ IsFiniteSet(Unregistered') /\ Cardinality(Unregistered') \in Nat
  <2>1. IsFiniteSet(Unregistered) /\ Cardinality(Unregistered) \in Nat
    BY Finite
  <2>2. IsFiniteSet(Signals) /\ Unregistered' \in SUBSET Signals
    BY ConstantsAssumption DEF TypeOK, Unregistered
  <2> QED
    BY <2>1, <2>2, FS_Subset, FS_CardinalityType
<1>2. faults \in Nat
  BY DEF TypeOK
<1>3. CASE Unregistered' \subseteq Unregistered /\ faults' = faults
  <2>1. Cardinality(Unregistered') <= Cardinality(Unregistered)
    BY <1>1, <1>3, FS_Subset
  <2> QED
    BY <1>1, <1>2, <1>3, <2>1 DEF LostInv
<1>4. CASE Unregistered' \subseteq Unregistered \cup {x} /\ faults' = faults + 1
  <2>1. /\ IsFiniteSet(Unregistered \cup {x})
        /\ Cardinality(Unregistered \cup {x}) =
             IF x \in Unregistered THEN Cardinality(Unregistered)
                                  ELSE Cardinality(Unregistered) + 1
    BY <1>1, FS_AddElement
  <2>2. Cardinality(Unregistered') <= Cardinality(Unregistered \cup {x})
    BY <1>4, <2>1, FS_Subset
  <2> QED
    BY <1>1, <1>2, <1>4, <2>1, <2>2 DEF LostInv
<1> QED
  BY <1>3, <1>4

LEMMA NextLost ==
  TypeOK /\ TypeOK' /\ BatchInv /\ LostInv /\ [Next]_vars => LostInv'
<1> SUFFICES ASSUME TypeOK, TypeOK', BatchInv, LostInv, [Next]_vars PROVE LostInv'
  OBVIOUS
<1>1. /\ pc \in [Instances -> PC] /\ todo \in [Instances -> Seq(Entry)]
      /\ exposure \in [Signals -> 0 .. RiskPct] /\ amount \in [Instances -> 0 .. RiskPct]
      /\ open \subseteq Signals
  BY DEF TypeOK
<1>2. \A s : s \in Unregistered <=> /\ s \in open /\ s \notin Registered
                                   /\ \A c \in Instances : pc[c] = "register" => Signal(c) # s
  BY DEF Unregistered, InFlight, Registering
<1>3. \A s : s \in Unregistered' <=> /\ s \in open' /\ s \notin Registered'
                                    /\ \A c \in Instances : pc'[c] = "register" => Signal(c)' # s
  BY DEF Unregistered, InFlight, Registering
<1>4. CASE \E k \in Signals : Release(k)
  <2> PICK k \in Signals : Release(k)
    BY <1>4
  <2>1. /\ open' = open \ {k} /\ UNCHANGED <<pc, todo, faults>>
        /\ exposure' = [exposure EXCEPT ![k] = 0]
    BY DEF Release
  <2>2. \A s \in open' : s \notin Registered' => s \notin Registered
    BY <1>1, <2>1 DEF Registered
  <2>3. Unregistered' \subseteq Unregistered
    BY <1>2, <1>3, <2>1, <2>2 DEF Signal
  <2> QED
    BY <2>1, <2>3, LostGrows
<1>5. CASE \E k \in Signals : RegistrationLost(k)
  <2> PICK k \in Signals : RegistrationLost(k)
    BY <1>5
  <2>1. /\ faults' = faults + 1 /\ UNCHANGED <<open, pc, todo>>
        /\ exposure' = [exposure EXCEPT ![k] = 0]
    BY DEF RegistrationLost
  <2>2. \A s \in open' : s \notin Registered' => s \notin Registered \/ s = k
    BY <1>1, <2>1 DEF Registered
  <2>3. Unregistered' \subseteq Unregistered \cup {k}
    BY <1>2, <1>3, <2>1, <2>2 DEF Signal
  <2> QED
    BY <2>1, <2>3, LostGrows
<1>6. CASE \E e \in Entry : Generate(e)
  <2>1. UNCHANGED <<open, exposure, pc, todo, faults>>
    BY <1>6 DEF Generate
  <2> QED
    BY <1>2, <1>3, <2>1, LostGrows DEF Registered, Signal
<1>7. CASE AccountChanges \/ GroupRewinds \/ UNCHANGED vars
  <2>1. UNCHANGED <<open, exposure, pc, todo, faults>>
    BY <1>7 DEF AccountChanges, GroupRewinds, vars
  <2> QED
    BY <1>2, <1>3, <2>1, LostGrows DEF Registered, Signal
\* The intent is open and in flight from the same step on.
<1>8. ASSUME NEW c \in Instances, PublishIntent(c) PROVE LostInv'
  <2>1. /\ open' = open \cup {Signal(c)} /\ UNCHANGED <<exposure, todo, faults>>
        /\ pc' = [pc EXCEPT ![c] = "register"]
    BY <1>8 DEF PublishIntent, Goto
  <2>2. Unregistered' \subseteq Unregistered
    BY <1>1, <1>2, <1>3, <2>1 DEF Registered, Signal
  <2> QED
    BY <2>1, <2>2, LostGrows
\* It is registered from the step on that ends its flight.
<1>9. ASSUME NEW c \in Instances, RegisterExposure(c) PROVE LostInv'
  <2>1. /\ exposure' = [exposure EXCEPT ![Signal(c)] = amount[c]]
        /\ pc[c] = "register" /\ pc' = [pc EXCEPT ![c] = "ack"]
        /\ UNCHANGED <<open, todo, faults>>
    BY <1>9 DEF RegisterExposure, Goto
  <2>2. Signal(c) \in Signals /\ amount[c] > 0
    BY <2>1 DEF BatchInv
  <2>3. Signal(c) \in Registered' /\ Registered \subseteq Registered'
    BY <1>1, <2>1, <2>2 DEF Registered
  <2>4. Unregistered' \subseteq Unregistered
    BY <1>1, <1>2, <1>3, <2>1, <2>3 DEF Signal
  <2> QED
    BY <2>1, <2>4, LostGrows
<1>10. ASSUME NEW c \in Instances, Crash(c) PROVE LostInv'
  <2>1. UNCHANGED <<open, exposure>> /\ faults' = faults + 1
    BY <1>10 DEF Crash
  <2>2. \A d \in Instances : d # c => pc'[d] = pc[d] /\ todo'[d] = todo[d]
    BY <1>10, OthersStay
  <2>3. Unregistered' \subseteq Unregistered \cup {Signal(c)}
    BY <1>2, <1>3, <2>1, <2>2 DEF Registered, Signal
  <2> QED
    BY <2>1, <2>3, LostGrows
\* The other steps neither open nor register, before or after the flight.
<1>11. ASSUME NEW c \in Instances, Instance(c), ~PublishIntent(c), ~RegisterExposure(c)
       PROVE  LostInv'
  <2>1. UNCHANGED <<open, exposure, faults>> /\ pc[c] # "register"
    BY <1>11 DEF Instance, Drain, DropMalformed, BalanceHint, Preflight, SizeOrder,
                 PublishRejection, Ack
  <2>2. \A d \in Instances : d # c => pc'[d] = pc[d] /\ todo'[d] = todo[d]
    BY <1>11, OthersStay
  <2>3. Unregistered' \subseteq Unregistered
    BY <1>2, <1>3, <2>1, <2>2 DEF Registered, Signal
  <2> QED
    BY <2>1, <2>3, LostGrows
<1> QED
  BY <1>4, <1>5, <1>6, <1>7, <1>8, <1>9, <1>10, <1>11 DEF Next

LEMMA FaultsBounded ==
  TypeOK /\ faults <= bounds.faults /\ [Next]_vars => faults' <= bounds.faults'
<1> SUFFICES ASSUME TypeOK, faults <= bounds.faults, [Next]_vars
             PROVE  faults' <= bounds.faults'
  OBVIOUS
<1>1. bounds' = bounds
  BY DEF Next, Instance, Generate, Release, RegistrationLost, AccountChanges, GroupRewinds,
         Drain, DropMalformed, BalanceHint, Preflight, SizeOrder, PublishIntent,
         RegisterExposure, PublishRejection, Ack, Crash, vars
<1>2. faults' = faults \/ (faults < bounds.faults /\ faults' = faults + 1)
  BY DEF Next, Instance, Generate, Release, RegistrationLost, AccountChanges, GroupRewinds,
         Drain, DropMalformed, BalanceHint, Preflight, SizeOrder, PublishIntent,
         RegisterExposure, PublishRejection, Ack, Crash, vars
<1>3. PICK f \in Nat, b \in Nat : f = faults /\ b = bounds.faults
  BY ConstantsAssumption DEF TypeOK
<1> QED
  BY <1>1, <1>2, <1>3

-----------------------------------------------------------------------------
(* The invariant                                                            *)

LEMMA InitIInv == Init => IInv
<1> SUFFICES ASSUME Init PROVE IInv
  OBVIOUS
<1>1. TypeOK
  BY InitTypeOK
<1>2. BatchInv /\ IntentInv /\ faults <= bounds.faults
  BY ConstantsAssumption
     DEF Init, BatchInv, IntentInv, ExposureHasIntent, Registered
<1>3. Registered = {} /\ Passed = {} /\ Unregistered = {}
  BY DEF Init, Registered, Passed, Unregistered
<1>4. Cardinality({}) = 0
  BY FS_EmptySet
<1>5. CapacityInv
  BY <1>1, <1>3, <1>4, Finite, ConstantsAssumption DEF CapacityInv
<1>6. LostInv
  BY <1>3, <1>4 DEF LostInv, Init
<1> QED
  BY <1>1, <1>2, <1>5, <1>6 DEF IInv

LEMMA Inductive == Spec => []IInv
<1>1. IInv /\ [Next]_vars => IInv'
  BY NextTypeOK, NextBatchInv, NextIntentInv, NextCapacity, NextLost, FaultsBounded DEF IInv
<1> QED
  BY <1>1, InitIInv, PTL DEF Spec

\* Every open position is registered, about to be, or lost.
LEMMA OpenIsAccountedFor == IInv => OpenTradesBounded
<1> SUFFICES ASSUME IInv PROVE OpenTradesBounded
  OBVIOUS
<1>1. TypeOK /\ CapacityInv /\ LostInv
  BY DEF IInv
<1> DEFINE flight == [c \in Registering |-> Signal(c)]
<1>2. flight \in Surjection(Registering, InFlight)
  BY DEF Surjection, InFlight
<1>3. IsFiniteSet(InFlight) /\ Cardinality(InFlight) <= Cardinality(Registering)
  BY <1>1, <1>2, Finite, FS_Surjection
<1>4. Cardinality(InFlight) \in Nat
  BY <1>3, FS_CardinalityType
<1>5. /\ IsFiniteSet(Registered \cup InFlight)
      /\ Cardinality(Registered \cup InFlight) <= Cardinality(Registered) + Cardinality(InFlight)
      /\ Cardinality(Registered \cup InFlight) \in Nat
  <2>1. /\ IsFiniteSet(Registered \cap InFlight)
        /\ Cardinality(Registered \cap InFlight) \in Nat
    BY <1>1, Finite, FS_Intersection, FS_CardinalityType
  <2>2. /\ IsFiniteSet(Registered \cup InFlight)
        /\ Cardinality(Registered \cup InFlight) =
             Cardinality(Registered) + Cardinality(InFlight)
               - Cardinality(Registered \cap InFlight)
    BY <1>1, <1>3, Finite, FS_Union
  <2>3. Cardinality(Registered \cup InFlight) \in Nat
    BY <2>2, FS_CardinalityType
  <2> QED
    BY <1>1, <1>4, <2>1, <2>2, <2>3, Finite
<1> DEFINE all == (Registered \cup InFlight) \cup Unregistered
<1>6. /\ IsFiniteSet(all)
      /\ Cardinality(all) <= Cardinality(Registered \cup InFlight) + Cardinality(Unregistered)
      /\ Cardinality(all) \in Nat
  <2> DEFINE both == (Registered \cup InFlight) \cap Unregistered
  <2>1. IsFiniteSet(both) /\ Cardinality(both) \in Nat
    BY <1>5, FS_Intersection, FS_CardinalityType
  <2>2. /\ IsFiniteSet(all)
        /\ Cardinality(all) = Cardinality(Registered \cup InFlight)
                                + Cardinality(Unregistered) - Cardinality(both)
    BY <1>1, <1>5, Finite, FS_Union
  <2>3. Cardinality(all) \in Nat
    BY <2>2, FS_CardinalityType
  <2> QED
    BY <1>1, <1>5, <2>1, <2>2, <2>3, Finite
<1>7. open \in SUBSET all
  BY DEF Unregistered
<1>8. Cardinality(open) <= Cardinality(all)
  BY <1>6, <1>7, FS_Subset
<1>9. /\ Cardinality(Registered) + Cardinality(Passed) < MaxOpenTrades + Cardinality(Instances)
      /\ Cardinality(Unregistered) <= faults
      /\ faults \in Nat
  BY <1>1 DEF CapacityInv, LostInv, TypeOK
<1> HIDE DEF all
<1>10. Cardinality(open) < MaxOpenTrades + Cardinality(Instances) + faults
  BY <1>1, <1>3, <1>4, <1>5, <1>6, <1>8, <1>9, Finite, ConstantsAssumption
<1> QED
  BY <1>1, <1>9, <1>10, Finite, ConstantsAssumption DEF OpenTradesBounded

-----------------------------------------------------------------------------
(* The registered risk                                                      *)

\* Every instance that passed the limits may still add one trade's risk; one that
\* passed them without a balance is counted twice.
RiskInv ==
    TotalRisk + RiskPct * Cardinality(Passed)
      < MaxTotalRisk + RiskPct * (Cardinality(Instances) + blind)

LEMMA Times ==
  ASSUME NEW r \in Nat, NEW a \in Nat, NEW b \in Nat
  PROVE  /\ r * a \in Nat
         /\ a <= b => r * a <= r * b
         /\ r * (a + 1) = r * a + r
<1>1. r * a \in Nat /\ r * (a + 1) = r * a + r
  OBVIOUS
<1>2. ASSUME a <= b PROVE r * a <= r * b
  <2>1. PICK d \in Nat : b = a + d
    <3>1. b - a \in Nat /\ b = a + (b - a)
      BY <1>2
    <3> QED
      BY <3>1
  <2>2. r * b = r * a + r * d /\ r * d \in Nat
    BY <2>1
  <2> QED
    BY <1>1, <2>2
<1> QED
  BY <1>1, <1>2

\* Checks without a balance are counted, and nothing else changes the count.
LEMMA BlindChecks ==
  ASSUME TypeOK, [Next]_vars
  PROVE  /\ blind \in Nat /\ blind' \in Nat /\ blind <= blind'
         /\ \A c \in Instances :
              Preflight(c) /\ LimitsAllow(c) /\ ~hint[c] => blind' = blind + 1
<1>1. blind \in Nat
  BY DEF TypeOK
<1>2. ASSUME NEW c \in Instances, Preflight(c)
      PROVE  /\ blind' = blind \/ blind' = blind + 1
             /\ LimitsAllow(c) /\ ~hint[c] => blind' = blind + 1
  BY <1>2 DEF Preflight
<1>3. ASSUME ~ \E c \in Instances : Preflight(c) PROVE blind' = blind
  BY <1>3 DEF Next, Instance, Generate, Release, RegistrationLost, AccountChanges,
       GroupRewinds, Drain, DropMalformed, BalanceHint, SizeOrder, PublishIntent,
       RegisterExposure, PublishRejection, Ack, Crash, vars
<1>4. blind' = blind \/ blind' = blind + 1
  BY <1>2, <1>3
<1> QED
  BY <1>1, <1>2, <1>4

\* The registry, its total and the instances past the limits, as numbers.
LEMMA RiskTypes ==
  ASSUME TypeOK
  PROVE  /\ exposure \in [Signals -> Nat] /\ TotalRisk \in Nat
         /\ Cardinality(Passed) \in Nat /\ Cardinality(Instances) \in Nat
         /\ Cardinality(Passed) <= Cardinality(Instances)
<1>1. exposure \in [Signals -> Nat]
  BY ConstantsAssumption DEF TypeOK
<1>2. Signals \in SUBSET Signals
  OBVIOUS
<1>3. TotalRisk \in Nat
  BY <1>1, <1>2, SumDefined, TotalRiskIsSum
<1> QED
  BY <1>1, <1>3, Finite

\* A smaller total and fewer instances past the limits.
LEMMA RiskShrinks ==
  ASSUME TypeOK, TypeOK', RiskInv, TotalRisk' <= TotalRisk, Passed' \subseteq Passed,
         blind <= blind'
  PROVE  RiskInv'
<1>1. Cardinality(Passed') <= Cardinality(Passed) /\ Cardinality(Passed') \in Nat
  BY Finite, FS_Subset, FS_CardinalityType
<1>2. TotalRisk \in Nat /\ TotalRisk' \in Nat
  <2>1. exposure' \in [Signals -> Nat] /\ Signals \in SUBSET Signals
    BY ConstantsAssumption DEF TypeOK
  <2> QED
    BY <2>1, RiskTypes, TotalRiskIsSum, SumDefined
<1>3. PICK p \in Nat, q \in Nat, i \in Nat, t \in Nat, u \in Nat, b \in Nat, d \in Nat :
        /\ p = Cardinality(Passed) /\ q = Cardinality(Passed') /\ i = Cardinality(Instances)
        /\ t = TotalRisk /\ u = TotalRisk' /\ b = blind /\ d = blind'
  BY <1>1, <1>2, RiskTypes DEF TypeOK
<1>4. PICK m \in Nat, n \in Nat : m = i + b /\ n = i + d /\ m <= n
  <2>1. i + b \in Nat /\ i + d \in Nat /\ i + b <= i + d
    BY <1>3
  <2> QED
    BY <2>1
<1>5. /\ RiskPct * q <= RiskPct * p /\ RiskPct * q \in Nat /\ RiskPct * p \in Nat
      /\ RiskPct * m <= RiskPct * n /\ RiskPct * m \in Nat /\ RiskPct * n \in Nat
      /\ MaxTotalRisk \in Nat /\ u <= t
  BY <1>1, <1>3, <1>4, Times, ConstantsAssumption
<1>6. t + RiskPct * p < MaxTotalRisk + RiskPct * m
  BY <1>3, <1>4 DEF RiskInv
<1>7. u + RiskPct * q < MaxTotalRisk + RiskPct * n
  BY <1>5, <1>6
<1> QED
  BY <1>3, <1>4, <1>7 DEF RiskInv

LEMMA NextRisk ==
  TypeOK /\ TypeOK' /\ BatchInv /\ RiskInv /\ [Next]_vars => RiskInv'
<1> SUFFICES ASSUME TypeOK, TypeOK', BatchInv, RiskInv, [Next]_vars PROVE RiskInv'
  OBVIOUS
<1>1. /\ pc \in [Instances -> PC] /\ exposure \in [Signals -> Nat]
      /\ amount \in [Instances -> 0 .. RiskPct] /\ RiskPct \in Nat /\ MaxTotalRisk \in Nat
  BY RiskTypes, ConstantsAssumption DEF TypeOK
<1>2. TotalRisk = Sum(exposure)[Signals] /\ TotalRisk' = Sum(exposure')[Signals]
  BY TotalRiskIsSum
\* An instance that passes the limits sees a total below the maximum, or sees no
\* balance and is counted.
<1>3. ASSUME NEW c \in Instances, Preflight(c), LimitsAllow(c) PROVE RiskInv'
  <2>1. TotalRisk' = TotalRisk
    BY <1>2, <1>3 DEF Preflight
  <2>2. /\ Passed' = Passed \cup {c}
        /\ Cardinality(Passed') <= Cardinality(Instances) /\ Cardinality(Passed') \in Nat
        /\ Cardinality(Passed') <= Cardinality(Passed) + 1
    <3>1. IsFiniteSet(Instances) /\ Passed' \in SUBSET Instances
      BY ConstantsAssumption DEF Passed
    <3>2. Passed' = Passed \cup {c}
      BY <1>1, <1>3 DEF Preflight, Goto, Passed
    <3>3. Cardinality(Passed') = IF c \in Passed THEN Cardinality(Passed)
                                                  ELSE Cardinality(Passed) + 1
      BY <3>2, Finite, FS_AddElement
    <3> QED
      BY <3>1, <3>2, <3>3, RiskTypes, FS_Subset, FS_CardinalityType
  <2>3. PICK p \in Nat, q \in Nat, i \in Nat, t \in Nat, b \in Nat, d \in Nat :
          /\ p = Cardinality(Passed) /\ q = Cardinality(Passed') /\ i = Cardinality(Instances)
          /\ t = TotalRisk /\ b = blind /\ d = blind' /\ b <= d
          /\ q <= i /\ q <= p + 1
    BY <2>2, RiskTypes, BlindChecks
  <2>4. PICK m \in Nat, n \in Nat, k \in Nat : m = i + b /\ n = i + d /\ k = p + 1
    <3>1. i + b \in Nat /\ i + d \in Nat /\ p + 1 \in Nat
      BY <2>3
    <3> QED
      BY <3>1
  <2>5. /\ RiskPct * q \in Nat /\ RiskPct * i \in Nat /\ RiskPct * m \in Nat /\ RiskPct * n \in Nat
        /\ RiskPct * p \in Nat /\ RiskPct * k = RiskPct * p + RiskPct
    BY <1>1, <2>4, Times
  <2>6. CASE hint[c]
    <3>1. t < MaxTotalRisk
      BY <1>3, <2>3, <2>6 DEF LimitsAllow
    <3>2. i <= n
      BY <2>3, <2>4
    <3>3. RiskPct * q <= RiskPct * i /\ RiskPct * i <= RiskPct * n
      BY <1>1, <2>3, <2>4, <3>2, Times
    <3>4. t + RiskPct * q < MaxTotalRisk + RiskPct * n
      BY <1>1, <2>5, <3>1, <3>3
    <3> QED
      BY <2>1, <2>3, <2>4, <3>4 DEF RiskInv
  <2>7. CASE ~hint[c]
    <3>1. d = b + 1
      BY <1>3, <2>3, <2>7, BlindChecks
    <3>2. n = m + 1
      BY <2>3, <2>4, <3>1
    <3>3. RiskPct * n = RiskPct * m + RiskPct /\ RiskPct * q <= RiskPct * k
      BY <1>1, <2>3, <2>4, <3>2, Times
    <3>4. t + RiskPct * p < MaxTotalRisk + RiskPct * m
      BY <2>3, <2>4 DEF RiskInv
    <3>5. t + RiskPct * q < MaxTotalRisk + RiskPct * n
      BY <1>1, <2>5, <3>3, <3>4
    <3> QED
      BY <2>1, <2>3, <2>4, <3>5 DEF RiskInv
  <2> QED
    BY <2>6, <2>7
\* A registration adds at most one trade's risk and frees the instance.
<1>4. ASSUME NEW c \in Instances, RegisterExposure(c) PROVE RiskInv'
  <2>1. c \in Passed /\ Passed' = Passed \ {c}
    BY <1>1, <1>4 DEF RegisterExposure, Passed, Goto
  <2>2. Cardinality(Passed') = Cardinality(Passed) - 1 /\ Cardinality(Passed') \in Nat
    <3>1. IsFiniteSet(Passed) /\ IsFiniteSet(Passed')
      BY <2>1, Finite, FS_RemoveElement
    <3> QED
      BY <2>1, <3>1, FS_RemoveElement, FS_CardinalityType
  <2>3. /\ exposure' = [exposure EXCEPT ![Signal(c)] = amount[c]]
        /\ Signal(c) \in Signals
    BY <1>4 DEF RegisterExposure, BatchInv
  <2>4. PICK a \in 0 .. RiskPct, old \in Nat : a = amount[c] /\ old = exposure[Signal(c)]
    BY <1>1, <2>3
  <2>5. Sum(exposure')[Signals] + old = Sum(exposure)[Signals] + a
    <3>1. a \in Nat /\ exposure' = [exposure EXCEPT ![Signal(c)] = a]
      BY <1>1, <2>3, <2>4
    <3>2. Sum([exposure EXCEPT ![Signal(c)] = a])[Signals] + exposure[Signal(c)]
            = Sum(exposure)[Signals] + a
      BY <1>1, <2>3, <3>1, SumUpdate
    <3> QED
      BY <2>4, <3>1, <3>2
  <2>6. PICK q \in Nat, m \in Nat, t \in Nat, u \in Nat :
          /\ q = Cardinality(Passed') /\ q + 1 = Cardinality(Passed)
          /\ m = Cardinality(Instances) + blind
          /\ t = TotalRisk /\ u = TotalRisk'
    <3>1. TotalRisk' \in Nat
      <4>1. exposure' \in [Signals -> Nat] /\ Signals \in SUBSET Signals
        BY <1>1, <2>3, <2>4
      <4> QED
        BY <1>2, <4>1, SumDefined
    <3>2. Cardinality(Passed') + 1 = Cardinality(Passed)
      BY <2>2, RiskTypes
    <3>3. Cardinality(Instances) + blind \in Nat
      <4>1. PICK i \in Nat, b \in Nat : i = Cardinality(Instances) /\ b = blind
        BY RiskTypes, BlindChecks
      <4>2. i + b \in Nat
        BY <4>1
      <4> QED
        BY <4>1, <4>2
    <3> QED
      BY <2>2, <3>1, <3>2, <3>3, RiskTypes
  <2>7. u + old = t + a
    BY <1>2, <2>5, <2>6
  <2>8. t + RiskPct * (q + 1) < MaxTotalRisk + RiskPct * m
    BY <2>6 DEF RiskInv
  <2>9. /\ RiskPct * (q + 1) = RiskPct * q + RiskPct /\ RiskPct * q \in Nat /\ RiskPct * m \in Nat
    BY <1>1, Times
  <2>10. u + RiskPct * q < MaxTotalRisk + RiskPct * m
    BY <1>1, <2>4, <2>7, <2>8, <2>9
  <2>11. blind' = blind
    BY <1>4 DEF RegisterExposure
  <2> QED
    BY <2>6, <2>10, <2>11 DEF RiskInv
\* Every other step only frees.
<1>5. ASSUME ~ \E c \in Instances : (Preflight(c) /\ LimitsAllow(c)) \/ RegisterExposure(c)
      PROVE  RiskInv'
  <2>1. Passed' \subseteq Passed
    BY <1>5, OnlyPreflightPasses
  <2>2. TotalRisk' <= TotalRisk
    <3>1. CASE \E k \in Signals : Release(k) \/ RegistrationLost(k)
      <4> PICK k \in Signals : Release(k) \/ RegistrationLost(k)
        BY <3>1
      <4>1. exposure' = [exposure EXCEPT ![k] = 0]
        BY DEF Release, RegistrationLost
      <4>2. PICK old \in Nat : old = exposure[k]
        BY <1>1
      <4>3. Sum(exposure')[Signals] + old = Sum(exposure)[Signals] + 0
        BY <1>1, <4>1, <4>2, SumUpdate
      <4>4. Sum(exposure')[Signals] \in Nat /\ Sum(exposure)[Signals] \in Nat
        <5>1. exposure' \in [Signals -> Nat] /\ Signals \in SUBSET Signals
          BY <1>1, <4>1
        <5> QED
          BY <1>1, <5>1, SumDefined
      <4> QED
        BY <1>2, <4>2, <4>3, <4>4
    <3>2. CASE UNCHANGED exposure
      BY <1>2, <3>2, RiskTypes
    <3> QED
      BY <1>5, <3>1, <3>2 DEF Next, Instance, Generate, AccountChanges, GroupRewinds,
           Drain, DropMalformed, BalanceHint, Preflight, SizeOrder, PublishIntent,
           PublishRejection, Ack, Crash, vars
  <2> QED
    BY <2>1, <2>2, RiskShrinks, BlindChecks
<1> QED
  BY <1>3, <1>4, <1>5

LEMMA InitRisk == Init => RiskInv
<1> SUFFICES ASSUME Init PROVE RiskInv
  OBVIOUS
<1>1. exposure \in [Signals -> Nat] /\ \A s \in Signals : exposure[s] = 0
  BY DEF Init
<1>2. TotalRisk = 0
  BY <1>1, SumOfNothing, TotalRiskIsSum
<1>3. Passed = {} /\ Cardinality({}) = 0
  BY FS_EmptySet DEF Init, Passed
<1>4. Cardinality(Instances) \in Nat /\ RiskPct \in Nat /\ MaxTotalRisk \in Nat \ {0}
  BY ConstantsAssumption, FS_CardinalityType
<1>5. blind = 0 /\ Cardinality(Instances) + 0 = Cardinality(Instances)
  BY <1>4 DEF Init
<1>6. RiskPct * Cardinality(Instances) \in Nat /\ RiskPct * 0 = 0
  BY <1>4
<1> QED
  BY <1>2, <1>3, <1>4, <1>5, <1>6 DEF RiskInv

LEMMA InductiveRisk == Spec => []RiskInv
<1>1. IInv /\ IInv' /\ RiskInv /\ [Next]_vars => RiskInv'
  BY NextRisk DEF IInv
<1> QED
  BY <1>1, InitRisk, Inductive, PTL DEF Spec

-----------------------------------------------------------------------------
(* One answer for each signal                                               *)

\* A signal is added to the stream once.
Fresh ==
    \A i, j \in 1 .. Len(stream) : stream[i] = stream[j] /\ stream[i] # NoSignal => i = j

Delivered == {stream[i] : i \in 1 .. cursor}

\* A delivered signal waits in one place of one batch.
DeliveredOnce ==
    rewinds = 0 =>
      \A c \in Instances : \A i \in 1 .. Len(todo[c]) : todo[c][i] # NoSignal =>
        /\ todo[c][i] \in Delivered
        /\ \A d \in Instances : \A j \in 1 .. Len(todo[d]) :
             todo[d][j] = todo[c][i] => d = c /\ j = i

\* It is answered at the head of its batch, by one of the two publications, and
\* leaves the batch then.
Answers ==
    rewinds = 0 =>
      /\ intents \cup rejections \subseteq Delivered
      /\ intents \cap rejections = {}
      /\ \A c \in Instances : \A i \in 1 .. Len(todo[c]) : todo[c][i] # NoSignal =>
           /\ todo[c][i] \in intents => i = 1 /\ (pc[c] = "register" \/ pc[c] = "ack")
           /\ todo[c][i] \in rejections => i = 1 /\ pc[c] = "ack"

AnswerInv == Fresh /\ DeliveredOnce /\ Answers

LEMMA AnswerTypes ==
  ASSUME TypeOK
  PROVE  /\ stream \in Seq(Entry) /\ Len(stream) \in Nat /\ cursor \in 0 .. Len(stream)
         /\ todo \in [Instances -> Seq(Entry)] /\ pc \in [Instances -> PC]
         /\ rewinds \in Nat /\ intents \subseteq Signals /\ rejections \subseteq Signals
         /\ NoSignal \notin Signals
         /\ \A c \in Instances : Len(todo[c]) \in Nat
BY ConstantsAssumption DEF TypeOK

\* Steps that deliver nothing and publish nothing keep the invariant, if no
\* instance goes back from an answer.
LEMMA AnswersStay ==
  ASSUME AnswerInv, UNCHANGED <<stream, cursor, todo, intents, rejections, rewinds>>,
         \A d \in Instances : /\ pc[d] = "ack" => pc'[d] = "ack"
                              /\ pc[d] = "register" => pc'[d] = "register" \/ pc'[d] = "ack"
  PROVE  AnswerInv'
<1>1. Fresh'
  BY DEF AnswerInv, Fresh
<1>2. Delivered' = Delivered
  BY DEF Delivered
<1>3. DeliveredOnce'
  BY <1>2 DEF AnswerInv, DeliveredOnce
<1>4. Answers'
  BY <1>2 DEF AnswerInv, Answers
<1> QED
  BY <1>1, <1>3, <1>4 DEF AnswerInv

LEMMA GenerateKeepsAnswers ==
  ASSUME TypeOK, AnswerInv, NEW e \in Entry, Generate(e)
  PROVE  AnswerInv'
<1>1. stream' = Append(stream, e) /\ UNCHANGED <<cursor, intents, rejections, pc, todo, rewinds>>
  BY DEF Generate
<1>2. /\ Len(stream') = Len(stream) + 1 /\ stream'[Len(stream) + 1] = e
      /\ \A i \in 1 .. Len(stream) : stream'[i] = stream[i]
  BY <1>1, AnswerTypes
<1>3. Delivered' = Delivered
  <2>1. \A i \in 1 .. cursor : stream'[i] = stream[i]
    BY <1>2, AnswerTypes
  <2> QED
    BY <1>1, <2>1 DEF Delivered
<1>4. Fresh'
  <2>1. PICK n \in Nat : n = Len(stream)
    BY AnswerTypes
  <2>2. \A i \in 1 .. n : stream[i] = e => e = NoSignal
    BY <2>1 DEF Generate, Unused
  <2>3. \A i, j \in 1 .. n : stream[i] = stream[j] /\ stream[i] # NoSignal => i = j
    BY <2>1 DEF AnswerInv, Fresh
  <2>4. \A i \in 1 .. n + 1 : i = n + 1 \/ i \in 1 .. n
    OBVIOUS
  <2>5. ASSUME NEW i \in 1 .. n + 1, NEW j \in 1 .. n + 1,
               stream'[i] = stream'[j], stream'[i] # NoSignal
        PROVE  i = j
    BY <1>2, <2>1, <2>2, <2>3, <2>4, <2>5
  <2>6. Len(stream') = n + 1
    BY <1>2, <2>1
  <2> QED
    BY <2>5, <2>6 DEF Fresh
<1>5. DeliveredOnce' /\ Answers'
  BY <1>1, <1>3 DEF AnswerInv, DeliveredOnce, Answers
<1> QED
  BY <1>4, <1>5 DEF AnswerInv

\* What is delivered next was never delivered before.
LEMMA DrainKeepsAnswers ==
  ASSUME TypeOK, AnswerInv, NEW c \in Instances, Drain(c)
  PROVE  AnswerInv'
<1>1. /\ UNCHANGED <<stream, intents, rejections, rewinds>>
      /\ todo' = [todo EXCEPT ![c] = SubSeq(stream, cursor + 1, cursor')]
      /\ pc' = [pc EXCEPT ![c] = "hint"]
  BY DEF Drain, Goto
<1>2. cursor' \in cursor + 1 .. Len(stream)
  BY AnswerTypes, ConstantsAssumption DEF Drain
<1>3. PICK a \in Nat, m \in Nat, n \in Nat :
        a = cursor /\ a + m = cursor' /\ n = Len(stream) /\ m > 0 /\ a + m <= n
  <2>1. /\ cursor \in Nat /\ Len(stream) \in Nat /\ cursor' \in Nat
        /\ cursor < cursor' /\ cursor' <= Len(stream)
    BY <1>2, AnswerTypes
  <2>2. \A x, y \in Nat : x < y => y - x \in Nat /\ y - x > 0 /\ x + (y - x) = y
    OBVIOUS
  <2>3. cursor' - cursor \in Nat /\ cursor' - cursor > 0 /\ cursor + (cursor' - cursor) = cursor'
    BY <2>1, <2>2
  <2> QED
    BY <2>1, <2>3
<1>4. /\ Len(todo'[c]) = m
      /\ \A i \in 1 .. m : todo'[c][i] = stream[a + i]
  <2>1. stream \in Seq(Entry) /\ a + 1 \in 1 .. n + 1 /\ a + m \in a .. n
    BY <1>3, AnswerTypes
  <2>2. todo'[c] = SubSeq(stream, a + 1, a + m)
    BY <1>1, <1>3, AnswerTypes
  <2>3. Len(SubSeq(stream, a + 1, a + m)) = m
    BY <1>3, <2>1
  <2>4. \A i \in 1 .. m : SubSeq(stream, a + 1, a + m)[i] = stream[a + i]
    BY <1>3, <2>1
  <2> QED
    BY <2>2, <2>3, <2>4
<1>5. \A d \in Instances : d # c => todo'[d] = todo[d] /\ pc'[d] = pc[d]
  BY <1>1, AnswerTypes
<1>6. pc'[c] = "hint"
  BY <1>1, AnswerTypes
<1>7. Fresh'
  BY <1>1 DEF AnswerInv, Fresh
<1>8. Delivered \subseteq Delivered' /\ \A i \in 1 .. m : stream[a + i] \in Delivered'
  <2>1. \A i \in 1 .. a : i \in 1 .. a + m
    BY <1>3
  <2>2. \A i \in 1 .. m : a + i \in 1 .. a + m
    BY <1>3
  <2> QED
    BY <1>1, <1>3, <2>1, <2>2 DEF Delivered
<1>9. ASSUME NEW i \in 1 .. m, stream[a + i] # NoSignal
      PROVE  /\ stream[a + i] \notin Delivered
             /\ \A j \in 1 .. m : stream[a + j] = stream[a + i] => j = i
  <2>1. \A j \in 1 .. m : a + j \in 1 .. n
    BY <1>3
  <2>2. \A j \in 1 .. a : j \in 1 .. n /\ j # a + i
    BY <1>3
  <2>3. \A j \in 1 .. n : stream[j] = stream[a + i] => j = a + i
    BY <1>3, <1>9, <2>1 DEF AnswerInv, Fresh
  <2>4. stream[a + i] \notin Delivered
    BY <1>3, <2>2, <2>3 DEF Delivered
  <2>5. ASSUME NEW j \in 1 .. m, stream[a + j] = stream[a + i] PROVE j = i
    <3>1. a + j = a + i
      BY <2>1, <2>3, <2>5
    <3> QED
      BY <3>1
  <2> QED
    BY <2>4, <2>5
<1>10. ASSUME rewinds = 0
       PROVE  \A d \in Instances : \A i \in 1 .. Len(todo'[d]) : todo'[d][i] # NoSignal =>
                /\ todo'[d][i] \in Delivered'
                /\ \A f \in Instances : \A j \in 1 .. Len(todo'[f]) :
                     todo'[f][j] = todo'[d][i] => f = d /\ j = i
  <2>1. \A d \in Instances : \A i \in 1 .. Len(todo[d]) : todo[d][i] # NoSignal =>
          /\ todo[d][i] \in Delivered
          /\ \A f \in Instances : \A j \in 1 .. Len(todo[f]) :
               todo[f][j] = todo[d][i] => f = d /\ j = i
    BY <1>10 DEF AnswerInv, DeliveredOnce
  <2> SUFFICES ASSUME NEW d \in Instances, NEW i \in 1 .. Len(todo'[d]), todo'[d][i] # NoSignal
               PROVE  /\ todo'[d][i] \in Delivered'
                      /\ \A f \in Instances : \A j \in 1 .. Len(todo'[f]) :
                           todo'[f][j] = todo'[d][i] => f = d /\ j = i
    OBVIOUS
  <2>2. CASE d = c
    <3>1. /\ i \in 1 .. m /\ todo'[d][i] = stream[a + i]
          /\ stream[a + i] \in Delivered' /\ stream[a + i] \notin Delivered
          /\ \A j \in 1 .. m : stream[a + j] = stream[a + i] => j = i
      BY <1>4, <1>8, <1>9, <2>2
    <3>2. ASSUME NEW f \in Instances, f # c, NEW j \in 1 .. Len(todo'[f]),
                 todo'[f][j] = todo'[d][i]
          PROVE  FALSE
      <4>1. todo'[f] = todo[f] /\ todo[f][j] # NoSignal /\ j \in 1 .. Len(todo[f])
        BY <1>5, <2>1, <3>2, <2>2
      <4>2. todo[f][j] \in Delivered
        BY <2>1, <4>1
      <4> QED
        BY <3>1, <3>2, <4>1, <4>2
    <3> QED
      BY <1>4, <2>2, <3>1, <3>2
  <2>3. CASE d # c
    <3>1. /\ todo'[d] = todo[d] /\ todo[d][i] \in Delivered /\ i \in 1 .. Len(todo[d])
      BY <1>5, <2>1, <2>3
    <3>2. ASSUME NEW j \in 1 .. Len(todo'[c]), todo'[c][j] = todo'[d][i] PROVE FALSE
      BY <1>4, <1>9, <3>1, <3>2
    <3>3. ASSUME NEW f \in Instances, f # c, NEW j \in 1 .. Len(todo'[f]),
                 todo'[f][j] = todo'[d][i]
          PROVE  f = d /\ j = i
      BY <1>5, <2>1, <3>1, <3>3
    <3> QED
      BY <1>8, <3>1, <3>2, <3>3
  <2> QED
    BY <2>2, <2>3
<1>11. DeliveredOnce'
  BY <1>1, <1>10 DEF DeliveredOnce
<1>12. Answers'
  <2> SUFFICES ASSUME rewinds = 0
               PROVE  /\ intents \cup rejections \subseteq Delivered'
                      /\ intents \cap rejections = {}
                      /\ \A d \in Instances : \A i \in 1 .. Len(todo'[d]) :
                           todo'[d][i] # NoSignal =>
                             /\ todo'[d][i] \in intents
                                  => i = 1 /\ (pc'[d] = "register" \/ pc'[d] = "ack")
                             /\ todo'[d][i] \in rejections => i = 1 /\ pc'[d] = "ack"
    BY <1>1 DEF Answers
  <2>1. /\ intents \cup rejections \subseteq Delivered
        /\ intents \cap rejections = {}
        /\ \A d \in Instances : \A i \in 1 .. Len(todo[d]) : todo[d][i] # NoSignal =>
             /\ todo[d][i] \in intents => i = 1 /\ (pc[d] = "register" \/ pc[d] = "ack")
             /\ todo[d][i] \in rejections => i = 1 /\ pc[d] = "ack"
    BY DEF AnswerInv, Answers
  <2>2. ASSUME NEW i \in 1 .. Len(todo'[c]), todo'[c][i] # NoSignal
        PROVE  todo'[c][i] \notin intents /\ todo'[c][i] \notin rejections
    BY <1>4, <1>9, <2>1, <2>2
  <2> QED
    BY <1>5, <1>8, <2>1, <2>2
<1> QED
  BY <1>7, <1>11, <1>12 DEF AnswerInv

\* A published answer is the first one, and its signal waits nowhere else.
LEMMA PublishKeepsAnswers ==
  ASSUME TypeOK, BatchInv, AnswerInv, NEW c \in Instances, PublishIntent(c) \/ PublishRejection(c)
  PROVE  AnswerInv'
<1>1. UNCHANGED <<stream, cursor, todo, rewinds>>
  BY DEF PublishIntent, PublishRejection
<1>2. \/ /\ pc[c] = "approve" /\ pc' = [pc EXCEPT ![c] = "register"]
         /\ intents' = intents \cup {Signal(c)} /\ rejections' = rejections
      \/ /\ pc[c] = "reject" /\ pc' = [pc EXCEPT ![c] = "ack"]
         /\ rejections' = rejections \cup {Signal(c)} /\ intents' = intents
  BY DEF PublishIntent, PublishRejection, Goto
<1>3. Signal(c) \in Signals /\ Signal(c) # NoSignal
  BY <1>2, ConstantsAssumption DEF BatchInv
<1>4. 1 \in 1 .. Len(todo[c]) /\ Signal(c) = todo[c][1]
  <2>1. todo[c] \in Seq(Entry) /\ Len(todo[c]) \in Nat /\ Len(todo[c]) > 0
    BY <1>2, AnswerTypes DEF BatchInv
  <2>2. todo[c] # <<>>
    BY <2>1
  <2> QED
    BY <2>1, <2>2 DEF Signal
<1>5. Fresh' /\ Delivered' = Delivered /\ DeliveredOnce'
  BY <1>1 DEF AnswerInv, Fresh, Delivered, DeliveredOnce
<1>6. Answers'
  <2> SUFFICES ASSUME rewinds = 0
               PROVE  /\ intents' \cup rejections' \subseteq Delivered
                      /\ intents' \cap rejections' = {}
                      /\ \A d \in Instances : \A i \in 1 .. Len(todo[d]) :
                           todo[d][i] # NoSignal =>
                             /\ todo[d][i] \in intents'
                                  => i = 1 /\ (pc'[d] = "register" \/ pc'[d] = "ack")
                             /\ todo[d][i] \in rejections' => i = 1 /\ pc'[d] = "ack"
    BY <1>1, <1>5 DEF Answers
  <2>1. /\ intents \cup rejections \subseteq Delivered
        /\ intents \cap rejections = {}
        /\ \A d \in Instances : \A i \in 1 .. Len(todo[d]) : todo[d][i] # NoSignal =>
             /\ todo[d][i] \in intents => i = 1 /\ (pc[d] = "register" \/ pc[d] = "ack")
             /\ todo[d][i] \in rejections => i = 1 /\ pc[d] = "ack"
    BY DEF AnswerInv, Answers
  <2>2. /\ Signal(c) \in Delivered
        /\ \A d \in Instances : \A i \in 1 .. Len(todo[d]) : todo[d][i] = Signal(c) => d = c /\ i = 1
    BY <1>3, <1>4 DEF AnswerInv, DeliveredOnce
  <2>3. Signal(c) \notin intents /\ Signal(c) \notin rejections
    BY <1>2, <1>3, <1>4, <2>1
  <2>4. intents' \cup rejections' \subseteq Delivered /\ intents' \cap rejections' = {}
    BY <1>2, <2>1, <2>2, <2>3
  <2>5. \A d \in Instances : d # c => pc'[d] = pc[d]
    BY <1>2, AnswerTypes
  <2>6. ASSUME NEW d \in Instances, NEW i \in 1 .. Len(todo[d]), todo[d][i] # NoSignal
        PROVE  /\ todo[d][i] \in intents'
                    => i = 1 /\ (pc'[d] = "register" \/ pc'[d] = "ack")
               /\ todo[d][i] \in rejections' => i = 1 /\ pc'[d] = "ack"
    <3>1. CASE todo[d][i] = Signal(c)
      <4>1. d = c /\ i = 1
        BY <2>2, <3>1
      <4> QED
        BY <1>2, <2>3, <3>1, <4>1, AnswerTypes
    <3>2. CASE todo[d][i] # Signal(c)
      <4>1. /\ todo[d][i] \in intents' <=> todo[d][i] \in intents
            /\ todo[d][i] \in rejections' <=> todo[d][i] \in rejections
        BY <1>2, <3>2
      <4>2. /\ todo[d][i] \in intents => i = 1 /\ (pc[d] = "register" \/ pc[d] = "ack")
            /\ todo[d][i] \in rejections => i = 1 /\ pc[d] = "ack"
        BY <2>1, <2>6
      <4>3. pc[c] # "register" /\ pc[c] # "ack"
        BY <1>2
      <4> QED
        BY <2>5, <4>1, <4>2, <4>3
    <3> QED
      BY <3>1, <3>2
  <2> QED
    BY <2>4, <2>6
<1> QED
  BY <1>5, <1>6 DEF AnswerInv

\* Dropping the head of a batch, or the whole of it.
LEMMA ShorterBatchKeepsAnswers ==
  ASSUME TypeOK, BatchInv, AnswerInv, NEW c \in Instances, Ack(c) \/ Crash(c)
  PROVE  AnswerInv'
<1>1. /\ UNCHANGED <<stream, cursor, intents, rejections, rewinds>>
      /\ \A d \in Instances : d # c => todo'[d] = todo[d] /\ pc'[d] = pc[d]
  BY AnswerTypes DEF Ack, Crash, Goto
<1>2. PICK o \in {0, 1} : /\ \A i \in 1 .. Len(todo'[c]) : /\ i + o \in 1 .. Len(todo[c])
                                                          /\ todo'[c][i] = todo[c][i + o]
                          /\ Len(todo'[c]) = 0 \/ o = 1
  <2>1. CASE Ack(c)
    <3>1. todo[c] \in Seq(Entry) /\ Len(todo[c]) \in Nat /\ Len(todo[c]) > 0
      BY <2>1, AnswerTypes DEF Ack, BatchInv
    <3>2. todo'[c] = Tail(todo[c])
      BY <2>1, AnswerTypes DEF Ack
    <3>3. todo[c] # <<>>
      BY <3>1
    <3>4. Len(Tail(todo[c])) = Len(todo[c]) - 1
      BY <3>1, <3>3
    <3>5. \A i \in 1 .. Len(Tail(todo[c])) : Tail(todo[c])[i] = todo[c][i + 1]
      BY <3>1, <3>3
    <3>6. \A i \in 1 .. Len(todo'[c]) : i + 1 \in 1 .. Len(todo[c]) /\ todo'[c][i] = todo[c][i + 1]
      BY <3>1, <3>2, <3>4, <3>5
    <3> QED
      BY <3>6
  <2>2. CASE Crash(c)
    <3>1. todo'[c] = <<>>
      BY <2>2, AnswerTypes DEF Crash
    <3> QED
      BY <3>1
  <2> QED
    BY <2>1, <2>2
<1>3. Fresh' /\ Delivered' = Delivered
  BY <1>1 DEF AnswerInv, Fresh, Delivered
<1>4. DeliveredOnce'
  <2> SUFFICES ASSUME rewinds = 0, NEW d \in Instances, NEW i \in 1 .. Len(todo'[d]),
                      todo'[d][i] # NoSignal
               PROVE  /\ todo'[d][i] \in Delivered
                      /\ \A f \in Instances : \A j \in 1 .. Len(todo'[f]) :
                           todo'[f][j] = todo'[d][i] => f = d /\ j = i
    BY <1>1, <1>3 DEF DeliveredOnce
  <2>1. \A f \in Instances : \A j \in 1 .. Len(todo'[f]) :
          \E p \in {0, 1} : /\ p = IF f = c THEN o ELSE 0
                            /\ j + p \in 1 .. Len(todo[f]) /\ todo'[f][j] = todo[f][j + p]
    BY <1>1, <1>2
  <2>2. PICK p \in {0, 1} : /\ p = IF d = c THEN o ELSE 0
                            /\ i + p \in 1 .. Len(todo[d]) /\ todo'[d][i] = todo[d][i + p]
    BY <2>1
  <2>3. /\ todo'[d][i] \in Delivered
        /\ \A f \in Instances : \A j \in 1 .. Len(todo[f]) :
             todo[f][j] = todo'[d][i] => f = d /\ j = i + p
    BY <2>2 DEF AnswerInv, DeliveredOnce
  <2>4. ASSUME NEW f \in Instances, NEW j \in 1 .. Len(todo'[f]), todo'[f][j] = todo'[d][i]
        PROVE  f = d /\ j = i
    <3>1. PICK q \in {0, 1} : /\ q = IF f = c THEN o ELSE 0
                              /\ j + q \in 1 .. Len(todo[f]) /\ todo'[f][j] = todo[f][j + q]
      BY <2>1
    <3>2. f = d /\ j + q = i + p
      BY <2>3, <2>4, <3>1
    <3>3. p = q
      BY <2>2, <3>1, <3>2
    <3> QED
      BY <3>2, <3>3
  <2> QED
    BY <2>3, <2>4
<1>5. Answers'
  <2> SUFFICES ASSUME rewinds = 0
               PROVE  /\ intents \cup rejections \subseteq Delivered
                      /\ intents \cap rejections = {}
                      /\ \A d \in Instances : \A i \in 1 .. Len(todo'[d]) :
                           todo'[d][i] # NoSignal =>
                             /\ todo'[d][i] \in intents
                                  => i = 1 /\ (pc'[d] = "register" \/ pc'[d] = "ack")
                             /\ todo'[d][i] \in rejections => i = 1 /\ pc'[d] = "ack"
    BY <1>1, <1>3 DEF Answers
  <2>1. /\ intents \cup rejections \subseteq Delivered
        /\ intents \cap rejections = {}
        /\ \A d \in Instances : \A i \in 1 .. Len(todo[d]) : todo[d][i] # NoSignal =>
             /\ todo[d][i] \in intents => i = 1 /\ (pc[d] = "register" \/ pc[d] = "ack")
             /\ todo[d][i] \in rejections => i = 1 /\ pc[d] = "ack"
    BY DEF AnswerInv, Answers
  <2>2. ASSUME NEW i \in 1 .. Len(todo'[c]), todo'[c][i] # NoSignal
        PROVE  todo'[c][i] \notin intents /\ todo'[c][i] \notin rejections
    <3>1. /\ i + 1 \in 1 .. Len(todo[c]) /\ todo'[c][i] = todo[c][i + 1] /\ i + 1 # 1
      BY <1>2
    <3> QED
      BY <2>1, <2>2, <3>1
  <2> QED
    BY <1>1, <2>1, <2>2
<1> QED
  BY <1>3, <1>4, <1>5 DEF AnswerInv

LEMMA NextAnswers == TypeOK /\ BatchInv /\ AnswerInv /\ [Next]_vars => AnswerInv'
<1> SUFFICES ASSUME TypeOK, BatchInv, AnswerInv, [Next]_vars PROVE AnswerInv'
  OBVIOUS
<1>1. CASE GroupRewinds
  <2>1. rewinds' # 0 /\ stream' = stream
    BY <1>1, AnswerTypes DEF GroupRewinds
  <2> QED
    BY <2>1 DEF AnswerInv, Fresh, DeliveredOnce, Answers
<1>2. ASSUME NEW c \in Instances,
             \/ DropMalformed(c) \/ BalanceHint(c) \/ Preflight(c)
             \/ SizeOrder(c) \/ RegisterExposure(c)
      PROVE  AnswerInv'
  <2>1. /\ UNCHANGED <<stream, cursor, todo, intents, rejections, rewinds>>
        /\ \E l \in PC : /\ pc' = [pc EXCEPT ![c] = l]
                         /\ pc[c] = "register" => l = "ack"
        /\ pc[c] # "ack"
    BY <1>2, Labels DEF DropMalformed, BalanceHint, Preflight, SizeOrder, RegisterExposure, Goto
  <2>2. \A d \in Instances : /\ pc[d] = "ack" => pc'[d] = "ack"
                             /\ pc[d] = "register" => pc'[d] = "register" \/ pc'[d] = "ack"
    BY <2>1, AnswerTypes
  <2> QED
    BY <2>1, <2>2, AnswersStay
<1>3. CASE \/ \E k \in Signals : Release(k) \/ RegistrationLost(k)
           \/ AccountChanges
           \/ UNCHANGED vars
  <2>1. UNCHANGED <<stream, cursor, todo, intents, rejections, rewinds, pc>>
    BY <1>3 DEF Release, RegistrationLost, AccountChanges, vars
  <2> QED
    BY <2>1, AnswersStay
<1> QED
  BY <1>1, <1>2, <1>3, GenerateKeepsAnswers, DrainKeepsAnswers, PublishKeepsAnswers,
     ShorterBatchKeepsAnswers DEF Next, Instance

LEMMA InitAnswers == Init => AnswerInv
<1> SUFFICES ASSUME Init PROVE AnswerInv
  OBVIOUS
<1>1. stream = <<>> /\ Len(stream) = 0 /\ \A c \in Instances : Len(todo[c]) = 0
  BY DEF Init
<1>2. \A i \in 1 .. 0 : FALSE
  OBVIOUS
<1>3. intents = {} /\ rejections = {}
  BY DEF Init
<1> QED
  BY <1>1, <1>2, <1>3 DEF AnswerInv, Fresh, DeliveredOnce, Answers

-----------------------------------------------------------------------------
(* The theorems                                                             *)

(* N instances of risk-service exceed max_open_trades by N - 1 at most, and  *)
(* by one more for every crash or lost registration.                         *)
THEOREM BoundedOvershoot == Spec => []OpenTradesBounded
BY Inductive, OpenIsAccountedFor, PTL

(* One instance, with nothing lost, keeps max_open_trades as exposure.py     *)
(* states it: preflight's race is one between instances only.                *)
THEOREM SoloInstanceKeepsLimit ==
  ASSUME Cardinality(Instances) = 1, \A b \in Scenarios : b.faults = 0
  PROVE  Spec => []OpenTradesLimited
<1>1. IInv => OpenTradesLimited
  <2> SUFFICES ASSUME IInv PROVE OpenTradesLimited
    OBVIOUS
  <2>1. TypeOK /\ faults = 0
    BY DEF IInv, TypeOK
  <2>2. Cardinality(open) + 1 <= MaxOpenTrades + Cardinality(Instances) + faults
    BY OpenIsAccountedFor DEF OpenTradesBounded
  <2> QED
    BY <2>1, <2>2, Finite, ConstantsAssumption DEF OpenTradesLimited
<1> QED
  BY <1>1, Inductive, PTL

(* Whatever is redelivered, lost or restarted, the gate holds capacity only  *)
(* for orders it has sent on.                                                *)
THEOREM CapacityIsForIntents == Spec => []ExposureHasIntent
<1>1. IInv => ExposureHasIntent
  BY DEF IInv, IntentInv
<1> QED
  BY <1>1, Inductive, PTL

(* The registered risk passes max_total_risk_pct by less than one trade's    *)
(* risk per instance, and by one for every check that had no balance to go   *)
(* by, however the steps interleave.                                         *)
THEOREM BoundedTotalRisk == Spec => []TotalRiskBounded
<1>1. TypeOK /\ RiskInv => TotalRiskBounded
  <2> SUFFICES ASSUME TypeOK, RiskInv PROVE TotalRiskBounded
    OBVIOUS
  <2>1. PICK p \in Nat, m \in Nat, t \in Nat :
          p = Cardinality(Passed) /\ m = Cardinality(Instances) + blind /\ t = TotalRisk
    <3>1. Cardinality(Instances) + blind \in Nat
      BY RiskTypes DEF TypeOK
    <3> QED
      BY <3>1, RiskTypes
  <2>2. t + RiskPct * p < MaxTotalRisk + RiskPct * m
    BY <2>1 DEF RiskInv
  <2>3. RiskPct * p \in Nat /\ RiskPct * m \in Nat /\ MaxTotalRisk \in Nat
    BY <2>1, Times, ConstantsAssumption
  <2>4. t < MaxTotalRisk + RiskPct * m
    BY <2>1, <2>2, <2>3
  <2> QED
    BY <2>1, <2>4 DEF TotalRiskBounded
<1>2. IInv => TypeOK
  BY DEF IInv
<1> QED
  BY <1>1, <1>2, Inductive, InductiveRisk, PTL

(* However many instances share the group, a signal that is delivered once   *)
(* is never both sent on and rejected: only a rewound group makes a second   *)
(* answer possible.                                                          *)
THEOREM SignalsAnsweredOnce == Spec => []OneAnswer
<1>1. IInv /\ AnswerInv /\ [Next]_vars => AnswerInv'
  BY NextAnswers DEF IInv
<1>2. AnswerInv => OneAnswer
  BY DEF AnswerInv, Answers, OneAnswer
<1> QED
  BY <1>1, <1>2, InitAnswers, Inductive, PTL DEF Spec

(* The registry, the batches and the decisions keep their types; in          *)
(* particular a signal handled twice never registers more than one trade's   *)
(* risk.                                                                     *)
THEOREM TypeCorrect == Spec => []TypeOK
<1>1. IInv => TypeOK
  BY DEF IInv
<1> QED
  BY <1>1, Inductive, PTL
=============================================================================
