--------------------------- MODULE GatewayProofs ---------------------------
(***************************************************************************)
(* Proofs about Gateway: how many of any number of concurrent requests the *)
(* limiter lets through in a window, and what a refusal means.             *)
(***************************************************************************)
EXTENDS Gateway, FiniteSetTheorems, WellFoundedInduction, TLAPS

USE DEF limiterVars, answerVars

\* Where a request is once its member was added; where a check may be.
Counted(r) == pc[r] \notin {"idle", "prune", "add"} /\ status[r] # 401

\* A member is its request's, an arrived request is not of the future, and a
\* check is never older than Delay.
Times ==
    /\ \A m \in key : Counted(m.id) /\ m.score = start[m.id] /\ m.score <= now
    /\ \A r \in Request : start[r] <= now
    /\ \A r \in Request : pc[r] \in Checking => now <= start[r] + Delay

\* What the limiter has decided and where the request is.
Decided ==
    /\ \A r \in admitted : pc[r] \in {"expire", "forward", "done"}
    /\ \A r \in Request : pc[r] = "forward" => r \in admitted
    /\ \A r \in Request : pc[r] = "oldest" => r \notin admitted
    /\ \A r \in Request : pc[r] # "done" => executed[r] = 0

\* A member that is still in its window is in the set, unless the key ran out.
Member_(r) == [id |-> r, score |-> start[r]]
KeyHolds ==
    \A r \in Request :
        /\ r \in admitted \/ pc[r] \in {"count", "expire", "oldest"}
        /\ start[r] > now - Window
        /\ r \notin expired
        => Member_(r) \in key

Others(r) == {q \in Request \ {r} : pc[q] # "idle" /\ start[q] > start[r] - Window
                                    /\ status[q] # 401}

\* A request that is or will be refused has seen Limit others.
Crowded ==
    \A r \in Request :
        status[r] = 429 \/ (pc[r] \in {"expire", "oldest"} /\ r \notin admitted)
            => Cardinality(Others(r)) >= Limit

Burst(t) == {r \in admitted : start[r] \in t .. t + Window - Delay - 1}

IInv == TypeOK /\ Times /\ Decided /\ KeyHolds

-----------------------------------------------------------------------------
(* The smallest element of a set of scores                                  *)

\* The intervals below the elements are finite, so that one has no part among them.
LEMMA MinNat ==
  ASSUME NEW S \in SUBSET Nat, S # {}
  PROVE  Min(S) \in S /\ \A x \in S : Min(S) <= x
<1> DEFINE T == {0 .. x - 1 : x \in S}
<1>1. T \subseteq FiniteSubsetsOf(Nat) /\ T # {}
  <2>1. ASSUME NEW x \in S PROVE 0 .. x - 1 \in FiniteSubsetsOf(Nat)
    <3>1. x - 1 \in Int /\ 0 .. x - 1 \in SUBSET Nat
      OBVIOUS
    <3>2. IsFiniteSet(0 .. x - 1)
      BY <3>1, FS_Interval
    <3> QED
      BY <3>1, <3>2 DEF FiniteSubsetsOf
  <2> QED
    BY <2>1
<1>2. \E d \in T : \A e \in T : ~(<<e, d>> \in StrictSubsetOrdering(Nat))
  <2> HIDE DEF T
  <2> QED
    BY <1>1, WFMin, FS_StrictSubsetOrderingWellFounded
<1>3. PICK a \in S : \A e \in T : ~(<<e, 0 .. a - 1>> \in StrictSubsetOrdering(Nat))
  BY <1>2
<1>4. ASSUME NEW b \in S, b < a PROVE FALSE
  <2>1. a \in Nat /\ b \in Nat
    OBVIOUS
  <2>2. /\ 0 .. b - 1 \subseteq 0 .. a - 1
        /\ b \in 0 .. a - 1 /\ b \notin 0 .. b - 1
        /\ 0 .. b - 1 \in SUBSET Nat /\ 0 .. a - 1 \in SUBSET Nat
    BY <1>4, <2>1
  <2>3. <<0 .. b - 1, 0 .. a - 1>> \in StrictSubsetOrdering(Nat)
    BY <2>2 DEF StrictSubsetOrdering
  <2> QED
    BY <1>3, <2>3
<1>5. \A b \in S : a <= b
  BY <1>4
<1> QED
  BY <1>5 DEF Min

LEMMA MinSingle ==
  ASSUME NEW a \in Int
  PROVE  Min({a}) = a
BY DEF Min

-----------------------------------------------------------------------------
(* Type correctness                                                         *)

LEMMA Labels ==
  ASSUME NEW x
  PROVE  x \in Checking <=> (x = "prune" \/ x = "add" \/ x = "count" \/ x = "expire" \/ x = "oldest")
BY DEF Checking

LEMMA InitIInv == Init => IInv
<1> SUFFICES ASSUME Init PROVE IInv
  OBVIOUS
<1> USE DEF Init
<1>1. TypeOK
  BY GatewayAssumption DEF TypeOK
<1>2. Times /\ Decided /\ KeyHolds
  BY DEF Times, Decided, KeyHolds, Checking
<1> QED
  BY <1>1, <1>2 DEF IInv

\* The wait a refused request is told is between one and a window, a delay more
\* at most when its own member was forgotten.
LEMMA RetryRange ==
  ASSUME IInv, NEW r \in Request, Oldest(r)
  PROVE  /\ retry'[r] \in 1 .. Window + Delay
         /\ r \notin expired => retry'[r] \in 1 .. Window
<1> DEFINE S == {m.score : m \in key} \cup (IF key = {} THEN {start[r] - Window} ELSE {})
           wait == Min(S) + Window - start[r]
<1>1. /\ Window \in Nat \ {0} /\ Delay \in 0 .. Window - 1 /\ start[r] \in Nat /\ now \in Nat
      /\ now <= start[r] + Delay /\ start[r] <= now
  BY GatewayAssumption DEF IInv, TypeOK, Times, Oldest, Checking
<1>2. retry'[r] = IF wait < 1 THEN 1 ELSE wait
  BY DEF Oldest, IInv, TypeOK
<1>3. CASE key = {}
  <2>1. S = {start[r] - Window}
    BY <1>3
  <2>2. start[r] - Window \in Int
    BY <1>1
  <2>3. Min(S) = start[r] - Window
    BY <2>1, <2>2, MinSingle, Zenon
  <2> HIDE DEF S
  <2> QED
    BY <1>1, <1>2, <2>3
<1>4. CASE key # {}
  <2>1. \A m \in key : m.score \in Nat /\ m.score <= now
    BY DEF IInv, TypeOK, Times, Member
  <2>2. S \in SUBSET Nat /\ S # {}
    BY <1>4, <2>1
  <2>3. Min(S) \in S /\ \A x \in S : Min(S) <= x
    BY <2>2, MinNat
  <2>4. Min(S) \in Nat /\ Min(S) <= now
    BY <1>4, <2>1, <2>3
  <2>5. r \notin expired => Min(S) <= start[r]
    <3>1. SUFFICES ASSUME r \notin expired PROVE Min(S) <= start[r]
      OBVIOUS
    <3>2. Member_(r) \in key
      BY <1>1, <3>1 DEF IInv, KeyHolds, Oldest
    <3>3. start[r] \in S
      BY <3>2 DEF Member_
    <3> QED
      BY <2>3, <3>3
  <2> HIDE DEF S
  <2> QED
    BY <1>1, <1>2, <2>4, <2>5
<1> QED
  BY <1>3, <1>4

\* A step moves the requests as the limiter's calls do, one at a time.
LEMMA NextTypeOK == IInv /\ [Next]_vars => TypeOK'
<1> SUFFICES ASSUME IInv, [Next]_vars PROVE TypeOK'
  OBVIOUS
<1>1. /\ now \in 0 .. MaxTime /\ MaxTime \in Nat /\ Window \in Nat \ {0}
      /\ Delay \in 0 .. Window - 1 /\ MaxFaults \in Nat
  BY GatewayAssumption DEF IInv, TypeOK
<1>2. key \subseteq Member /\ expiry \in 0 .. MaxTime + Window /\ (key = {} => expiry = 0)
  BY DEF IInv, TypeOK
<1>3. /\ pc \in [Request -> Checking \cup {"idle", "forward", "done"}]
      /\ status \in [Request -> Refusal \cup {0, 200, 502, 504}]
      /\ \A r \in Request : (pc[r] = "done") <=> (status[r] # 0)
  BY DEF IInv, TypeOK
<1>4. start \in [Request -> 0 .. MaxTime] /\ retry \in [Request -> 0 .. Window + Delay]
  BY DEF IInv, TypeOK
<1>5. admitted \subseteq Request /\ expired \subseteq Request /\ faults \in 0 .. MaxFaults
  BY DEF IInv, TypeOK
<1>6. executed \in [Request -> {0, 1}]
  BY DEF IInv, TypeOK
<1>7. \A m \in key : m.id \in Request /\ m.score \in 0 .. MaxTime
  BY <1>2 DEF Member
<1>8. ASSUME NEW r \in Request, NEW l \in Checking \cup {"forward"}, Goto(r, l),
             UNCHANGED status, status[r] = 0
      PROVE  /\ pc' \in [Request -> Checking \cup {"idle", "forward", "done"}]
             /\ \A q \in Request : (pc'[q] = "done") <=> (status'[q] # 0)
  BY <1>3, <1>8 DEF Goto, Checking
<1>9. ASSUME NEW r \in Request, NEW code \in Refusal \cup {200, 502, 504}, Answer(r, code)
      PROVE  /\ pc' \in [Request -> Checking \cup {"idle", "forward", "done"}]
             /\ status' \in [Request -> Refusal \cup {0, 200, 502, 504}]
             /\ \A q \in Request : (pc'[q] = "done") <=> (status'[q] # 0)
  BY <1>3, <1>9 DEF Answer, Goto, Refusal
<1>10. CASE Tick
  <2>1. now' \in 0 .. MaxTime /\ UNCHANGED <<pc, start, answerVars, faults>>
    BY <1>1, <1>10 DEF Tick
  <2>2. key' \subseteq Member /\ expiry' \in 0 .. MaxTime + Window /\ (key' = {} => expiry' = 0)
    BY <1>1, <1>2, <1>10 DEF Tick
  <2>3. expired' \subseteq Request
    BY <1>5, <1>7, <1>10 DEF Tick
  <2> QED
    BY <1>3, <1>4, <1>5, <1>6, <2>1, <2>2, <2>3 DEF TypeOK
<1>11. ASSUME NEW r \in Request, RedisFails(r) PROVE TypeOK'
  <2>1. /\ pc' \in [Request -> Checking \cup {"idle", "forward", "done"}]
        /\ status' \in [Request -> Refusal \cup {0, 200, 502, 504}]
        /\ \A q \in Request : (pc'[q] = "done") <=> (status'[q] # 0)
    BY <1>9, <1>11 DEF RedisFails, Refusal
  <2> QED
    BY <1>1, <1>2, <1>4, <1>5, <1>6, <1>11, <2>1 DEF RedisFails, TypeOK
<1>12. ASSUME NEW r \in Request, Arrive(r) PROVE TypeOK'
  <2>1. status[r] = 0
    BY <1>3, <1>12 DEF Arrive
  <2>2. /\ pc' \in [Request -> Checking \cup {"idle", "forward", "done"}]
        /\ status' \in [Request -> Refusal \cup {0, 200, 502, 504}]
        /\ \A q \in Request : (pc'[q] = "done") <=> (status'[q] # 0)
    BY <1>3, <1>8, <1>9, <1>12, <2>1 DEF Arrive, Refusal, Checking
  <2>3. start' \in [Request -> 0 .. MaxTime]
    BY <1>1, <1>4, <1>12 DEF Arrive
  <2> QED
    BY <1>1, <1>2, <1>4, <1>5, <1>6, <1>12, <2>2, <2>3 DEF Arrive, TypeOK
<1>13. ASSUME NEW r \in Request, Check(r) PROVE TypeOK'
  <2>1. pc[r] \in Checking /\ status[r] = 0
    BY <1>3, <1>13 DEF Check, Prune, Add, Count, Expire, Oldest, Checking
  <2>2. /\ pc' \in [Request -> Checking \cup {"idle", "forward", "done"}]
        /\ status' \in [Request -> Refusal \cup {0, 200, 502, 504}]
        /\ \A q \in Request : (pc'[q] = "done") <=> (status'[q] # 0)
    <3>1. CASE Oldest(r)
      BY <1>9, <3>1 DEF Oldest, Refusal
    <3>2. CASE ~Oldest(r)
      BY <1>3, <1>8, <1>13, <2>1, <3>2 DEF Check, Prune, Add, Count, Expire, Checking
    <3> QED
      BY <3>1, <3>2
  <2>3. key' \subseteq Member
    BY <1>2, <1>4, <1>13 DEF Check, Prune, Add, Count, Expire, Oldest, Member
  <2>4. expiry' \in 0 .. MaxTime + Window /\ (key' = {} => expiry' = 0)
    BY <1>1, <1>2, <1>13 DEF Check, Prune, Add, Count, Expire, Oldest
  <2>5. retry' \in [Request -> 0 .. Window + Delay]
    <3>1. CASE Oldest(r)
      <4>1. retry'[r] \in 1 .. Window + Delay
        BY <3>1, RetryRange
      <4>2. retry' = [retry EXCEPT ![r] = retry'[r]]
        BY <1>4, <3>1 DEF Oldest
      <4> QED
        BY <1>1, <1>4, <4>1, <4>2
    <3>2. CASE ~Oldest(r)
      BY <1>4, <1>13, <3>2 DEF Check, Prune, Add, Count, Expire
    <3> QED
      BY <3>1, <3>2
  <2>6. admitted' \subseteq Request /\ UNCHANGED <<now, start, executed, expired, faults>>
    BY <1>5, <1>13 DEF Check, Prune, Add, Count, Expire, Oldest
  <2> QED
    BY <1>1, <1>4, <1>5, <1>6, <2>2, <2>3, <2>4, <2>5, <2>6 DEF TypeOK
<1>14. ASSUME NEW r \in Request, Forward(r) PROVE TypeOK'
  <2>1. /\ pc' \in [Request -> Checking \cup {"idle", "forward", "done"}]
        /\ status' \in [Request -> Refusal \cup {0, 200, 502, 504}]
        /\ \A q \in Request : (pc'[q] = "done") <=> (status'[q] # 0)
    BY <1>9, <1>14 DEF Forward, Refusal
  <2>2. executed[r] = 0
    BY <1>14 DEF IInv, Decided, Forward
  <2>3. executed' \in [Request -> {0, 1}]
    BY <1>6, <1>14, <2>2 DEF Forward
  <2> QED
    BY <1>1, <1>2, <1>4, <1>5, <1>14, <2>1, <2>3 DEF Forward, TypeOK
<1>15. CASE UNCHANGED vars
  BY <1>1, <1>2, <1>3, <1>4, <1>5, <1>6, <1>15 DEF vars, TypeOK
<1> QED
  BY <1>10, <1>11, <1>12, <1>13, <1>14, <1>15 DEF Next

-----------------------------------------------------------------------------
(* The inductive invariant                                                  *)

\* What no step takes back from a request that has arrived.
Kept(r) == /\ pc'[r] # "idle" /\ start'[r] = start[r]
           /\ status[r] # 401 => status'[r] # 401
           /\ Counted(r) => Counted(r)'

LEMMA Arrived ==
  ASSUME IInv, [Next]_vars, NEW r \in Request, pc[r] # "idle"
  PROVE  Kept(r)
<1>1. /\ pc \in [Request -> Checking \cup {"idle", "forward", "done"}]
      /\ status \in [Request -> Refusal \cup {0, 200, 502, 504}]
      /\ start \in [Request -> 0 .. MaxTime]
      /\ \A q \in Request : (pc[q] = "done") <=> (status[q] # 0)
  BY DEF IInv, TypeOK
<1>2. CASE Tick \/ UNCHANGED vars
  BY <1>2 DEF Tick, vars, Counted, Kept
<1>3. ASSUME NEW q \in Request, Arrive(q) PROVE Kept(r)
  <2>1. q # r
    BY <1>3 DEF Arrive
  <2> QED
    BY <1>1, <1>3, <2>1 DEF Arrive, Answer, Goto, Counted, Kept
<1>4. ASSUME NEW q \in Request, Check(q) PROVE Kept(r)
  BY <1>1, <1>4 DEF Check, Prune, Add, Count, Expire, Oldest, Answer, Goto, Counted, Kept
<1>5. ASSUME NEW q \in Request, Forward(q) \/ RedisFails(q) PROVE Kept(r)
  BY <1>1, <1>5 DEF Forward, RedisFails, Answer, Goto, Counted, Kept
<1> QED
  BY <1>2, <1>3, <1>4, <1>5 DEF Next

LEMMA NextTimes == IInv /\ [Next]_vars => Times'
<1> SUFFICES ASSUME IInv, [Next]_vars PROVE Times'
  OBVIOUS
<1>1. /\ now \in 0 .. MaxTime /\ Window \in Nat \ {0} /\ Delay \in Nat
      /\ pc \in [Request -> Checking \cup {"idle", "forward", "done"}]
      /\ status \in [Request -> Refusal \cup {0, 200, 502, 504}]
      /\ start \in [Request -> 0 .. MaxTime]
      /\ \A q \in Request : (pc[q] = "done") <=> (status[q] # 0)
      /\ \A m \in key : m.id \in Request
  BY GatewayAssumption DEF IInv, TypeOK, Member
<1>2. /\ \A m \in key : Counted(m.id) /\ m.score = start[m.id] /\ m.score <= now
      /\ \A r \in Request : start[r] <= now
      /\ \A r \in Request : pc[r] \in Checking => now <= start[r] + Delay
  BY DEF IInv, Times
<1>3. now' \in Nat /\ now <= now' /\ (~Tick => now' = now)
  <2>1. CASE Tick
    BY <1>1, <2>1 DEF Tick
  <2>2. CASE UNCHANGED vars
    BY <1>1, <2>2 DEF vars
  <2>3. CASE \E r \in Request : Arrive(r) \/ Check(r) \/ Forward(r) \/ RedisFails(r)
    BY <1>1, <2>3 DEF Arrive, Check, Prune, Add, Count, Expire, Oldest, Forward, RedisFails
  <2> QED
    BY <2>1, <2>2, <2>3 DEF Next
<1>4. ASSUME NEW m \in key' PROVE Counted(m.id)' /\ m.score = start'[m.id] /\ m.score <= now'
  <2>1. CASE m \in key
    <3>1. m.id \in Request /\ pc[m.id] # "idle" /\ Counted(m.id) /\ m.score = start[m.id]
      BY <1>1, <1>2, <2>1 DEF Counted
    <3>2. Kept(m.id)
      BY <3>1, Arrived
    <3> QED
      BY <1>1, <1>2, <1>3, <2>1, <3>1, <3>2 DEF Kept
  <2>2. CASE m \notin key
    <3>1. PICK r \in Request : Add(r) /\ m = [id |-> r, score |-> start[r]]
      BY <1>4, <2>2 DEF Next, Tick, Arrive, Check, Prune, Add, Count, Expire, Oldest,
                        Forward, RedisFails, vars
    <3>2. pc[r] = "add" /\ status[r] = 0 /\ start[r] <= now
      BY <1>1, <1>2, <3>1 DEF Add
    <3>3. pc'[r] = "count" /\ UNCHANGED <<start, status, now>>
      BY <1>1, <3>1 DEF Add, Goto
    <3> QED
      BY <3>1, <3>2, <3>3 DEF Counted
  <2> QED
    BY <2>1, <2>2
<1>5. ASSUME NEW r \in Request
      PROVE  /\ start'[r] <= now'
             /\ pc'[r] \in Checking => now' <= start'[r] + Delay
  <2>1. CASE Tick \/ UNCHANGED vars
    BY <1>1, <1>2, <2>1 DEF Tick, vars
  <2>2. ASSUME NEW q \in Request, Arrive(q)
        PROVE  /\ start'[r] <= now'
               /\ pc'[r] \in Checking => now' <= start'[r] + Delay
    BY <1>1, <1>2, <2>2 DEF Arrive, Answer, Goto, Checking
  <2>3. ASSUME NEW q \in Request, Check(q) \/ Forward(q) \/ RedisFails(q)
        PROVE  /\ start'[r] <= now'
               /\ pc'[r] \in Checking => now' <= start'[r] + Delay
    <3>1. UNCHANGED <<now, start>>
      BY <2>3 DEF Check, Prune, Add, Count, Expire, Oldest, Forward, RedisFails
    <3>2. pc'[r] \in Checking => pc[r] \in Checking
      BY <1>1, <2>3 DEF Check, Prune, Add, Count, Expire, Oldest, Forward, RedisFails,
                        Answer, Goto, Checking
    <3> QED
      BY <1>2, <3>1, <3>2
  <2> QED
    BY <2>1, <2>2, <2>3 DEF Next
<1> QED
  BY <1>4, <1>5 DEF Times

LEMMA NextDecided == IInv /\ [Next]_vars => Decided'
<1> SUFFICES ASSUME IInv, [Next]_vars PROVE Decided'
  OBVIOUS
<1>1. /\ pc \in [Request -> Checking \cup {"idle", "forward", "done"}]
      /\ executed \in [Request -> {0, 1}] /\ admitted \subseteq Request
  BY DEF IInv, TypeOK
<1>2. /\ \A r \in admitted : pc[r] \in {"expire", "forward", "done"}
      /\ \A r \in Request : pc[r] = "forward" => r \in admitted
      /\ \A r \in Request : pc[r] = "oldest" => r \notin admitted
      /\ \A r \in Request : pc[r] # "done" => executed[r] = 0
  BY DEF IInv, Decided
<1>3. CASE Tick \/ UNCHANGED vars
  BY <1>2, <1>3 DEF Tick, vars, Decided
<1>4. ASSUME NEW q \in Request, Arrive(q) \/ RedisFails(q) PROVE Decided'
  BY <1>1, <1>2, <1>4 DEF Arrive, RedisFails, Answer, Goto, Checking, Decided
<1>5. ASSUME NEW q \in Request, Forward(q) PROVE Decided'
  <2>1. pc' = [pc EXCEPT ![q] = "done"] /\ admitted' = admitted /\ pc[q] = "forward"
    BY <1>5 DEF Forward, Answer, Goto
  <2>2. \A r \in Request \ {q} : executed'[r] = executed[r]
    BY <1>1, <1>5 DEF Forward
  <2> QED
    BY <1>1, <1>2, <2>1, <2>2 DEF Decided
<1>6. ASSUME NEW q \in Request, Prune(q) \/ Add(q) PROVE Decided'
  BY <1>1, <1>2, <1>6 DEF Prune, Add, Goto, Decided
<1>7. ASSUME NEW q \in Request, Count(q) PROVE Decided'
  <2>1. /\ pc' = [pc EXCEPT ![q] = "expire"] /\ executed' = executed
        /\ admitted' = admitted \/ admitted' = admitted \cup {q}
        /\ pc[q] = "count"
    BY <1>7 DEF Count, Goto
  <2>2. /\ \A r \in Request \ {q} : pc'[r] = pc[r] /\ (r \in admitted' <=> r \in admitted)
        /\ pc'[q] = "expire"
    BY <1>1, <2>1
  <2> QED
    BY <1>1, <1>2, <2>1, <2>2 DEF Decided
<1>8. ASSUME NEW q \in Request, Expire(q) PROVE Decided'
  BY <1>1, <1>2, <1>8 DEF Expire, Goto, Decided
<1>9. ASSUME NEW q \in Request, Oldest(q) PROVE Decided'
  BY <1>1, <1>2, <1>9 DEF Oldest, Answer, Goto, Decided
<1> QED
  BY <1>3, <1>4, <1>5, <1>6, <1>7, <1>8, <1>9 DEF Next, Check

\* Only the clock drops a member that is in its window, and it is then recorded.
LEMMA NextKeyHolds == IInv /\ [Next]_vars => KeyHolds'
<1> SUFFICES ASSUME IInv, [Next]_vars PROVE KeyHolds'
  OBVIOUS
<1>1. /\ now \in 0 .. MaxTime /\ Window \in Nat \ {0} /\ Delay \in 0 .. Window - 1
      /\ pc \in [Request -> Checking \cup {"idle", "forward", "done"}]
      /\ start \in [Request -> 0 .. MaxTime] /\ admitted \subseteq Request
  BY GatewayAssumption DEF IInv, TypeOK
<1>2. /\ \A m \in key : m.score <= now
      /\ \A r \in Request : start[r] <= now
      /\ \A r \in admitted : pc[r] \in {"expire", "forward", "done"}
  BY DEF IInv, Times, Decided
<1>3. \A r \in Request :
        (r \in admitted \/ pc[r] \in {"count", "expire", "oldest"})
        /\ start[r] > now - Window /\ r \notin expired => Member_(r) \in key
  BY DEF IInv, KeyHolds
<1>4. CASE Tick
  <2>1. SUFFICES ASSUME NEW r \in Request,
                        r \in admitted \/ pc[r] \in {"count", "expire", "oldest"},
                        start[r] > now + 1 - Window, r \notin expired'
                 PROVE  Member_(r) \in key'
    BY <1>1, <1>4 DEF Tick, KeyHolds, Member_
  <2>2. r \notin expired /\ start[r] > now - Window
    BY <1>1, <1>4, <2>1 DEF Tick
  <2>3. Member_(r) \in key
    BY <1>3, <2>1, <2>2
  <2>4. InWindow(Member_(r), now + 1) /\ Member_(r).id = r
    BY <1>1, <2>1 DEF InWindow, Member_
  <2> QED
    BY <1>4, <2>1, <2>3, <2>4 DEF Tick
<1>5. CASE UNCHANGED vars
  BY <1>3, <1>5 DEF vars, KeyHolds, Member_
<1>6. ASSUME NEW q \in Request, Arrive(q) PROVE KeyHolds'
  <2>1. pc[q] = "idle" /\ q \notin admitted /\ UNCHANGED <<now, key, admitted, expired>>
    BY <1>2, <1>6 DEF Arrive
  <2>2. pc'[q] \in {"prune", "done"} /\ \A r \in Request \ {q} : pc'[r] = pc[r] /\ start'[r] = start[r]
    BY <1>1, <1>6 DEF Arrive, Answer, Goto
  <2> QED
    BY <1>3, <2>1, <2>2 DEF KeyHolds, Member_
<1>7. ASSUME NEW q \in Request, Prune(q) PROVE KeyHolds'
  <2>1. /\ UNCHANGED <<now, start, admitted, expired>> /\ pc' = [pc EXCEPT ![q] = "add"]
        /\ key' = {m \in key : InWindow(m, start[q])}
    BY <1>7 DEF Prune, Goto
  <2>2. ASSUME NEW r \in Request, start[r] > now - Window, Member_(r) \in key
        PROVE  Member_(r) \in key'
    <3>1. Member_(r).score > start[q] - Window
      BY <1>1, <1>2, <2>2 DEF Member_
    <3> QED
      BY <2>1, <2>2, <3>1 DEF InWindow
  <2> QED
    BY <1>1, <1>3, <2>1, <2>2 DEF KeyHolds, Member_
<1>8. ASSUME NEW q \in Request, Add(q) PROVE KeyHolds'
  BY <1>1, <1>3, <1>8 DEF Add, Goto, KeyHolds, Member_
<1>9. ASSUME NEW q \in Request, Count(q) \/ Expire(q) \/ Oldest(q) \/ Forward(q) \/ RedisFails(q)
      PROVE  KeyHolds'
  <2>1. UNCHANGED <<now, key, start, expired>>
    BY <1>9 DEF Count, Expire, Oldest, Forward, RedisFails
  <2>2. \A r \in Request : r \in admitted' \/ pc'[r] \in {"count", "expire", "oldest"}
          => r \in admitted \/ pc[r] \in {"count", "expire", "oldest"}
    BY <1>1, <1>9 DEF Count, Expire, Oldest, Forward, RedisFails, Answer, Goto
  <2> QED
    BY <1>3, <2>1, <2>2 DEF KeyHolds, Member_
<1> QED
  BY <1>4, <1>5, <1>6, <1>7, <1>8, <1>9 DEF Next, Check

LEMMA Invariance == Spec => []IInv
<1>1. IInv /\ [Next]_vars => IInv'
  BY NextTypeOK, NextTimes, NextDecided, NextKeyHolds DEF IInv
<1> QED
  BY <1>1, InitIInv, PTL DEF Spec

\* The variables keep their types, and the set of members is empty when it has no
\* time to live.
THEOREM TypeCorrect == Spec => []TypeOK
BY Invariance, PTL DEF IInv

-----------------------------------------------------------------------------
(* The refusals                                                             *)

\* What a request counts is in its window: it pruned the rest, and what came
\* since is younger than a check can be old.
Pruned ==
    \A r \in Request : pc[r] \in {"add", "count"} =>
        \A m \in key : m.score > start[r] - Window

LEMMA NextPruned == IInv /\ Pruned /\ [Next]_vars => Pruned'
<1> SUFFICES ASSUME IInv, Pruned, [Next]_vars PROVE Pruned'
  OBVIOUS
<1>1. /\ now \in 0 .. MaxTime /\ Window \in Nat \ {0} /\ Delay \in 0 .. Window - 1
      /\ pc \in [Request -> Checking \cup {"idle", "forward", "done"}]
      /\ start \in [Request -> 0 .. MaxTime]
      /\ \A r \in Request : start[r] <= now
      /\ \A r \in Request : pc[r] \in Checking => now <= start[r] + Delay
  BY GatewayAssumption DEF IInv, TypeOK, Times
<1>2. \A r \in Request : pc[r] \in {"add", "count"} => \A m \in key : m.score > start[r] - Window
  BY DEF Pruned
<1>3. CASE Tick \/ UNCHANGED vars
  BY <1>2, <1>3 DEF Tick, vars, Pruned
<1>4. ASSUME NEW q \in Request, Arrive(q) PROVE Pruned'
  BY <1>1, <1>2, <1>4 DEF Arrive, Answer, Goto, Pruned
<1>5. ASSUME NEW q \in Request, Prune(q) PROVE Pruned'
  BY <1>1, <1>2, <1>5 DEF Prune, Goto, InWindow, Pruned
<1>6. ASSUME NEW q \in Request, Add(q) PROVE Pruned'
  <2>1. /\ start[q] \in Int /\ now <= start[q] + Delay
        /\ key' = key \cup {[id |-> q, score |-> start[q]]}
        /\ start' = start /\ pc' = [pc EXCEPT ![q] = "count"] /\ pc[q] = "add"
    BY <1>1, <1>6 DEF Add, Goto, Checking
  <2>2. \A r \in Request : start[q] > start[r] - Window
    BY <1>1, <2>1
  <2> QED
    BY <1>1, <1>2, <2>1, <2>2 DEF Pruned
<1>7. ASSUME NEW q \in Request, Count(q) \/ Expire(q) \/ Oldest(q) \/ Forward(q) \/ RedisFails(q)
      PROVE  Pruned'
  <2>1. UNCHANGED <<key, start>>
    BY <1>7 DEF Count, Expire, Oldest, Forward, RedisFails
  <2>2. \A r \in Request : pc'[r] \in {"add", "count"} => pc[r] \in {"add", "count"}
    BY <1>1, <1>7 DEF Count, Expire, Oldest, Forward, RedisFails, Answer, Goto
  <2> QED
    BY <1>2, <2>1, <2>2 DEF Pruned
<1> QED
  BY <1>3, <1>4, <1>5, <1>6, <1>7 DEF Next, Check

Ids == {m.id : m \in key}

\* A request has one member at most, so that ZCARD counts requests.
LEMMA KeyCount ==
  ASSUME IInv
  PROVE  /\ IsFiniteSet(key) /\ IsFiniteSet(Ids)
         /\ Cardinality(key) = Cardinality(Ids) /\ Cardinality(key) \in Nat
<1>1. \A m \in key : m.id \in Request /\ m = [id |-> m.id, score |-> start[m.id]]
  BY DEF IInv, TypeOK, Times, Member
<1>2. IsFiniteSet(Ids)
  <2>1. Ids \subseteq Request
    BY <1>1 DEF Ids
  <2> QED
    BY <2>1, GatewayAssumption, FS_Subset
<1>3. IsFiniteSet(key)
  <2> DEFINE g == [i \in Ids |-> [id |-> i, score |-> start[i]]]
  <2>1. \A m \in key : m.id \in Ids
    BY DEF Ids
  <2>2. \A i \in Ids : [id |-> i, score |-> start[i]] \in key
    BY <1>1 DEF Ids
  <2>3. g \in [Ids -> key]
    BY <2>2
  <2>4. \A m \in key : \E i \in Ids : g[i] = m
    BY <1>1, <2>1
  <2>5. g \in Surjection(Ids, key)
    BY <2>3, <2>4 DEF Surjection
  <2> HIDE DEF g
  <2> QED
    BY <1>2, <2>5, FS_Surjection
<1>4. Cardinality(key) = Cardinality(Ids)
  <2> DEFINE f == [m \in key |-> m.id]
  <2>1. f \in [key -> Ids] /\ \A i \in Ids : \E m \in key : f[m] = i
    BY DEF Ids
  <2>2. f \in Surjection(key, Ids)
    BY <2>1 DEF Surjection
  <2>3. IsInjective(f)
    BY <1>1 DEF IsInjective
  <2>4. f \in Injection(key, Ids)
    BY <2>1, <2>3 DEF Injection
  <2> HIDE DEF f
  <2> QED
    BY <1>3, <2>2, <2>4, FS_Surjection
<1> QED
  BY <1>2, <1>3, <1>4, FS_CardinalityType

LEMMA OthersFinite == \A r \in Request : IsFiniteSet(Others(r))
<1> TAKE r \in Request
<1>1. Others(r) \subseteq Request
  BY DEF Others
<1> QED
  BY <1>1, GatewayAssumption, FS_Subset

\* A request that finds more members than the limit has as many others before it.
LEMMA CountSeesOthers ==
  ASSUME IInv, Pruned, NEW r \in Request, pc[r] = "count", Cardinality(key) > Limit
  PROVE  Cardinality(Others(r)) >= Limit
<1>1. Ids \ {r} \subseteq Others(r)
  <2>1. SUFFICES ASSUME NEW m \in key, m.id # r PROVE m.id \in Others(r)
    BY DEF Ids
  <2>2. m.id \in Request /\ Counted(m.id) /\ start[m.id] = m.score
    BY DEF IInv, TypeOK, Times, Member
  <2>3. m.score > start[r] - Window
    BY DEF Pruned
  <2> QED
    BY <2>1, <2>2, <2>3 DEF Others, Counted
<1>2. Cardinality(Ids \ {r}) \in Nat /\ Cardinality(Ids \ {r}) >= Cardinality(Ids) - 1
  <2>1. /\ IsFiniteSet(Ids \ {r})
        /\ Cardinality(Ids \ {r}) = IF r \in Ids THEN Cardinality(Ids) - 1 ELSE Cardinality(Ids)
    BY KeyCount, FS_RemoveElement
  <2>2. Cardinality(Ids \ {r}) \in Nat /\ Cardinality(Ids) \in Nat
    BY <2>1, KeyCount, FS_CardinalityType
  <2> QED
    BY <2>1, <2>2
<1>3. Cardinality(Ids \ {r}) <= Cardinality(Others(r)) /\ Cardinality(Others(r)) \in Nat
  BY <1>1, OthersFinite, FS_Subset, FS_CardinalityType
<1> QED
  BY <1>2, <1>3, KeyCount, GatewayAssumption

\* Others are never taken back: they have arrived, and stay what they are.
LEMMA OthersGrow ==
  ASSUME IInv, [Next]_vars, NEW r \in Request, pc[r] # "idle"
  PROVE  Cardinality(Others(r)) <= Cardinality(Others(r)')
<1>1. start'[r] = start[r]
  BY Arrived DEF Kept
<1>2. ASSUME NEW q \in Others(r) PROVE q \in Others(r)'
  <2>1. q \in Request \ {r} /\ pc[q] # "idle" /\ start[q] > start[r] - Window /\ status[q] # 401
    BY DEF Others
  <2>2. pc'[q] # "idle" /\ start'[q] = start[q] /\ status'[q] # 401
    BY <2>1, Arrived DEF Kept
  <2> QED
    BY <1>1, <2>1, <2>2 DEF Others
<1>3. IsFiniteSet(Others(r)')
  <2>1. Others(r)' \subseteq Request
    BY DEF Others
  <2> QED
    BY <2>1, GatewayAssumption, FS_Subset
<1> QED
  BY <1>2, <1>3, FS_Subset

Refusing(r) == status[r] = 429 \/ (pc[r] \in {"expire", "oldest"} /\ r \notin admitted)

LEMMA NextCrowded == IInv /\ Pruned /\ Crowded /\ [Next]_vars => Crowded'
<1> SUFFICES ASSUME IInv, Pruned, Crowded, [Next]_vars, NEW r \in Request, Refusing(r)'
             PROVE  Cardinality(Others(r))' >= Limit
  BY DEF Crowded, Refusing
<1>1. /\ pc \in [Request -> Checking \cup {"idle", "forward", "done"}]
      /\ status \in [Request -> Refusal \cup {0, 200, 502, 504}]
      /\ \A q \in Request : (pc[q] = "done") <=> (status[q] # 0)
      /\ admitted \subseteq Request /\ Limit \in Nat
  BY GatewayAssumption DEF IInv, TypeOK
<1>2. Refusing(r) \/ (Count(r) /\ Cardinality(key) > Limit)
  <2>1. CASE Tick \/ UNCHANGED vars
    BY <2>1 DEF Tick, vars, Refusing
  <2>2. ASSUME NEW q \in Request, Arrive(q) \/ Prune(q) \/ Add(q) \/ Forward(q) \/ RedisFails(q)
        PROVE  Refusing(r)
    BY <1>1, <2>2 DEF Arrive, Prune, Add, Forward, RedisFails, Answer, Goto, Refusing, Checking
  <2>3. ASSUME NEW q \in Request, Expire(q) \/ Oldest(q) PROVE Refusing(r)
    BY <1>1, <2>3 DEF Expire, Oldest, Answer, Goto, Refusing, IInv, Decided
  <2>4. ASSUME NEW q \in Request, Count(q) PROVE Refusing(r) \/ (Count(r) /\ Cardinality(key) > Limit)
    <3>1. /\ pc' = [pc EXCEPT ![q] = "expire"] /\ status' = status /\ pc[q] = "count"
          /\ admitted' = IF Cardinality(key) <= Limit THEN admitted \cup {q} ELSE admitted
      BY <2>4 DEF Count, Goto
    <3>2. CASE q # r
      BY <1>1, <3>1, <3>2 DEF Refusing
    <3>3. CASE q = r /\ Cardinality(key) <= Limit
      BY <1>1, <3>1, <3>3 DEF Refusing
    <3>4. CASE q = r /\ ~(Cardinality(key) <= Limit)
      BY <1>1, <2>4, <3>4, KeyCount
    <3> QED
      BY <3>2, <3>3, <3>4
  <2> QED
    BY <2>1, <2>2, <2>3, <2>4 DEF Next, Check
<1>3. Cardinality(Others(r)) >= Limit /\ pc[r] # "idle"
  <2>1. CASE Refusing(r)
    BY <1>1, <2>1 DEF Refusing, Crowded
  <2>2. CASE Count(r) /\ Cardinality(key) > Limit
    BY <2>2, CountSeesOthers DEF Count
  <2> QED
    BY <1>2, <2>1, <2>2
<1>4. Cardinality(Others(r)) <= Cardinality(Others(r)')
  BY <1>3, OthersGrow
<1>5. Cardinality(Others(r)) \in Nat /\ Cardinality(Others(r)') \in Nat
  <2>1. Others(r)' \subseteq Request
    BY DEF Others
  <2>2. IsFiniteSet(Others(r)')
    BY <2>1, GatewayAssumption, FS_Subset
  <2> QED
    BY <2>2, OthersFinite, FS_CardinalityType
<1> QED
  BY <1>1, <1>3, <1>4, <1>5

LEMMA NextRetry == IInv /\ RetryAfterIsBounded /\ [Next]_vars => RetryAfterIsBounded'
<1> SUFFICES ASSUME IInv, RetryAfterIsBounded, [Next]_vars PROVE RetryAfterIsBounded'
  OBVIOUS
<1>1. /\ status \in [Request -> Refusal \cup {0, 200, 502, 504}]
      /\ retry \in [Request -> 0 .. Window + Delay] /\ Window \in Nat /\ Delay \in Nat
  BY GatewayAssumption DEF IInv, TypeOK
<1>2. \A r \in Request : status[r] = 429 =>
        retry[r] \in 1 .. (IF r \in expired THEN Window + Delay ELSE Window)
  BY DEF RetryAfterIsBounded
<1>3. CASE Tick
  <2>1. UNCHANGED <<status, retry>> /\ expired \subseteq expired'
    BY <1>3 DEF Tick
  <2> QED
    BY <1>1, <1>2, <2>1 DEF RetryAfterIsBounded
<1>4. CASE UNCHANGED vars
  BY <1>2, <1>4 DEF vars, RetryAfterIsBounded
<1>5. ASSUME NEW q \in Request, Oldest(q) PROVE RetryAfterIsBounded'
  <2>1. /\ retry'[q] \in 1 .. Window + Delay
        /\ q \notin expired => retry'[q] \in 1 .. Window
    BY <1>5, RetryRange
  <2>2. /\ expired' = expired
        /\ \A r \in Request \ {q} : status'[r] = status[r] /\ retry'[r] = retry[r]
    BY <1>1, <1>5 DEF Oldest, Answer
  <2> QED
    BY <1>2, <2>1, <2>2 DEF RetryAfterIsBounded
<1>6. ASSUME NEW q \in Request,
             Arrive(q) \/ Prune(q) \/ Add(q) \/ Count(q) \/ Expire(q) \/ Forward(q) \/ RedisFails(q)
      PROVE  RetryAfterIsBounded'
  <2>1. UNCHANGED <<retry, expired>>
    BY <1>6 DEF Arrive, Prune, Add, Count, Expire, Forward, RedisFails
  <2>2. \A r \in Request : status'[r] = 429 => status[r] = 429
    BY <1>1, <1>6 DEF Arrive, Prune, Add, Count, Expire, Forward, RedisFails, Answer
  <2> QED
    BY <1>2, <2>1, <2>2 DEF RetryAfterIsBounded
<1> QED
  BY <1>3, <1>4, <1>5, <1>6 DEF Next, Check

LEMMA NextDidNotRun == IInv /\ RefusedDidNotRun /\ [Next]_vars => RefusedDidNotRun'
<1> SUFFICES ASSUME IInv, RefusedDidNotRun, [Next]_vars PROVE RefusedDidNotRun'
  OBVIOUS
<1>1. /\ pc \in [Request -> Checking \cup {"idle", "forward", "done"}]
      /\ status \in [Request -> Refusal \cup {0, 200, 502, 504}]
      /\ executed \in [Request -> {0, 1}]
      /\ \A r \in Request : pc[r] # "done" => executed[r] = 0
      /\ \A r \in Request : pc[r] = "forward" => r \in admitted
  BY DEF IInv, TypeOK, Decided
<1>2. \A r \in Request : /\ status[r] \in Refusal => executed[r] = 0
                         /\ status[r] = 200 => executed[r] = 1
                         /\ executed[r] = 1 => r \in admitted
  BY DEF RefusedDidNotRun
<1>3. CASE Tick \/ UNCHANGED vars
  BY <1>2, <1>3 DEF Tick, vars, RefusedDidNotRun
<1>4. ASSUME NEW q \in Request, Forward(q) PROVE RefusedDidNotRun'
  <2>1. /\ pc[q] = "forward" /\ executed[q] = 0 /\ q \in admitted /\ admitted' = admitted
        /\ \A r \in Request \ {q} : status'[r] = status[r] /\ executed'[r] = executed[r]
    BY <1>1, <1>4 DEF Forward, Answer
  <2>2. \/ status'[q] = 404 /\ executed'[q] = 0
        \/ status'[q] = 200 /\ executed'[q] = 1
        \/ status'[q] \in {502, 504} /\ executed'[q] \in {0, 1}
    BY <1>1, <1>4, <2>1 DEF Forward, Answer
  <2> QED
    BY <1>2, <2>1, <2>2 DEF RefusedDidNotRun, Refusal
<1>5. ASSUME NEW q \in Request, Arrive(q) \/ Check(q) \/ RedisFails(q) PROVE RefusedDidNotRun'
  <2>1. executed' = executed /\ admitted \subseteq admitted' /\ pc[q] # "done"
    BY <1>5 DEF Arrive, Check, Prune, Add, Count, Expire, Oldest, RedisFails, Checking
  <2>2. /\ \A r \in Request \ {q} : status'[r] = status[r]
        /\ status'[q] = status[q] \/ status'[q] \in Refusal
    BY <1>1, <1>5 DEF Arrive, Check, Prune, Add, Count, Expire, Oldest, RedisFails, Answer, Refusal
  <2> QED
    BY <1>1, <1>2, <2>1, <2>2 DEF RefusedDidNotRun, Refusal
<1> QED
  BY <1>3, <1>4, <1>5 DEF Next

RInv == IInv /\ Pruned /\ Crowded /\ RetryAfterIsBounded /\ RefusedDidNotRun

LEMMA RefusalInvariance == Spec => []RInv
<1>1. Init => RInv
  <2>1. Init => Pruned /\ Crowded /\ RetryAfterIsBounded /\ RefusedDidNotRun
    BY DEF Init, Pruned, Crowded, RetryAfterIsBounded, RefusedDidNotRun, Refusal
  <2> QED
    BY <2>1, InitIInv DEF RInv
<1>2. RInv /\ [Next]_vars => RInv'
  BY NextTypeOK, NextTimes, NextDecided, NextKeyHolds, NextPruned, NextCrowded, NextRetry,
     NextDidNotRun DEF RInv, IInv
<1> QED
  BY <1>1, <1>2, PTL DEF Spec

\* A request answered 429 has seen Limit others of the subject in its window, is
\* told to come back within a window, and none that was refused has run behind
\* the gateway: for any number of concurrent requests, faults and ticks.
THEOREM RefusalsAreDeserved == Spec => []RefusalsHold
<1>1. RInv => RefusalsHold
  <2> SUFFICES ASSUME RInv PROVE RefusedForRecentRequests
    BY DEF RInv, RefusalsHold
  <2> QED
    BY DEF RInv, Crowded, Others, RefusedForRecentRequests
<1> QED
  BY <1>1, RefusalInvariance, PTL

-----------------------------------------------------------------------------
(* The limit                                                                *)

LEMMA BurstFinite ==
  ASSUME IInv, NEW t
  PROVE  IsFiniteSet(Burst(t)) /\ IsFiniteSet(expired)
<1>1. Burst(t) \subseteq Request /\ expired \subseteq Request
  BY DEF Burst, IInv, TypeOK
<1> QED
  BY <1>1, GatewayAssumption, FS_Subset

\* Whoever is let through found the others of its burst in the set, or they are
\* recorded as forgotten.
LEMMA CountBoundsBurst ==
  ASSUME IInv, [Next]_vars, NEW r \in Request, Count(r), Cardinality(key) <= Limit,
         NEW t \in 0 .. MaxTime, start[r] \in t .. t + Window - Delay - 1
  PROVE  Cardinality(Burst(t)') <= Limit + Cardinality(expired')
<1>1. /\ now \in 0 .. MaxTime /\ Window \in Nat \ {0} /\ Delay \in 0 .. Window - 1
      /\ start \in [Request -> 0 .. MaxTime] /\ admitted \subseteq Request
      /\ now <= start[r] + Delay /\ pc[r] = "count" /\ MaxTime \in Nat /\ Limit \in Nat
  BY GatewayAssumption DEF IInv, TypeOK, Times, Count, Checking
<1>2. UNCHANGED <<key, start, expired>> /\ admitted' = admitted \cup {r}
  BY DEF Count
<1>3. Burst(t)' \subseteq Ids \cup expired
  <2>1. SUFFICES ASSUME NEW q \in Burst(t)', q \notin expired PROVE q \in Ids
    OBVIOUS
  <2>2. q \in Request /\ (q \in admitted \/ pc[q] = "count") /\ start[q] >= t
    BY <1>1, <1>2 DEF Burst
  <2>3. start[q] > now - Window
    BY <1>1, <2>2
  <2>4. Member_(q) \in key
    BY <2>1, <2>2, <2>3 DEF IInv, KeyHolds
  <2> QED
    BY <2>4 DEF Ids, Member_
<1>4. /\ IsFiniteSet(Ids) /\ IsFiniteSet(expired) /\ Cardinality(Ids) <= Limit
      /\ Cardinality(Ids) \in Nat /\ Cardinality(expired) \in Nat
  BY KeyCount, BurstFinite, FS_CardinalityType
<1>5. /\ IsFiniteSet(Ids \cup expired)
      /\ Cardinality(Ids \cup expired) =
           Cardinality(Ids) + Cardinality(expired) - Cardinality(Ids \cap expired)
  BY <1>4, FS_Union
<1>6. Cardinality(Ids \cap expired) \in Nat
  <2>1. IsFiniteSet(Ids \cap expired)
    BY <1>4, FS_Subset
  <2> QED
    BY <2>1, FS_CardinalityType
<1>7. Cardinality(Burst(t)') <= Cardinality(Ids \cup expired)
  BY <1>3, <1>5, FS_Subset
<1>8. Cardinality(Burst(t)') \in Nat
  BY <1>3, <1>5, FS_Subset, FS_CardinalityType
<1> QED
  BY <1>1, <1>2, <1>4, <1>5, <1>6, <1>7, <1>8

Bounded == \A t \in 0 .. MaxTime : Cardinality(Burst(t)) <= Limit + Cardinality(expired)

LEMMA NextBounded == IInv /\ IInv' /\ Bounded /\ [Next]_vars => Bounded'
<1> SUFFICES ASSUME IInv, IInv', Bounded, [Next]_vars, NEW t \in 0 .. MaxTime
             PROVE  Cardinality(Burst(t)') <= Limit + Cardinality(expired')
  BY DEF Bounded
<1>1. /\ pc \in [Request -> Checking \cup {"idle", "forward", "done"}]
      /\ start \in [Request -> 0 .. MaxTime] /\ admitted \subseteq Request
      /\ \A r \in admitted : pc[r] \in {"expire", "forward", "done"}
      /\ Limit \in Nat
  BY GatewayAssumption DEF IInv, TypeOK, Decided
<1>2. Cardinality(Burst(t)) <= Limit + Cardinality(expired)
  BY DEF Bounded
<1>3. expired \subseteq expired'
  BY DEF Next, Tick, Arrive, Check, Prune, Add, Count, Expire, Oldest, Forward, RedisFails, vars
<1>4. /\ Cardinality(expired) \in Nat /\ Cardinality(expired') \in Nat
      /\ Cardinality(expired) <= Cardinality(expired')
  <2>1. expired' \subseteq Request
    BY DEF IInv, TypeOK
  <2>2. IsFiniteSet(expired')
    BY <2>1, GatewayAssumption, FS_Subset
  <2> QED
    BY <1>3, <2>2, BurstFinite, FS_Subset, FS_CardinalityType
<1>5. CASE Burst(t)' \subseteq Burst(t)
  <2>1. /\ Cardinality(Burst(t)') <= Cardinality(Burst(t))
        /\ Cardinality(Burst(t)') \in Nat /\ Cardinality(Burst(t)) \in Nat
    BY <1>5, BurstFinite, FS_Subset, FS_CardinalityType
  <2> QED
    BY <1>1, <1>2, <1>4, <2>1
<1>6. CASE ~(Burst(t)' \subseteq Burst(t))
  <2>1. \A q \in admitted : start'[q] = start[q]
    BY <1>1, Arrived DEF Kept
  <2>2. PICK q \in Request : q \in Burst(t)' /\ q \notin admitted
    BY <1>1, <1>6, <2>1 DEF Burst, IInv, TypeOK
  <2>3. Count(q) /\ Cardinality(key) <= Limit
    BY <2>2 DEF Burst, Next, Tick, Arrive, Check, Prune, Add, Count, Expire, Oldest, Forward,
                RedisFails, vars
  <2>4. start[q] \in t .. t + Window - Delay - 1
    BY <2>2, <2>3 DEF Burst, Count
  <2> QED
    BY <2>3, <2>4, CountBoundsBurst
<1> QED
  BY <1>5, <1>6

\* Of the requests that began within a window, less the time a check takes, at
\* most Limit are let through and as many more as Redis forgot when the key ran
\* out under a check: for any number of concurrent requests and any clock.
THEOREM LimitHolds == Spec => []LimitPerWindow
<1>1. Init => Bounded
  <2> SUFFICES ASSUME Init, NEW t \in 0 .. MaxTime
               PROVE  Cardinality(Burst(t)) <= Limit + Cardinality(expired)
    BY DEF Bounded
  <2>1. Burst(t) = {} /\ expired = {}
    BY DEF Burst, Init
  <2> QED
    BY <2>1, FS_EmptySet, GatewayAssumption
<1>2. Bounded => LimitPerWindow
  BY DEF Bounded, Burst, LimitPerWindow
<1> QED
  BY <1>1, <1>2, Invariance, NextBounded, PTL DEF Spec
=============================================================================
