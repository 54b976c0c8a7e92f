---------------------------- MODULE NotifyProofs ----------------------------
(***************************************************************************)
(* Proofs about Notify: for streams of any length and any faults, how often *)
(* the trader is told of an event, and what the audit trail holds.         *)
(***************************************************************************)
EXTENDS Notify, FiniteSetTheorems, SequenceTheorems, TLAPS

\* The order of the streams in an answer of XREADGROUP, and within a stream.
Place(s) == CHOOSE n \in 1 .. 5 : STREAMS[n] = s

Precedes(e, f) ==
    \/ Place(e[1]) < Place(f[1])
    \/ e[1] = f[1] /\ e[2] < f[2]

Ordered(b) == \A i, j \in 1 .. Len(b) : i < j => Precedes(b[i], b[j])

\* Events that may still be told: read and not yet told, or not yet read.
Held(e)   == e \in ToSet(batch) /\ ~(pc = "ack" /\ e = Head(batch))
Unread(e) == e[1] \notin groups \/ cursor[e[1]] < e[2]

Shapes ==
    /\ batch \in Seq(Event) /\ Ordered(batch)
    /\ faults \in Nat /\ rewinds \in Nat
    /\ \A s \in Streams : Len(log[s]) <= Published[s]

\* Every telling uses up a chance, and only a group that is lost gives one.
Chances ==
    \A e \in Event :
        /\ alerts[e] <= 1 + rewinds
        /\ Held(e) \/ Unread(e) => alerts[e] <= rewinds
        /\ Held(e) /\ Unread(e) => alerts[e] < rewinds

Told(e) == e \in acked \/ alerts[e] > 0 \/ (pc \in {"alert", "ack"} /\ e = Head(batch))

\* Whatever the trader was told of was recorded before, and none of it is a signal.
Recorded ==
    /\ \A e \in Event : Told(e) => e \in audited \cup unaudited
    /\ pc \in {"record", "alert", "ack"} => HasSubject(Stream)
    /\ \A e \in Event : e \in acked \cup audited \/ alerts[e] > 0 => HasSubject(e[1])

\* Events the trail has, has tried, or has given up.
Known == audited \cup unaudited \cup dropped

Ended == IF pc = "ended" THEN 1 ELSE 0

\* What was read is known or in hand, and a failure gives up one batch at most.
Kept ==
    /\ Delivered \subseteq Known \cup ToSet(batch)
    /\ \A e \in audited : e[2] <= Len(log[e[1]])
    /\ IsFiniteSet(dropped)
    /\ Cardinality(dropped) <= (faults + Ended) * (Count * Len(STREAMS))

\* A close in hand that its call did not overtake has its fill known already, or
\* with it in the batch.
Closes == DOMAIN log["order.closed"]
Close(i) == <<"order.closed", i>>
Fill(i)  == <<"order.filled", log["order.closed"][i]>>

ClosesOK ==
    \A i \in Closes :
        /\ log["order.closed"][i] \in DOMAIN log["order.filled"]
        /\ Close(i) \in ToSet(batch) \ overtaken => Fill(i) \in Known \cup ToSet(batch)
        /\ Close(i) \in audited \ overtaken => Fill(i) \in Known

IInv == TypeOK /\ Shapes /\ Chances /\ Recorded /\ Kept /\ ClosesOK

-----------------------------------------------------------------------------
(* The streams and the order of a batch                                     *)

LEMMA StreamsAre ==
  /\ Streams = {"signal.generated", "signal.rejected", "order.filled", "order.rejected",
                "order.closed"}
  /\ Len(STREAMS) = 5
  /\ STREAMS[1] = "signal.generated" /\ STREAMS[2] = "signal.rejected"
  /\ STREAMS[3] = "order.filled" /\ STREAMS[4] = "order.rejected" /\ STREAMS[5] = "order.closed"
<1>1. DOMAIN STREAMS = 1 .. 5 /\ Len(STREAMS) = 5
  BY DEF STREAMS
<1>2. /\ STREAMS[1] = "signal.generated" /\ STREAMS[2] = "signal.rejected"
      /\ STREAMS[3] = "order.filled" /\ STREAMS[4] = "order.rejected" /\ STREAMS[5] = "order.closed"
  BY DEF STREAMS
<1>3. Streams = {STREAMS[i] : i \in 1 .. 5}
  BY <1>1 DEF Streams, ToSet
<1>4. 1 .. 5 = {1, 2, 3, 4, 5}
  OBVIOUS
<1> QED
  BY <1>1, <1>2, <1>3, <1>4

LEMMA PlaceIs ==
  /\ \A n \in 1 .. 5 : Place(STREAMS[n]) = n
  /\ \A s \in Streams : Place(s) \in 1 .. 5
  /\ \A s \in Streams : s = "signal.generated" <=> Place(s) = 1
<1>1. \A m, n \in 1 .. 5 : STREAMS[m] = STREAMS[n] => m = n
  BY StreamsAre
<1>2. \A n \in 1 .. 5 : Place(STREAMS[n]) = n
  BY <1>1 DEF Place
<1>3. \A s \in Streams : \E n \in 1 .. 5 : s = STREAMS[n]
  BY StreamsAre
<1> QED
  BY <1>2, <1>3, StreamsAre

LEMMA EventIs ==
  ASSUME NEW e \in Event
  PROVE  /\ e[1] \in Streams /\ e[2] \in Nat /\ e[2] >= 1 /\ e[2] <= Published[e[1]]
         /\ e = <<e[1], e[2]>>
BY NotifyAssumption DEF Event, Streams

LEMMA PrecedesIrreflexive ==
  ASSUME NEW e \in Event
  PROVE  ~Precedes(e, e)
BY EventIs, PlaceIs DEF Precedes

LEMMA ToSetIs ==
  ASSUME NEW b \in Seq(Event)
  PROVE  /\ ToSet(b) = {b[i] : i \in 1 .. Len(b)}
         /\ ToSet(b) \subseteq Event
         /\ b # <<>> => Head(b) = b[1] /\ Head(b) \in ToSet(b) /\ 1 \in 1 .. Len(b)
<1>1. DOMAIN b = 1 .. Len(b) /\ \A i \in 1 .. Len(b) : b[i] \in Event
  BY LenProperties, ElementOfSeq
<1>2. b # <<>> => Len(b) \in Nat \ {0}
  BY EmptySeq
<1> QED
  BY <1>1, <1>2 DEF ToSet

\* An ordered batch holds every event once, and its first precedes the others.
LEMMA OrderedBatch ==
  ASSUME NEW b \in Seq(Event), Ordered(b)
  PROVE  /\ IsInjective(b)
         /\ IsFiniteSet(ToSet(b)) /\ Cardinality(ToSet(b)) <= Len(b)
         /\ b # <<>> => /\ Tail(b) \in Seq(Event) /\ Ordered(Tail(b))
                        /\ Len(Tail(b)) = Len(b) - 1
                        /\ Len(b) = 1 <=> Tail(b) = <<>>
                        /\ ToSet(Tail(b)) = ToSet(b) \ {Head(b)}
                        /\ \A e \in ToSet(b) : e # Head(b) => Precedes(Head(b), e)
<1>0. /\ DOMAIN b = 1 .. Len(b) /\ Len(b) \in Nat /\ \A i \in 1 .. Len(b) : b[i] \in Event
      /\ ToSet(b) = {b[i] : i \in 1 .. Len(b)}
  BY LenProperties, ElementOfSeq, ToSetIs
<1>1. ASSUME NEW i \in 1 .. Len(b), NEW j \in 1 .. Len(b), i < j PROVE b[i] # b[j]
  BY <1>0, <1>1, PrecedesIrreflexive DEF Ordered
<1>2. \A i, j \in 1 .. Len(b) : b[i] = b[j] => i = j
  <2> SUFFICES ASSUME NEW i \in 1 .. Len(b), NEW j \in 1 .. Len(b), b[i] = b[j] PROVE i = j
    OBVIOUS
  <2> QED
    BY <1>0, <1>1
<1>3. IsInjective(b)
  BY <1>0, <1>2 DEF IsInjective
<1>4. IsFiniteSet(ToSet(b)) /\ Cardinality(ToSet(b)) <= Len(b)
  <2>1. b \in Surjection(1 .. Len(b), ToSet(b))
    BY <1>0, LenProperties DEF Surjection
  <2>2. IsFiniteSet(1 .. Len(b)) /\ Cardinality(1 .. Len(b)) = Len(b)
    <3>1. \A n \in Nat : IsFiniteSet(1 .. n) /\ Cardinality(1 .. n) = n
      BY FS_Interval
    <3> QED
      BY <1>0, <3>1
  <2> QED
    BY <2>1, <2>2, FS_Surjection
<1>5. ASSUME b # <<>>
      PROVE  /\ Tail(b) \in Seq(Event) /\ Ordered(Tail(b))
             /\ Len(Tail(b)) = Len(b) - 1
             /\ Len(b) = 1 <=> Tail(b) = <<>>
             /\ ToSet(Tail(b)) = ToSet(b) \ {Head(b)}
             /\ \A e \in ToSet(b) : e # Head(b) => Precedes(Head(b), e)
  <2>1. /\ Tail(b) \in Seq(Event) /\ Len(Tail(b)) = Len(b) - 1
        /\ \A i \in 1 .. Len(Tail(b)) : Tail(b)[i] = b[i + 1]
        /\ Head(b) = b[1] /\ Len(b) >= 1
    BY <1>0, <1>5, HeadTailProperties, ToSetIs
  <2>2. \A i \in 1 .. Len(Tail(b)) : i + 1 \in 1 .. Len(b)
    BY <1>0, <2>1
  <2>3. Ordered(Tail(b))
    <3> SUFFICES ASSUME NEW i \in 1 .. Len(Tail(b)), NEW j \in 1 .. Len(Tail(b)), i < j
                 PROVE  Precedes(Tail(b)[i], Tail(b)[j])
      BY DEF Ordered
    <3>1. i + 1 \in 1 .. Len(b) /\ j + 1 \in 1 .. Len(b) /\ i + 1 < j + 1
      BY <2>2
    <3>2. Precedes(b[i + 1], b[j + 1])
      BY <3>1 DEF Ordered
    <3> QED
      BY <2>1, <3>2
  <2>4. Len(b) = 1 <=> Tail(b) = <<>>
    <3>1. Tail(b) = <<>> <=> Len(Tail(b)) = 0
      BY <2>1, EmptySeq
    <3> QED
      BY <1>0, <2>1, <3>1
  <2>5. ToSet(Tail(b)) = {Tail(b)[i] : i \in 1 .. Len(Tail(b))}
    BY <2>1, ToSetIs
  <2>6. ASSUME NEW e \in ToSet(Tail(b)) PROVE e \in ToSet(b) \ {Head(b)}
    <3>1. PICK i \in 1 .. Len(Tail(b)) : e = Tail(b)[i]
      BY <2>5
    <3>2. i + 1 \in 1 .. Len(b) /\ i + 1 # 1 /\ 1 \in 1 .. Len(b) /\ e = b[i + 1]
      BY <2>1, <2>2, <3>1
    <3> QED
      BY <1>0, <1>2, <2>1, <3>2
  <2>7. ASSUME NEW e \in ToSet(b), e # Head(b)
        PROVE  e \in ToSet(Tail(b)) /\ Precedes(Head(b), e)
    <3>1. PICK i \in 1 .. Len(b) : e = b[i]
      BY <1>0
    <3>2. 1 \in 1 .. Len(b) /\ 1 < i
      BY <1>0, <2>1, <2>7, <3>1
    <3>3. i - 1 \in 1 .. Len(Tail(b)) /\ (i - 1) + 1 = i
      BY <1>0, <2>1, <3>2
    <3>4. Tail(b)[i - 1] = e
      BY <2>1, <3>1, <3>3
    <3> QED
      BY <2>1, <2>5, <3>1, <3>2, <3>3, <3>4 DEF Ordered
  <2> QED
    BY <2>1, <2>3, <2>4, <2>6, <2>7
<1> QED
  BY <1>3, <1>4, <1>5

-----------------------------------------------------------------------------
(* The batch of one call                                                    *)

Upto(b, n) ==
    /\ b \in Seq(Event) /\ Ordered(b)
    /\ \A e \in ToSet(b) : Place(e[1]) <= n

New(s) == {e \in Event : e[1] = s /\ cursor[s] < e[2] /\ e[2] <= ReadTo(s)}

LEMMA ReadToIs ==
  ASSUME TypeOK, NEW s \in Streams
  PROVE  /\ cursor[s] \in Nat /\ ReadTo(s) \in Nat /\ Len(log[s]) \in Nat
         /\ cursor[s] <= ReadTo(s) /\ ReadTo(s) <= Len(log[s])
         /\ ReadTo(s) - cursor[s] <= Count /\ Count \in Nat \ {0}
         /\ \A k \in Nat : k <= Count /\ k <= Len(log[s]) => k <= ReadTo(s)
<1>1. Len(log[s]) \in Nat /\ cursor[s] \in 0 .. Len(log[s]) /\ Count \in Nat \ {0}
  BY NotifyAssumption, LenProperties DEF TypeOK
<1> QED
  BY <1>1 DEF ReadTo

LEMMA NewOfIs ==
  ASSUME TypeOK, Shapes, NEW s \in Streams
  PROVE  /\ NewOf(s) \in Seq(Event) /\ Ordered(NewOf(s))
         /\ ToSet(NewOf(s)) = New(s)
         /\ Len(NewOf(s)) \in Nat /\ Len(NewOf(s)) <= Count
<1>1. /\ cursor[s] \in Nat /\ ReadTo(s) \in Nat
      /\ cursor[s] <= ReadTo(s) /\ ReadTo(s) <= Len(log[s]) /\ Len(log[s]) \in Nat
      /\ ReadTo(s) - cursor[s] <= Count /\ Len(log[s]) <= Published[s] /\ Published[s] \in Nat
  BY ReadToIs, NotifyAssumption DEF Shapes, Streams
<1> DEFINE n == ReadTo(s) - cursor[s]
<1>2. n \in Nat
  BY <1>1
<1>3. \A k \in 1 .. n : <<s, cursor[s] + k>> \in Event
  <2>1. \A k \in 1 .. n : cursor[s] + k \in 1 .. Published[s]
    BY <1>1
  <2>2. \A k \in 1 .. Published[s] : <<s, k>> \in Event
    BY DEF Event
  <2> QED
    BY <2>1, <2>2
<1>4. NewOf(s) \in Seq(Event) /\ Len(NewOf(s)) = n
      /\ \A k \in 1 .. n : NewOf(s)[k] = <<s, cursor[s] + k>>
  BY <1>2, <1>3, SeqDef DEF NewOf
<1>5. Ordered(NewOf(s))
  <2> SUFFICES ASSUME NEW i \in 1 .. n, NEW j \in 1 .. n, i < j
               PROVE  Precedes(NewOf(s)[i], NewOf(s)[j])
    BY <1>4 DEF Ordered
  <2>1. PICK c \in Nat : cursor[s] = c
    BY <1>1
  <2>2. NewOf(s)[i] = <<s, c + i>> /\ NewOf(s)[j] = <<s, c + j>>
    BY <1>4, <2>1
  <2>3. c + i < c + j
    BY <1>2
  <2> HIDE DEF n
  <2> QED
    BY <2>2, <2>3 DEF Precedes
<1>6. ToSet(NewOf(s)) = {<<s, cursor[s] + k>> : k \in 1 .. n}
  <2>1. ToSet(NewOf(s)) = {NewOf(s)[k] : k \in 1 .. n}
    BY <1>4, ToSetIs
  <2> HIDE DEF n
  <2> QED
    BY <1>4, <2>1
<1>7. ASSUME NEW e \in New(s) PROVE e \in ToSet(NewOf(s))
  <2>1. e \in Event /\ e[1] = s /\ cursor[s] < e[2] /\ e[2] <= ReadTo(s)
    BY <1>7 DEF New
  <2>2. e = <<s, e[2]>> /\ e[2] \in Nat
    BY <2>1, EventIs
  <2>3. e[2] - cursor[s] \in 1 .. n /\ cursor[s] + (e[2] - cursor[s]) = e[2]
    BY <1>1, <2>1, <2>2
  <2> QED
    BY <1>6, <2>2, <2>3
<1>8. ASSUME NEW k \in 1 .. n PROVE <<s, cursor[s] + k>> \in New(s)
  BY <1>1, <1>3 DEF New
<1> QED
  BY <1>1, <1>2, <1>4, <1>5, <1>6, <1>7, <1>8

LEMMA Join ==
  ASSUME NEW a, NEW m \in 1 .. 5, Upto(a, m),
         NEW b \in Seq(Event), Ordered(b), NEW n \in 1 .. 5, m < n,
         \A e \in ToSet(b) : Place(e[1]) = n
  PROVE  /\ Upto(a \o b, n)
         /\ ToSet(a \o b) = ToSet(a) \cup ToSet(b)
         /\ Len(a \o b) = Len(a) + Len(b) /\ Len(a) \in Nat
<1>1. a \in Seq(Event) /\ Ordered(a) /\ \A e \in ToSet(a) : Place(e[1]) <= m
  BY DEF Upto
<1>2. Len(a) \in Nat /\ Len(b) \in Nat
  BY <1>1, LenProperties
<1>3. /\ a \o b \in Seq(Event) /\ Len(a \o b) = Len(a) + Len(b)
      /\ \A i \in 1 .. Len(a) + Len(b) :
           (a \o b)[i] = IF i <= Len(a) THEN a[i] ELSE b[i - Len(a)]
  BY <1>1, ConcatProperties
<1>4. /\ ToSet(a) = {a[i] : i \in 1 .. Len(a)} /\ ToSet(b) = {b[i] : i \in 1 .. Len(b)}
      /\ ToSet(a \o b) = {(a \o b)[i] : i \in 1 .. Len(a \o b)}
      /\ ToSet(a) \subseteq Event /\ ToSet(b) \subseteq Event
  BY <1>1, <1>3, ToSetIs
<1>5. \A i \in 1 .. Len(a) : i \in 1 .. Len(a) + Len(b) /\ (a \o b)[i] = a[i]
  BY <1>2, <1>3
<1>6. \A i \in 1 .. Len(b) : Len(a) + i \in 1 .. Len(a) + Len(b) /\ (a \o b)[Len(a) + i] = b[i]
  <2>1. \A i \in 1 .. Len(b) : Len(a) + i \in 1 .. Len(a) + Len(b)
          /\ ~(Len(a) + i <= Len(a)) /\ Len(a) + i - Len(a) = i
    BY <1>2
  <2> QED
    BY <1>3, <2>1
<1>7. \A i \in 1 .. Len(a) + Len(b) : i \in 1 .. Len(a) \/ i - Len(a) \in 1 .. Len(b)
  BY <1>2
<1>8. ToSet(a \o b) = ToSet(a) \cup ToSet(b)
  <2>1. ASSUME NEW e \in ToSet(a \o b) PROVE e \in ToSet(a) \cup ToSet(b)
    <3>1. PICK i \in 1 .. Len(a) + Len(b) : e = (a \o b)[i]
      BY <1>3, <1>4
    <3>2. CASE i \in 1 .. Len(a)
      BY <1>4, <1>5, <3>1, <3>2
    <3>3. CASE i - Len(a) \in 1 .. Len(b)
      <4>1. ~(i <= Len(a))
        BY <1>2, <3>3
      <4> QED
        BY <1>3, <1>4, <3>1, <3>3, <4>1
    <3> QED
      BY <1>7, <3>2, <3>3
  <2>2. ASSUME NEW e \in ToSet(a) PROVE e \in ToSet(a \o b)
    BY <1>3, <1>4, <1>5, <2>2
  <2>3. ASSUME NEW e \in ToSet(b) PROVE e \in ToSet(a \o b)
    BY <1>3, <1>4, <1>6, <2>3
  <2> QED
    BY <2>1, <2>2, <2>3
<1>9. \A e \in ToSet(a \o b) : Place(e[1]) <= n
  <2>1. ASSUME NEW e \in ToSet(a) PROVE Place(e[1]) <= n
    <3>1. e \in Event /\ e[1] \in Streams
      BY <1>4, EventIs
    <3>2. Place(e[1]) \in Int
      BY <3>1, PlaceIs
    <3>3. Place(e[1]) <= m
      BY <1>1
    <3> QED
      BY <3>2, <3>3
  <2>2. ASSUME NEW e \in ToSet(b) PROVE Place(e[1]) <= n
    BY <2>2
  <2> QED
    BY <1>8, <2>1, <2>2
<1>10. ASSUME NEW e \in ToSet(a), NEW f \in ToSet(b) PROVE Precedes(e, f)
  <2>1. e \in Event /\ e[1] \in Streams
    BY <1>4, EventIs
  <2>2. Place(e[1]) \in Int
    BY <2>1, PlaceIs
  <2>3. Place(e[1]) <= m
    BY <1>1
  <2>4. Place(f[1]) = n
    BY <1>1
  <2> QED
    BY <2>2, <2>3, <2>4 DEF Precedes
<1>11. Ordered(a \o b)
  <2> SUFFICES ASSUME NEW i \in 1 .. Len(a) + Len(b), NEW j \in 1 .. Len(a) + Len(b), i < j
               PROVE  Precedes((a \o b)[i], (a \o b)[j])
    BY <1>3 DEF Ordered
  <2>1. CASE j \in 1 .. Len(a)
    <3>1. i \in 1 .. Len(a)
      BY <1>2, <2>1
    <3> QED
      BY <1>1, <1>5, <2>1, <3>1 DEF Ordered
  <2>2. CASE i \in 1 .. Len(a) /\ j \notin 1 .. Len(a)
    <3>1. j - Len(a) \in 1 .. Len(b) /\ ~(j <= Len(a))
      BY <1>2, <2>2
    <3>2. (a \o b)[i] \in ToSet(a) /\ (a \o b)[j] \in ToSet(b)
      BY <1>3, <1>4, <1>5, <2>2, <3>1
    <3> QED
      BY <1>10, <3>2
  <2>3. CASE i \notin 1 .. Len(a)
    <3>1. /\ i - Len(a) \in 1 .. Len(b) /\ ~(i <= Len(a))
          /\ j - Len(a) \in 1 .. Len(b) /\ ~(j <= Len(a)) /\ i - Len(a) < j - Len(a)
      BY <1>2, <2>3
    <3>2. Precedes(b[i - Len(a)], b[j - Len(a)])
      BY <3>1 DEF Ordered
    <3> QED
      BY <1>3, <3>1, <3>2
  <2> QED
    BY <2>1, <2>2, <2>3
<1> QED
  BY <1>2, <1>3, <1>8, <1>9, <1>11 DEF Upto

\* A call reads, in the order of the streams, what they hold beyond their
\* cursors, and no more than Count of each.
LEMMA BatchIs ==
  ASSUME TypeOK, Shapes
  PROVE  /\ Batch \in Seq(Event) /\ Ordered(Batch)
         /\ ToSet(Batch) = {e \in Event : cursor[e[1]] < e[2] /\ e[2] <= ReadTo(e[1])}
         /\ Len(Batch) <= Count * Len(STREAMS)
<1> DEFINE S1 == NewOf(STREAMS[1])
           S2 == NewOf(STREAMS[2])
           S3 == NewOf(STREAMS[3])
           S4 == NewOf(STREAMS[4])
           S5 == NewOf(STREAMS[5])
<1>1. ASSUME NEW n \in 1 .. 5
      PROVE  /\ NewOf(STREAMS[n]) \in Seq(Event) /\ Ordered(NewOf(STREAMS[n]))
             /\ ToSet(NewOf(STREAMS[n])) = New(STREAMS[n])
             /\ \A e \in ToSet(NewOf(STREAMS[n])) : Place(e[1]) = n
             /\ Len(NewOf(STREAMS[n])) \in Nat /\ Len(NewOf(STREAMS[n])) <= Count
  <2>1. STREAMS[n] \in Streams
    BY StreamsAre
  <2>2. \A e \in New(STREAMS[n]) : Place(e[1]) = n
    BY PlaceIs DEF New
  <2> QED
    BY <2>1, <2>2, NewOfIs
<1>2. /\ S1 \in Seq(Event) /\ Ordered(S1) /\ \A e \in ToSet(S1) : Place(e[1]) = 1
      /\ S2 \in Seq(Event) /\ Ordered(S2) /\ \A e \in ToSet(S2) : Place(e[1]) = 2
      /\ S3 \in Seq(Event) /\ Ordered(S3) /\ \A e \in ToSet(S3) : Place(e[1]) = 3
      /\ S4 \in Seq(Event) /\ Ordered(S4) /\ \A e \in ToSet(S4) : Place(e[1]) = 4
      /\ S5 \in Seq(Event) /\ Ordered(S5) /\ \A e \in ToSet(S5) : Place(e[1]) = 5
  BY <1>1
<1>3. /\ Len(S1) \in Nat /\ Len(S1) <= Count /\ Len(S2) \in Nat /\ Len(S2) <= Count
      /\ Len(S3) \in Nat /\ Len(S3) <= Count /\ Len(S4) \in Nat /\ Len(S4) <= Count
      /\ Len(S5) \in Nat /\ Len(S5) <= Count
  BY <1>1
<1>4. ToSet(S1) \cup ToSet(S2) \cup ToSet(S3) \cup ToSet(S4) \cup ToSet(S5)
        = New(STREAMS[1]) \cup New(STREAMS[2]) \cup New(STREAMS[3]) \cup New(STREAMS[4])
            \cup New(STREAMS[5])
  BY <1>1
<1>5. Batch = S1 \o S2 \o S3 \o S4 \o S5
  BY DEF Batch
<1>6. ToSet(S1) \cup ToSet(S2) \cup ToSet(S3) \cup ToSet(S4) \cup ToSet(S5)
        = {e \in Event : cursor[e[1]] < e[2] /\ e[2] <= ReadTo(e[1])}
  <2>1. ASSUME NEW e \in Event
        PROVE  \E n \in 1 .. 5 : e[1] = STREAMS[n]
    BY EventIs, StreamsAre
  <2>2. 1 .. 5 = {1, 2, 3, 4, 5}
    OBVIOUS
  <2> HIDE DEF S1, S2, S3, S4, S5
  <2> QED
    BY <1>4, <2>1, <2>2 DEF New
<1> HIDE DEF S1, S2, S3, S4, S5
<1>7. Upto(S1, 1)
  <2>1. \A e \in ToSet(S1) : Place(e[1]) <= 1
    BY <1>2
  <2> QED
    BY <1>2, <2>1 DEF Upto
<1>8. /\ Upto(S1 \o S2, 2) /\ ToSet(S1 \o S2) = ToSet(S1) \cup ToSet(S2)
      /\ Len(S1 \o S2) = Len(S1) + Len(S2)
  BY <1>2, <1>7, Join
<1>9. /\ Upto(S1 \o S2 \o S3, 3)
      /\ ToSet(S1 \o S2 \o S3) = ToSet(S1) \cup ToSet(S2) \cup ToSet(S3)
      /\ Len(S1 \o S2 \o S3) = Len(S1 \o S2) + Len(S3)
  BY <1>2, <1>8, Join
<1>10. /\ Upto(S1 \o S2 \o S3 \o S4, 4)
       /\ ToSet(S1 \o S2 \o S3 \o S4) = ToSet(S1) \cup ToSet(S2) \cup ToSet(S3) \cup ToSet(S4)
       /\ Len(S1 \o S2 \o S3 \o S4) = Len(S1 \o S2 \o S3) + Len(S4)
  BY <1>2, <1>9, Join
<1>11. /\ Upto(Batch, 5)
       /\ ToSet(Batch) = ToSet(S1) \cup ToSet(S2) \cup ToSet(S3) \cup ToSet(S4) \cup ToSet(S5)
       /\ Len(Batch) = Len(S1 \o S2 \o S3 \o S4) + Len(S5)
  BY <1>2, <1>5, <1>10, Join
<1>12. Len(Batch) <= Count * Len(STREAMS)
  <2>1. Len(Batch) = Len(S1) + Len(S2) + Len(S3) + Len(S4) + Len(S5)
    BY <1>3, <1>8, <1>9, <1>10, <1>11
  <2>2. Len(STREAMS) = 5 /\ Count \in Nat
    BY StreamsAre, NotifyAssumption
  <2> QED
    BY <1>3, <2>1, <2>2
<1> QED
  BY <1>6, <1>11, <1>12 DEF Upto

-----------------------------------------------------------------------------
(* Type correctness                                                         *)

LEMMA EmptyBatch ==
  <<>> \in Seq(Event) /\ Len(<<>>) = 0 /\ ToSet(<<>>) = {}
<1>1. <<>> \in Seq(Event) /\ Len(<<>>) = 0
  BY EmptySeq
<1>2. DOMAIN <<>> = {}
  OBVIOUS
<1> QED
  BY <1>1, <1>2 DEF ToSet

LEMMA InitIInv == Init => IInv
<1> SUFFICES ASSUME Init PROVE IInv
  OBVIOUS
<1> USE DEF Init
<1>1. <<>> \in Seq(Event) /\ Len(<<>>) = 0 /\ ToSet(<<>>) = {}
  BY EmptyBatch
<1>2. \A s \in Streams : log[s] = <<>> /\ cursor[s] = 0
  OBVIOUS
<1>3. Delivered = {}
  BY <1>2, EventIs DEF Delivered
<1>4. IsInjective(batch) /\ Ordered(batch)
  BY <1>1 DEF IsInjective, Ordered
<1>5. Count * Len(STREAMS) >= 0 /\ MaxFaults \in Nat
  BY StreamsAre, NotifyAssumption
<1>6. TypeOK
  BY <1>1, <1>2, <1>3, <1>4, <1>5 DEF TypeOK
<1>7. Shapes
  BY <1>1, <1>2, <1>4, NotifyAssumption DEF Shapes, Streams
<1>8. Chances
  BY <1>1 DEF Chances, Held
<1>9. Recorded
  BY DEF Recorded, Told
<1>10. Closes = {}
  BY <1>2, StreamsAre DEF Closes
<1>11. Kept
  <2>1. IsFiniteSet(dropped) /\ Cardinality(dropped) = 0
    BY FS_EmptySet
  <2>2. (faults + Ended) * (Count * Len(STREAMS)) = 0
    <3>1. faults + Ended = 0 /\ Count * Len(STREAMS) \in Nat
      BY StreamsAre, NotifyAssumption DEF Ended
    <3> QED
      BY <3>1
  <2> QED
    BY <1>3, <2>1, <2>2 DEF Kept
<1>12. ClosesOK
  BY <1>10 DEF ClosesOK
<1> QED
  BY <1>6, <1>7, <1>8, <1>9, <1>11, <1>12 DEF IInv

\* The groups that are made anew begin before the first entry.
Regroup ==
    /\ batch = <<>> /\ pc \in {"drain", "dead"} /\ pc' = "drain"
    /\ groups' = Streams
    /\ cursor' = [s \in Streams |-> IF s \in groups THEN cursor[s] ELSE 0]
    /\ acked' = {e \in acked : e[1] \in groups}
    /\ UNCHANGED <<log, batch, audited, unaudited, alerts, history, faults, rewinds>>

\* The task ends, and forgets its batch.
Ends ==
    /\ GiveUp /\ pc' \in {"ended", "dead"}
    /\ \/ pc = "handle" /\ ~HasSubject(Stream) /\ pc' = "ended" /\ UNCHANGED <<faults, rewinds>>
       \/ Fault /\ (pc' = "ended" => pc # "ended")
    /\ UNCHANGED <<log, groups, cursor, acked, audited, unaudited, alerts, overtaken>>

\* The task goes on with the entry in hand.
GoesOn ==
    /\ batch # <<>>
    /\ \/ pc = "handle" /\ HasSubject(Stream) /\ pc' = "record"
          /\ UNCHANGED <<audited, unaudited, alerts, faults>>
       \/ /\ pc = "record" /\ pc' \in {"alert", "ack"}
          /\ \/ audited' = audited \cup {Head(batch)} /\ UNCHANGED <<unaudited, faults>>
             \/ unaudited' = unaudited \cup {Head(batch)} /\ Fault /\ UNCHANGED audited
          /\ UNCHANGED alerts
       \/ /\ pc = "alert" /\ pc' = "ack"
          /\ \/ UNCHANGED alerts
             \/ alerts' = [alerts EXCEPT ![Head(batch)] = @ + 1]
          /\ UNCHANGED <<audited, unaudited, faults>>
    /\ UNCHANGED <<log, groups, cursor, acked, batch, history, rewinds>>

LEMMA Steps ==
  ASSUME TypeOK, Next
  PROVE  \/ \E s \in Streams : Publish(s) \/ LoseGroup(s)
         \/ Drain \/ DeliveryLost \/ Ack \/ Regroup \/ Ends \/ GoesOn
<1>1. (batch = <<>>) <=> (pc \in {"drain", "ended", "dead"})
  BY DEF TypeOK
<1>2. ASSUME EnsureGroups \/ Restart PROVE Regroup
  BY <1>1, <1>2 DEF EnsureGroups, Restart, Regroup, NoFault
<1>3. ASSUME AckFails \/ Die PROVE Ends
  BY <1>3 DEF AckFails, Die, Ends, GiveUp
<1>4. ASSUME Handle PROVE Ends \/ GoesOn
  BY <1>1, <1>4 DEF Handle, Ends, GoesOn, NoFault, GiveUp, history
<1>5. ASSUME Record \/ Alert PROVE GoesOn
  BY <1>1, <1>5 DEF Record, Alert, GoesOn, NoFault, Fault
<1> QED
  BY <1>2, <1>3, <1>4, <1>5 DEF Next, Task

LEMMA FaultsStep ==
  ASSUME TypeOK, Shapes, Next
  PROVE  /\ faults' \in Nat /\ rewinds' \in Nat /\ faults' + rewinds' \in 0 .. MaxFaults
<1>1. faults \in Nat /\ rewinds \in Nat /\ faults + rewinds \in 0 .. MaxFaults /\ MaxFaults \in Nat
  BY NotifyAssumption DEF TypeOK, Shapes
<1>2. \/ faults' = faults /\ rewinds' = rewinds
      \/ faults' = faults + 1 /\ rewinds' = rewinds /\ faults + rewinds < MaxFaults
      \/ faults' = faults /\ rewinds' = rewinds + 1 /\ faults + rewinds < MaxFaults
  BY DEF Next, Task, Publish, LoseGroup, Drain, DeliveryLost, EnsureGroups, Handle, Record,
         Alert, Ack, AckFails, Die, Restart, Fault, NoFault
<1>3. CASE faults' = faults /\ rewinds' = rewinds
  BY <1>1, <1>3
<1>4. CASE faults' = faults + 1 /\ rewinds' = rewinds /\ faults + rewinds < MaxFaults
  BY <1>1, <1>4
<1>5. CASE faults' = faults /\ rewinds' = rewinds + 1 /\ faults + rewinds < MaxFaults
  BY <1>1, <1>5
<1> QED
  BY <1>2, <1>3, <1>4, <1>5

LEMMA LogStep ==
  ASSUME TypeOK, Shapes, Next
  PROVE  /\ log' \in [Streams -> Seq(Nat)]
         /\ \A s \in Streams : /\ Len(log'[s]) <= Published[s]
                               /\ Len(log[s]) \in Nat /\ Len(log'[s]) \in Nat
                               /\ Len(log[s]) <= Len(log'[s])
                               /\ \A i \in 1 .. Len(log[s]) : log'[s][i] = log[s][i]
<1>0. /\ log \in [Streams -> Seq(Nat)]
      /\ \A s \in Streams : Len(log[s]) <= Published[s] /\ Len(log[s]) \in Nat
      /\ \A s \in Streams : Published[s] \in Nat
  BY NotifyAssumption, LenProperties DEF TypeOK, Shapes, Streams
<1>1. CASE log' = log
  BY <1>0, <1>1
<1>2. ASSUME NEW r \in Streams, Publish(r)
      PROVE  /\ log' \in [Streams -> Seq(Nat)]
             /\ \A s \in Streams : /\ Len(log'[s]) <= Published[s]
                                   /\ Len(log[s]) \in Nat /\ Len(log'[s]) \in Nat
                                   /\ Len(log[s]) <= Len(log'[s])
                                   /\ \A i \in 1 .. Len(log[s]) : log'[s][i] = log[s][i]
  <2>1. DOMAIN log["order.filled"] \subseteq Nat
    BY <1>0, StreamsAre, LenProperties
  <2>2. PICK k \in Nat : log' = [log EXCEPT ![r] = Append(@, k)]
    BY <1>2, <2>1 DEF Publish, Closable
  <2>3. Len(log[r]) < Published[r]
    BY <1>2 DEF Publish
  <2>4. /\ log'[r] = Append(log[r], k) /\ log[r] \in Seq(Nat)
        /\ \A s \in Streams : s # r => log'[s] = log[s]
        /\ log' \in [Streams -> Seq(Nat)]
    BY <1>0, <2>2
  <2>5. /\ Len(log'[r]) = Len(log[r]) + 1
        /\ \A i \in 1 .. Len(log[r]) : log'[r][i] = log[r][i]
    BY <2>4
  <2>6. Len(log'[r]) <= Published[r] /\ Len(log[r]) <= Len(log'[r]) /\ Len(log'[r]) \in Nat
    BY <1>0, <2>3, <2>5
  <2>7. ASSUME NEW s \in Streams
        PROVE  /\ Len(log'[s]) <= Published[s]
               /\ Len(log[s]) \in Nat /\ Len(log'[s]) \in Nat
               /\ Len(log[s]) <= Len(log'[s])
               /\ \A i \in 1 .. Len(log[s]) : log'[s][i] = log[s][i]
    <3>1. CASE s = r
      BY <1>0, <2>5, <2>6, <3>1
    <3>2. CASE s # r
      BY <1>0, <2>4, <3>2
    <3> QED
      BY <3>1, <3>2
  <2> QED
    BY <2>4, <2>7
<1>3. log' = log \/ \E r \in Streams : Publish(r)
  BY DEF Next, Task, LoseGroup, Drain, DeliveryLost, EnsureGroups, Handle, Record, Alert,
         Ack, AckFails, Die, Restart
<1> QED
  BY <1>1, <1>2, <1>3

LEMMA DeliveredAre ==
  ASSUME NEW e
  PROVE  e \in Delivered <=> e \in Event /\ e[2] <= cursor[e[1]]
BY DEF Delivered

LEMMA DeliveredKept ==
  ASSUME \A s \in Streams : cursor'[s] = cursor[s]
  PROVE  Delivered' = Delivered
BY EventIs DEF Delivered

LEMMA HeadIs ==
  ASSUME TypeOK, Shapes, batch # <<>>
  PROVE  /\ Head(batch) \in ToSet(batch) /\ Head(batch) \in Event
         /\ Head(batch) \in Delivered /\ Head(batch) \notin acked
         /\ ToSet(batch) \subseteq Event
         /\ Stream \in Streams /\ Stream = Head(batch)[1]
<1>1. Head(batch) \in ToSet(batch) /\ ToSet(batch) \subseteq Event
  BY ToSetIs DEF Shapes
<1> QED
  BY <1>1, EventIs DEF TypeOK, Stream

LEMMA Delivers ==
  ASSUME TypeOK, Shapes, Deliver
  PROVE  /\ \A s \in Streams : cursor'[s] = ReadTo(s) /\ cursor[s] <= cursor'[s]
         /\ \A e \in Event : e \in Delivered' <=> e \in Delivered \/ e \in ToSet(Batch)
         /\ Delivered' = Delivered \cup ToSet(Batch)
         /\ ToSet(Batch) \cap Delivered = {}
         /\ Batch \in Seq(Event) /\ Ordered(Batch) /\ Batch # <<>>
         /\ Len(Batch) <= Count * Len(STREAMS)
         /\ ToSet(Batch) = {e \in Event : cursor[e[1]] < e[2] /\ e[2] <= ReadTo(e[1])}
<1>1. \A s \in Streams : /\ cursor'[s] = ReadTo(s) /\ cursor[s] <= cursor'[s]
                         /\ cursor[s] \in Nat /\ ReadTo(s) \in Nat
  BY ReadToIs DEF Deliver
<1>2. /\ Batch \in Seq(Event) /\ Ordered(Batch) /\ Batch # <<>>
      /\ Len(Batch) <= Count * Len(STREAMS)
      /\ ToSet(Batch) = {e \in Event : cursor[e[1]] < e[2] /\ e[2] <= ReadTo(e[1])}
  BY BatchIs DEF Deliver
<1>3. ASSUME NEW e \in Event
      PROVE  /\ e \in Delivered' <=> e \in Delivered \/ e \in ToSet(Batch)
             /\ ~(e \in Delivered /\ e \in ToSet(Batch))
  <2>1. e[1] \in Streams /\ e[2] \in Nat
    BY EventIs
  <2>2. PICK c, r \in Nat : cursor[e[1]] = c /\ ReadTo(e[1]) = r /\ cursor'[e[1]] = r /\ c <= r
    BY <1>1, <2>1
  <2>3. /\ e \in Delivered <=> e[2] <= c
        /\ e \in Delivered' <=> e[2] <= r
        /\ e \in ToSet(Batch) <=> c < e[2] /\ e[2] <= r
    BY <1>2, <2>2 DEF Delivered
  <2> QED
    BY <2>1, <2>2, <2>3
<1>4. Delivered' \subseteq Event /\ ToSet(Batch) \subseteq Event /\ Delivered \subseteq Event
  BY <1>2 DEF Delivered
<1> QED
  BY <1>1, <1>2, <1>3, <1>4

LEMMA RegroupDelivers ==
  ASSUME TypeOK, Shapes, Regroup
  PROVE  /\ \A s \in Streams : cursor'[s] \in 0 .. Len(log[s])
         /\ acked' \subseteq Delivered' /\ acked' \subseteq acked
         /\ groups = Streams => Delivered' = Delivered /\ acked' = acked
<1>1. \A s \in Streams : /\ cursor'[s] = (IF s \in groups THEN cursor[s] ELSE 0)
                         /\ cursor[s] \in 0 .. Len(log[s]) /\ Len(log[s]) \in Nat
  BY LenProperties DEF TypeOK, Regroup
<1>2. acked' \subseteq Delivered'
  BY <1>1, EventIs DEF TypeOK, Regroup, Delivered
<1>3. groups = Streams => Delivered' = Delivered
  BY <1>1, DeliveredKept
<1>4. groups = Streams => acked' = acked
  BY EventIs DEF Regroup, TypeOK, Delivered
<1> QED
  BY <1>1, <1>2, <1>3, <1>4 DEF Regroup

LEMMA TypesStep ==
  ASSUME TypeOK, Shapes, Next
  PROVE  TypeOK' /\ Shapes'
<1>0. /\ log' \in [Streams -> Seq(Nat)]
      /\ \A s \in Streams : /\ Len(log'[s]) <= Published[s]
                            /\ Len(log[s]) \in Nat /\ Len(log'[s]) \in Nat
                            /\ Len(log[s]) <= Len(log'[s])
      /\ faults' \in Nat /\ rewinds' \in Nat /\ faults' + rewinds' \in 0 .. MaxFaults
  BY LogStep, FaultsStep
<1>1. /\ groups \subseteq Streams /\ \A s \in Streams : cursor[s] \in 0 .. Len(log[s])
      /\ acked \subseteq Delivered /\ ToSet(batch) \subseteq Delivered \ acked
      /\ IsInjective(batch) /\ Len(batch) <= Count * Len(STREAMS)
      /\ pc \in {"drain", "handle", "record", "alert", "ack", "ended", "dead"}
      /\ (batch = <<>>) <=> (pc \in {"drain", "ended", "dead"})
      /\ audited \cup unaudited \subseteq Event /\ alerts \in [Event -> Nat]
      /\ dropped \cup overtaken \subseteq Event
      /\ batch \in Seq(Event) /\ Ordered(batch) /\ ToSet(batch) \subseteq Event
  BY ToSetIs DEF TypeOK, Shapes
<1>2. groups' \subseteq Streams
  BY <1>1, Steps DEF Publish, LoseGroup, Drain, DeliveryLost, Ack, Regroup, Ends, GoesOn
<1>3. \A s \in Streams : cursor'[s] \in 0 .. Len(log'[s])
  <2>1. CASE Drain \/ DeliveryLost
    <3>1. log' = log /\ Deliver
      BY <2>1 DEF Drain, DeliveryLost
    <3> QED
      BY <3>1, Delivers, ReadToIs
  <2>2. CASE Regroup
    BY <2>2, RegroupDelivers DEF Regroup
  <2>3. CASE UNCHANGED cursor
    BY <1>0, <1>1, <2>3
  <2> QED
    BY <2>1, <2>2, <2>3, Steps DEF Publish, LoseGroup, Ack, Ends, GoesOn
<1>4. /\ acked' \subseteq Delivered' /\ ToSet(batch') \subseteq Delivered' \ acked'
      /\ batch' \in Seq(Event) /\ Ordered(batch') /\ Len(batch') <= Count * Len(STREAMS)
      /\ (batch' = <<>>) <=> (pc' \in {"drain", "ended", "dead"})
  <2>0. 0 <= Count * Len(STREAMS)
    BY StreamsAre, NotifyAssumption
  <2>1. CASE Drain
    <3>1. acked' = acked /\ pc' = "handle" /\ Deliver /\ batch' = Batch
      BY <2>1 DEF Drain
    <3> QED
      BY <1>1, <3>1, Delivers
  <2>8. CASE DeliveryLost
    <3>1. UNCHANGED <<acked, batch, pc>> /\ Deliver
      BY <2>8 DEF DeliveryLost
    <3> QED
      BY <1>1, <3>1, Delivers
  <2>2. CASE Regroup
    BY <1>1, <2>2, RegroupDelivers, EmptyBatch DEF Regroup
  <2>3. CASE UNCHANGED <<cursor, acked, batch>> /\ ((batch = <<>>) <=> (pc' \in {"drain", "ended", "dead"}))
    BY <1>1, <2>3, DeliveredKept
  <2>4. CASE Ends
    <3>1. UNCHANGED <<cursor, acked>> /\ batch' = <<>> /\ pc' \in {"ended", "dead"}
      BY <2>4 DEF Ends, GiveUp
    <3>2. Ordered(<<>>)
      BY EmptyBatch DEF Ordered
    <3> QED
      BY <1>1, <2>0, <3>1, <3>2, EmptyBatch, DeliveredKept
  <2>5. CASE Ack
    <3>1. /\ batch # <<>> /\ cursor' = cursor /\ batch' = Tail(batch)
          /\ acked' = (IF Stream \in groups THEN acked \cup {Head(batch)} ELSE acked)
          /\ pc' = (IF Len(batch) = 1 THEN "drain" ELSE "handle")
      BY <1>1, <2>5 DEF Ack
    <3>2. /\ Tail(batch) \in Seq(Event) /\ Ordered(Tail(batch))
          /\ Len(Tail(batch)) = Len(batch) - 1 /\ Len(batch) \in Nat
          /\ Len(batch) = 1 <=> Tail(batch) = <<>>
          /\ ToSet(Tail(batch)) = ToSet(batch) \ {Head(batch)}
      BY <1>1, <3>1, OrderedBatch, LenProperties
    <3>3. Head(batch) \in ToSet(batch)
      BY <3>1, HeadIs
    <3>4. Len(Tail(batch)) <= Count * Len(STREAMS)
      BY <1>1, <3>2, StreamsAre, NotifyAssumption
    <3> QED
      BY <1>1, <3>1, <3>2, <3>3, <3>4, DeliveredKept
  <2>6. CASE GoesOn
    BY <1>1, <2>3, <2>6 DEF GoesOn
  <2>7. CASE \E s \in Streams : Publish(s) \/ LoseGroup(s)
    BY <1>1, <2>3, <2>7 DEF Publish, LoseGroup
  <2> QED
    BY <2>1, <2>2, <2>4, <2>5, <2>6, <2>7, <2>8, Steps
<1>5. pc' \in {"drain", "handle", "record", "alert", "ack", "ended", "dead"}
  BY <1>1, Steps DEF Publish, LoseGroup, Drain, DeliveryLost, Ack, Regroup, Ends, GoesOn
<1>6. audited' \cup unaudited' \subseteq Event /\ alerts' \in [Event -> Nat]
  <2>1. CASE UNCHANGED <<audited, unaudited, alerts>>
    BY <1>1, <2>1
  <2>2. CASE GoesOn
    <3>1. Head(batch) \in Event
      BY <2>2, HeadIs DEF GoesOn
    <3>2. audited' \cup unaudited' \subseteq Event
      BY <1>1, <2>2, <3>1 DEF GoesOn
    <3>3. alerts' \in [Event -> Nat]
      BY <1>1, <2>2, <3>1 DEF GoesOn
    <3> QED
      BY <3>2, <3>3
  <2> QED
    BY <2>1, <2>2, Steps DEF Publish, LoseGroup, Drain, DeliveryLost, Ack, Regroup, Ends
<1>7. IsInjective(batch')
  BY <1>4, OrderedBatch
<1>8. dropped' \cup overtaken' \subseteq Event
  <2>1. CASE Drain \/ DeliveryLost
    <3>1. ToSet(Batch) \subseteq Event
      BY <2>1, Delivers DEF Drain, DeliveryLost
    <3> QED
      BY <1>1, <2>1, <3>1 DEF Drain, DeliveryLost, Overtaking
  <2>2. CASE Ends
    BY <1>1, <2>2 DEF Ends, GiveUp
  <2>3. CASE UNCHANGED history
    BY <1>1, <2>3 DEF history
  <2> QED
    BY <2>1, <2>2, <2>3, Steps DEF Publish, LoseGroup, Ack, Regroup, GoesOn
<1> QED
  BY <1>0, <1>2, <1>3, <1>4, <1>5, <1>6, <1>7, <1>8 DEF TypeOK, Shapes

-----------------------------------------------------------------------------
(* How often the trader is told                                             *)

LEMMA ChancesStep ==
  ASSUME TypeOK, Shapes, Chances, Next
  PROVE  Chances'
<1> SUFFICES ASSUME NEW e \in Event
             PROVE  /\ alerts'[e] <= 1 + rewinds'
                    /\ Held(e)' \/ Unread(e)' => alerts'[e] <= rewinds'
                    /\ Held(e)' /\ Unread(e)' => alerts'[e] < rewinds'
  BY DEF Chances
<1>1. PICK a, r \in Nat : alerts[e] = a /\ rewinds = r
  BY DEF TypeOK, Shapes
<1>2. /\ a <= 1 + r
      /\ Held(e) \/ Unread(e) => a <= r
      /\ Held(e) /\ Unread(e) => a < r
  BY <1>1 DEF Chances
<1>3. e[1] \in Streams /\ e[2] \in Nat /\ e[2] >= 1
  BY EventIs
<1>4. ASSUME alerts'[e] = a, rewinds' = r, Held(e)' => Held(e), Unread(e)' => Unread(e)
      PROVE  /\ alerts'[e] <= 1 + rewinds'
             /\ Held(e)' \/ Unread(e)' => alerts'[e] <= rewinds'
             /\ Held(e)' /\ Unread(e)' => alerts'[e] < rewinds'
  BY <1>2, <1>4
<1>5. (batch = <<>>) <=> (pc \in {"drain", "ended", "dead"})
  BY DEF TypeOK
<1>6. ASSUME NEW s \in Streams, Publish(s)
      PROVE  /\ alerts'[e] <= 1 + rewinds'
             /\ Held(e)' \/ Unread(e)' => alerts'[e] <= rewinds'
             /\ Held(e)' /\ Unread(e)' => alerts'[e] < rewinds'
  BY <1>1, <1>4, <1>6 DEF Publish, Held, Unread, NoFault
<1>7. ASSUME NEW s \in Streams, LoseGroup(s)
      PROVE  /\ alerts'[e] <= 1 + rewinds'
             /\ Held(e)' \/ Unread(e)' => alerts'[e] <= rewinds'
             /\ Held(e)' /\ Unread(e)' => alerts'[e] < rewinds'
  <2>1. /\ alerts'[e] = a /\ rewinds' = r + 1 /\ (Held(e)' <=> Held(e))
    BY <1>1, <1>7 DEF LoseGroup, Held
  <2>2. ASSUME Held(e)' PROVE alerts'[e] < rewinds'
    <3>1. Held(e)
      BY <2>1, <2>2
    <3>2. a < r + 1
      BY <1>2, <3>1
    <3> QED
      BY <2>1, <3>2
  <2>3. alerts'[e] <= 1 + rewinds' /\ alerts'[e] <= rewinds'
    <3>1. a <= 1 + (r + 1) /\ a <= r + 1
      BY <1>2
    <3> QED
      BY <2>1, <3>1
  <2> QED
    BY <2>2, <2>3
<1>8. CASE Drain
  <2>1. /\ alerts'[e] = a /\ rewinds' = r /\ groups' = Streams /\ groups = Streams
        /\ pc' = "handle" /\ batch = <<>> /\ batch' = Batch /\ Deliver
    BY <1>1, <1>5, <1>8 DEF Drain, Deliver, NoFault
  <2>2. PICK c, d \in Nat : cursor[e[1]] = c /\ ReadTo(e[1]) = d /\ cursor'[e[1]] = d /\ c <= d
    BY <1>3, <2>1, ReadToIs, Delivers
  <2>3. Held(e)' => c < e[2] /\ e[2] <= d
    BY <2>1, <2>2, Delivers DEF Held
  <2>4. Unread(e) <=> c < e[2]
    BY <1>3, <2>1, <2>2 DEF Unread
  <2>5. Unread(e)' <=> d < e[2]
    BY <1>3, <2>1, <2>2 DEF Unread
  <2>6. (Held(e)' => Unread(e)) /\ (Unread(e)' => Unread(e)) /\ ~(Held(e)' /\ Unread(e)')
    BY <1>3, <2>2, <2>3, <2>4, <2>5
  <2> QED
    BY <1>2, <2>1, <2>6
<1>9. CASE Regroup
  <2>1. /\ alerts'[e] = a /\ rewinds' = r /\ ~Held(e)'
    BY <1>1, <1>9, EmptyBatch DEF Regroup, Held
  <2>2. Unread(e)' => Unread(e)
    <3>1. cursor'[e[1]] = (IF e[1] \in groups THEN cursor[e[1]] ELSE 0) /\ e[1] \in groups'
      BY <1>3, <1>9 DEF Regroup
    <3> QED
      BY <3>1 DEF Unread
  <2> QED
    BY <1>4, <2>1, <2>2
<1>13. CASE DeliveryLost
  <2>1. /\ alerts'[e] = a /\ (Held(e)' <=> Held(e)) /\ groups' = groups /\ Deliver
    BY <1>1, <1>13 DEF DeliveryLost, Held
  <2>2. rewinds' = r
    BY <1>1, <1>13 DEF DeliveryLost, Fault
  <2>3. PICK c, d \in Nat : cursor[e[1]] = c /\ cursor'[e[1]] = d /\ c <= d
    BY <1>3, <2>1, ReadToIs, Delivers
  <2>4. Unread(e)' => Unread(e)
    BY <1>3, <2>1, <2>3 DEF Unread
  <2> QED
    BY <1>4, <2>1, <2>2, <2>4
<1>10. CASE Ends
  <2>1. alerts'[e] = a /\ ~Held(e)' /\ (Unread(e)' <=> Unread(e))
    BY <1>1, <1>10, EmptyBatch DEF Ends, GiveUp, Held, Unread
  <2>2. rewinds' = r
    BY <1>1, <1>10 DEF Ends, Fault
  <2> QED
    BY <1>4, <2>1, <2>2
<1>11. CASE Ack
  <2>1. /\ alerts'[e] = a /\ rewinds' = r /\ (Unread(e)' <=> Unread(e))
        /\ batch' = Tail(batch) /\ batch # <<>> /\ pc' # "ack"
    BY <1>1, <1>5, <1>11 DEF Ack, Unread, NoFault
  <2>2. ToSet(Tail(batch)) = ToSet(batch) \ {Head(batch)}
    BY <2>1, OrderedBatch DEF Shapes
  <2>3. Held(e)' => Held(e)
    BY <2>1, <2>2 DEF Held
  <2> QED
    BY <1>4, <2>1, <2>3
<1>12. CASE GoesOn
  <2>1. /\ batch # <<>> /\ batch' = batch /\ rewinds' = r /\ (Unread(e)' <=> Unread(e))
        /\ pc \in {"handle", "record", "alert"}
    BY <1>1, <1>12 DEF GoesOn, Unread
  <2>2. Held(e)' => Held(e)
    BY <2>1 DEF Held
  <2>3. CASE alerts' = alerts
    BY <1>1, <1>4, <2>1, <2>2, <2>3
  <2>4. CASE pc = "alert" /\ pc' = "ack" /\ alerts' = [alerts EXCEPT ![Head(batch)] = @ + 1]
    <3>1. Head(batch) \in Event /\ Head(batch) \in ToSet(batch)
      BY <2>1, HeadIs
    <3>2. CASE e # Head(batch)
      <4>1. alerts'[e] = a
        BY <1>1, <2>4, <3>1, <3>2 DEF TypeOK
      <4> QED
        BY <1>4, <2>1, <2>2, <4>1
    <3>3. CASE e = Head(batch)
      <4>1. alerts'[e] = a + 1
        BY <1>1, <2>4, <3>1, <3>3 DEF TypeOK
      <4>2. Held(e) /\ ~Held(e)'
        BY <2>1, <2>4, <3>1, <3>3 DEF Held
      <4>3. a + 1 <= 1 + r /\ (Unread(e) => a + 1 <= r)
        BY <1>2, <4>2
      <4> QED
        BY <2>1, <4>1, <4>2, <4>3
    <3> QED
      BY <3>2, <3>3
  <2> QED
    BY <1>12, <2>3, <2>4 DEF GoesOn
<1> QED
  BY <1>6, <1>7, <1>8, <1>9, <1>10, <1>11, <1>12, <1>13, Steps

LEMMA RecordedStep ==
  ASSUME TypeOK, Shapes, Recorded, Next
  PROVE  Recorded'
<1>0. /\ \A e \in Event : Told(e) => e \in audited \cup unaudited
      /\ pc \in {"record", "alert", "ack"} => HasSubject(Stream)
      /\ \A e \in Event : e \in acked \cup audited \/ alerts[e] > 0 => HasSubject(e[1])
      /\ (batch = <<>>) <=> (pc \in {"drain", "ended", "dead"})
      /\ alerts \in [Event -> Nat]
  BY DEF Recorded, TypeOK
<1>1. CASE DeliveryLost \/ \E s \in Streams : Publish(s) \/ LoseGroup(s)
  <2>1. UNCHANGED <<acked, batch, pc, audited, unaudited, alerts>>
    BY <1>1 DEF DeliveryLost, Publish, LoseGroup
  <2> QED
    BY <2>1 DEF Recorded, Told, Stream
<1>2. CASE Drain \/ Ends \/ Regroup
  <2>1. /\ pc' \notin {"record", "alert", "ack"} /\ acked' \subseteq acked
        /\ UNCHANGED <<audited, unaudited, alerts>>
    BY <1>2 DEF Drain, Ends, Regroup
  <2> QED
    BY <1>0, <2>1 DEF Recorded, Told
<1>3. CASE Ack
  <2>1. /\ pc' \notin {"record", "alert", "ack"} /\ acked' \subseteq acked \cup {Head(batch)}
        /\ UNCHANGED <<audited, unaudited, alerts>> /\ pc = "ack" /\ batch # <<>>
    BY <1>0, <1>3 DEF Ack
  <2>2. HasSubject(Head(batch)[1])
    BY <1>0, <2>1 DEF Stream
  <2> QED
    BY <1>0, <2>1, <2>2 DEF Recorded, Told
<1>4. CASE GoesOn
  <2>1. /\ Head(batch) \in Event /\ Stream = Head(batch)[1]
        /\ batch # <<>> /\ batch' = batch /\ acked' = acked
    BY <1>4, HeadIs DEF GoesOn
  <2>2. HasSubject(Stream) /\ Stream' = Stream
    BY <1>0, <1>4, <2>1 DEF GoesOn, Stream
  <2>3. /\ audited \subseteq audited' /\ unaudited \subseteq unaudited'
        /\ audited' \subseteq audited \cup {Head(batch)}
        /\ pc' \in {"alert", "ack"} => Head(batch) \in audited' \cup unaudited'
    BY <1>0, <1>4, <2>1 DEF GoesOn, Told
  <2>4. \A e \in Event : alerts'[e] > 0 => alerts[e] > 0 \/ (e = Head(batch) /\ pc' = "ack")
    BY <1>0, <1>4, <2>1 DEF GoesOn
  <2> QED
    BY <1>0, <2>1, <2>2, <2>3, <2>4 DEF Recorded, Told
<1> QED
  BY <1>1, <1>2, <1>3, <1>4, Steps

-----------------------------------------------------------------------------
(* What the audit trail holds                                               *)

LEMMA BatchCard ==
  ASSUME NEW b \in Seq(Event), Ordered(b), Len(b) <= Count * Len(STREAMS)
  PROVE  /\ IsFiniteSet(ToSet(b))
         /\ Cardinality(ToSet(b)) \in Nat
         /\ Cardinality(ToSet(b)) <= Count * Len(STREAMS)
<1>1. IsFiniteSet(ToSet(b)) /\ Cardinality(ToSet(b)) <= Len(b)
  BY OrderedBatch
<1>2. Cardinality(ToSet(b)) \in Nat
  BY <1>1, FS_CardinalityType
<1>3. Len(b) \in Nat /\ Count \in Nat /\ Len(STREAMS) = 5
  BY LenProperties, StreamsAre, NotifyAssumption
<1> QED
  BY <1>1, <1>2, <1>3

\* One more failure pays for one more batch.
LEMMA OneMoreBatch ==
  ASSUME NEW D, NEW b \in Seq(Event), Ordered(b), Len(b) <= Count * Len(STREAMS),
         NEW n \in Nat, IsFiniteSet(D), Cardinality(D) <= n * (Count * Len(STREAMS))
  PROVE  /\ IsFiniteSet(D \cup ToSet(b))
         /\ Cardinality(D \cup ToSet(b)) <= (n + 1) * (Count * Len(STREAMS))
<1>1. IsFiniteSet(ToSet(b)) /\ Cardinality(ToSet(b)) \in Nat
      /\ Cardinality(ToSet(b)) <= Count * Len(STREAMS)
  BY BatchCard
<1>2. PICK B \in Nat : B = Count * Len(STREAMS)
  BY StreamsAre, NotifyAssumption
<1>3. PICK d, x, u \in Nat : /\ d = Cardinality(D) /\ x = Cardinality(ToSet(b))
                             /\ u = Cardinality(D \cup ToSet(b)) /\ u <= d + x
  <2>1. /\ IsFiniteSet(D \cup ToSet(b))
        /\ Cardinality(D \cup ToSet(b))
             = Cardinality(D) + Cardinality(ToSet(b)) - Cardinality(D \cap ToSet(b))
        /\ IsFiniteSet(D \cap ToSet(b))
    BY <1>1, FS_Union, FS_Intersection
  <2>2. /\ Cardinality(D) \in Nat /\ Cardinality(D \cap ToSet(b)) \in Nat
        /\ Cardinality(D \cup ToSet(b)) \in Nat
    BY <2>1, FS_CardinalityType
  <2> QED
    BY <1>1, <2>1, <2>2
<1>4. PICK m \in Nat : m = n * B /\ (n + 1) * B = m + B
  OBVIOUS
<1>5. d <= m /\ x <= B
  BY <1>1, <1>2, <1>3, <1>4
<1>6. u <= m + B
  BY <1>3, <1>5
<1> QED
  BY <1>1, <1>2, <1>3, <1>4, <1>6, FS_Union

LEMMA MoreAllowed ==
  ASSUME NEW x \in Nat, NEW m \in Nat, NEW n \in Nat, m <= n, x <= m * (Count * Len(STREAMS))
  PROVE  x <= n * (Count * Len(STREAMS))
<1>1. PICK B \in Nat : B = Count * Len(STREAMS)
  BY StreamsAre, NotifyAssumption
<1>2. m * B <= n * B /\ m * B \in Nat /\ n * B \in Nat
  BY SMTT(30)
<1> QED
  BY <1>1, <1>2

LEMMA KeptStep ==
  ASSUME TypeOK, Shapes, Recorded, Kept, Next, TypeOK'
  PROVE  Kept'
<1>0. /\ Delivered \subseteq Known \cup ToSet(batch)
      /\ \A e \in audited : e[2] <= Len(log[e[1]])
      /\ IsFiniteSet(dropped)
      /\ Cardinality(dropped) <= (faults + Ended) * (Count * Len(STREAMS))
      /\ Cardinality(dropped) \in Nat
      /\ faults \in Nat /\ Ended \in Nat
      /\ batch \in Seq(Event) /\ Ordered(batch) /\ Len(batch) <= Count * Len(STREAMS)
      /\ (batch = <<>>) <=> (pc \in {"drain", "ended", "dead"})
  BY FS_CardinalityType DEF Kept, Shapes, TypeOK, Ended
<1>1. PICK f, g, a, b \in Nat : faults = f /\ faults' = g /\ Ended = a /\ Ended' = b
  BY <1>0, FaultsStep DEF Ended
\* What the trail holds has been published.
<1>2. \A e \in audited' : e[2] <= Len(log'[e[1]])
  <2>1. ASSUME NEW e \in audited' PROVE e \in audited \/ e \in Delivered
    <3>1. CASE audited' = audited
      BY <2>1, <3>1
    <3>2. CASE GoesOn
      BY <2>1, <3>2, HeadIs DEF GoesOn
    <3> QED
      BY <3>1, <3>2, Steps DEF Publish, LoseGroup, Drain, DeliveryLost, Ack, Regroup, Ends
  <2> SUFFICES ASSUME NEW e \in audited' PROVE e[2] <= Len(log'[e[1]])
    OBVIOUS
  <2>2. e \in Event /\ e[1] \in Streams /\ e[2] \in Nat
    BY EventIs DEF TypeOK
  <2>3. e[2] <= Len(log[e[1]])
    <3>1. CASE e \in audited
      BY <1>0, <3>1
    <3>2. CASE e \in Delivered
      <4>1. e[2] <= cursor[e[1]] /\ cursor[e[1]] \in 0 .. Len(log[e[1]]) /\ Len(log[e[1]]) \in Nat
        BY <2>2, <3>2, LenProperties DEF Delivered, TypeOK
      <4> QED
        BY <2>2, <4>1
    <3> QED
      BY <2>1, <3>1, <3>2
  <2>4. PICK m, n \in Nat : m = Len(log[e[1]]) /\ n = Len(log'[e[1]]) /\ m <= n
    BY <2>2, LogStep
  <2> QED
    BY <2>2, <2>3, <2>4
<1>3. Delivered' \subseteq Known' \cup ToSet(batch')
  <2>1. CASE \E s \in Streams : Publish(s) \/ LoseGroup(s)
    <3>1. UNCHANGED <<cursor, batch, audited, unaudited, dropped>>
      BY <2>1 DEF Publish, LoseGroup, history
    <3> QED
      BY <1>0, <3>1, DeliveredKept DEF Known
  <2>2. CASE Drain
    <3>1. /\ Deliver /\ batch' = Batch /\ batch = <<>> /\ UNCHANGED <<audited, unaudited, dropped>>
      BY <1>0, <2>2 DEF Drain, Deliver
    <3> QED
      BY <1>0, <3>1, Delivers, EmptyBatch DEF Known
  <2>3. CASE DeliveryLost
    <3>1. /\ Deliver /\ dropped' = dropped \cup ToSet(Batch)
          /\ UNCHANGED <<batch, audited, unaudited>>
      BY <2>3 DEF DeliveryLost
    <3> QED
      BY <1>0, <3>1, Delivers DEF Known
  <2>4. CASE Ack
    <3>1. /\ pc = "ack" /\ batch # <<>> /\ batch' = Tail(batch)
          /\ UNCHANGED <<cursor, audited, unaudited, dropped>>
      BY <1>0, <2>4 DEF Ack, history
    <3>2. ToSet(Tail(batch)) = ToSet(batch) \ {Head(batch)}
      BY <1>0, <3>1, OrderedBatch
    <3>3. Head(batch) \in audited \cup unaudited
      BY <3>1, HeadIs DEF Recorded, Told
    <3> QED
      BY <1>0, <3>1, <3>2, <3>3, DeliveredKept DEF Known
  <2>5. CASE Regroup
    <3>1. UNCHANGED <<batch, audited, unaudited, dropped>>
      BY <2>5 DEF Regroup, history
    <3>2. Delivered' \subseteq Delivered
      <4>1. \A s \in Streams : /\ cursor'[s] = (IF s \in groups THEN cursor[s] ELSE 0)
                               /\ cursor[s] \in Nat
        BY <2>5, ReadToIs DEF Regroup
      <4> QED
        BY <4>1, EventIs DEF Delivered
    <3> QED
      BY <1>0, <3>1, <3>2 DEF Known
  <2>6. CASE Ends
    <3>1. /\ dropped' = dropped \cup ToSet(batch) /\ UNCHANGED <<cursor, audited, unaudited>>
      BY <2>6 DEF Ends, GiveUp
    <3> QED
      BY <1>0, <3>1, DeliveredKept DEF Known
  <2>7. CASE GoesOn
    <3>1. /\ audited \subseteq audited' /\ unaudited \subseteq unaudited'
          /\ UNCHANGED <<cursor, batch, dropped>>
      BY <2>7 DEF GoesOn, history
    <3> QED
      BY <1>0, <3>1, DeliveredKept DEF Known
  <2> QED
    BY <2>1, <2>2, <2>3, <2>4, <2>5, <2>6, <2>7, Steps
\* Every batch given up is paid for by a fault or by the end of the task.
<1>4. /\ IsFiniteSet(dropped')
      /\ Cardinality(dropped') <= (faults' + Ended') * (Count * Len(STREAMS))
  <2>1. ASSUME dropped' = dropped, f + a <= g + b
        PROVE  /\ IsFiniteSet(dropped')
               /\ Cardinality(dropped') <= (faults' + Ended') * (Count * Len(STREAMS))
    <3>1. PICK x, m, n \in Nat : x = Cardinality(dropped) /\ m = f + a /\ n = g + b
      BY <1>0
    <3>2. x <= m * (Count * Len(STREAMS)) /\ m <= n
      BY <1>0, <1>1, <2>1, <3>1
    <3>3. x <= n * (Count * Len(STREAMS))
      BY <3>2, MoreAllowed
    <3> QED
      BY <1>0, <1>1, <2>1, <3>1, <3>3
  <2>2. ASSUME NEW B \in Seq(Event), Ordered(B), Len(B) <= Count * Len(STREAMS),
               dropped' = dropped \cup ToSet(B), f + a + 1 <= g + b
        PROVE  /\ IsFiniteSet(dropped')
               /\ Cardinality(dropped') <= (faults' + Ended') * (Count * Len(STREAMS))
    <3>1. PICK m, n, k \in Nat : m = f + a /\ n = g + b /\ k = m + 1
      OBVIOUS
    <3>2. k <= n
      BY <2>2, <3>1
    <3>3. Cardinality(dropped) <= m * (Count * Len(STREAMS))
      BY <1>0, <1>1, <3>1
    <3>4. /\ IsFiniteSet(dropped')
          /\ Cardinality(dropped') <= k * (Count * Len(STREAMS))
      BY <1>0, <2>2, <3>1, <3>3, OneMoreBatch
    <3>5. PICK x \in Nat : x = Cardinality(dropped')
      BY <3>4, FS_CardinalityType
    <3>6. x <= n * (Count * Len(STREAMS))
      BY <3>2, <3>4, <3>5, MoreAllowed
    <3> QED
      BY <1>1, <3>1, <3>4, <3>5, <3>6
  <2>3. CASE \E s \in Streams : Publish(s) \/ LoseGroup(s)
    <3>1. dropped' = dropped /\ faults' = faults /\ Ended' = Ended
      BY <2>3 DEF Publish, LoseGroup, NoFault, history, Ended
    <3>2. f = g /\ a = b
      BY <1>1, <3>1
    <3> QED
      BY <2>1, <3>1, <3>2
  <2>4. CASE Drain \/ Ack \/ Regroup
    <3>1. dropped' = dropped /\ faults' = faults /\ pc # "ended"
      BY <2>4 DEF Drain, Deliver, Ack, Regroup, NoFault, history
    <3>2. f = g /\ a = 0
      BY <1>1, <3>1 DEF Ended
    <3> QED
      BY <2>1, <3>1, <3>2
  <2>5. CASE GoesOn
    <3>1. dropped' = dropped /\ pc # "ended" /\ (faults' = faults \/ faults' = faults + 1)
      BY <1>0, <2>5 DEF GoesOn, history, Fault
    <3>2. (g = f \/ g = f + 1) /\ a = 0
      BY <1>1, <3>1 DEF Ended
    <3> QED
      BY <2>1, <3>1, <3>2
  <2>6. CASE DeliveryLost
    <3>1. /\ dropped' = dropped \cup ToSet(Batch) /\ faults' = faults + 1 /\ Ended' = Ended
          /\ Deliver
      BY <2>6 DEF DeliveryLost, Fault, Ended
    <3>2. Batch \in Seq(Event) /\ Ordered(Batch) /\ Len(Batch) <= Count * Len(STREAMS)
      BY <3>1, Delivers
    <3>3. g = f + 1 /\ a = b
      BY <1>1, <3>1
    <3>4. f + a + 1 <= g + b
      BY <3>3
    <3> QED
      BY <2>2, <3>1, <3>2, <3>4
  <2>7. CASE Ends
    <3>1. dropped' = dropped \cup ToSet(batch)
      BY <2>7 DEF Ends, GiveUp
    <3>2. CASE pc = "handle" /\ pc' = "ended" /\ faults' = faults
      <4>1. a = 0 /\ b = 1 /\ g = f
        BY <1>1, <3>2 DEF Ended
      <4>2. f + a + 1 <= g + b
        BY <4>1
      <4> QED
        BY <1>0, <2>2, <3>1, <4>2
    <3>3. CASE Fault /\ pc # "ended"
      <4>1. a = 0 /\ g = f + 1
        BY <1>1, <3>3 DEF Ended, Fault
      <4>2. f + a + 1 <= g + b
        BY <4>1
      <4> QED
        BY <1>0, <2>2, <3>1, <4>2
    <3>4. CASE Fault /\ pc = "ended"
      <4>1. batch = <<>>
        BY <1>0, <3>4
      <4>2. dropped' = dropped
        BY <3>1, <4>1, EmptyBatch
      <4>3. a = 1 /\ g = f + 1
        BY <1>1, <3>4 DEF Ended, Fault
      <4>4. f + a <= g + b
        BY <4>3
      <4> QED
        BY <2>1, <4>2, <4>4
    <3> QED
      BY <2>7, <3>2, <3>3, <3>4 DEF Ends
  <2> QED
    BY <2>3, <2>4, <2>5, <2>6, <2>7, Steps
<1> QED
  BY <1>2, <1>3, <1>4 DEF Kept

-----------------------------------------------------------------------------
(* A fill comes before its close                                            *)

LEMMA ClosesAre ==
  ASSUME TypeOK
  PROVE  /\ Closes = 1 .. Len(log["order.closed"]) /\ Len(log["order.closed"]) \in Nat
         /\ DOMAIN log["order.filled"] = 1 .. Len(log["order.filled"])
         /\ Len(log["order.filled"]) \in Nat
BY StreamsAre, LenProperties DEF TypeOK, Closes

\* A call that reaches the fill of a close leaves it known or in the batch.
LEMMA FillReached ==
  ASSUME TypeOK, Shapes, Kept, Deliver, NEW i \in Closes,
         log["order.closed"][i] \in DOMAIN log["order.filled"],
         Close(i) \in ToSet(Batch), Close(i) \notin Overtaking, batch = <<>>
  PROVE  Fill(i) \in Known \cup ToSet(Batch)
<1>1. "order.closed" \in Streams /\ "order.filled" \in Streams
  BY StreamsAre
<1>2. PICK k \in Nat : log["order.closed"][i] = k /\ k \in 1 .. Len(log["order.filled"])
  BY ClosesAre
<1>3. PICK r \in Nat : r = ReadTo("order.filled") /\ cursor'["order.filled"] = r
  BY <1>1, ReadToIs, Delivers
<1>4. k <= r
  <2>1. Close(i)[1] = "order.closed" /\ Close(i)[2] = i
    BY DEF Close
  <2>2. ~(log["order.closed"][i] > ReadTo("order.filled"))
    BY <2>1 DEF Overtaking
  <2> QED
    BY <1>2, <1>3, <2>2
<1>5. Fill(i) \in Event
  <2>1. Len(log["order.filled"]) <= Published["order.filled"] /\ Published["order.filled"] \in Nat
        /\ Len(log["order.filled"]) \in Nat
    BY <1>1, NotifyAssumption, ClosesAre DEF Shapes, Streams
  <2>2. k \in 1 .. Published["order.filled"]
    BY <1>2, <2>1
  <2> QED
    BY <1>1, <1>2, <2>2 DEF Event, Fill
<1>6. Fill(i) \in Delivered'
  BY <1>2, <1>3, <1>4, <1>5 DEF Delivered, Fill
<1>7. Fill(i) \in Delivered \cup ToSet(Batch)
  BY <1>5, <1>6, Delivers
<1> QED
  BY <1>7, EmptyBatch DEF Kept

LEMMA ClosesStep ==
  ASSUME TypeOK, Shapes, Recorded, Kept, ClosesOK, TypeOK', Next
  PROVE  ClosesOK'
<1> SUFFICES ASSUME NEW i \in Closes'
             PROVE  /\ log'["order.closed"][i] \in DOMAIN log'["order.filled"]
                    /\ Close(i) \in ToSet(batch') \ overtaken' => Fill(i)' \in Known' \cup ToSet(batch')
                    /\ Close(i) \in audited' \ overtaken' => Fill(i)' \in Known'
  BY DEF ClosesOK, Close
<1>0. /\ (batch = <<>>) <=> (pc \in {"drain", "ended", "dead"})
      /\ "order.closed" \in Streams /\ "order.filled" \in Streams
      /\ batch \in Seq(Event) /\ Ordered(batch)
      /\ ToSet(batch) \subseteq Delivered
  BY StreamsAre DEF TypeOK, Shapes
<1>1. ASSUME i \in Closes
      PROVE  /\ log["order.closed"][i] \in DOMAIN log["order.filled"]
             /\ Close(i) \in ToSet(batch) \ overtaken => Fill(i) \in Known \cup ToSet(batch)
             /\ Close(i) \in audited \ overtaken => Fill(i) \in Known
  BY <1>1 DEF ClosesOK
<1>2. ASSUME log' = log
      PROVE  /\ i \in Closes /\ Fill(i)' = Fill(i)
             /\ log'["order.closed"][i] \in DOMAIN log'["order.filled"]
  BY <1>1, <1>2 DEF Closes, Fill
<1>3. ASSUME NEW s \in Streams, Publish(s)
      PROVE  /\ log'["order.closed"][i] \in DOMAIN log'["order.filled"]
             /\ Close(i) \in ToSet(batch') \ overtaken' => Fill(i)' \in Known' \cup ToSet(batch')
             /\ Close(i) \in audited' \ overtaken' => Fill(i)' \in Known'
  <2>1. UNCHANGED <<batch, audited, overtaken>> /\ Known' = Known
    BY <1>3 DEF Publish, history, Known
  <2>2. DOMAIN log["order.filled"] \subseteq DOMAIN log'["order.filled"]
    <3>1. DOMAIN log'["order.filled"] = 1 .. Len(log'["order.filled"])
      BY StreamsAre, LenProperties DEF TypeOK
    <3> QED
      BY <1>0, <3>1, ClosesAre, LogStep
  <2>3. CASE i \in Closes
    <3>1. log'["order.closed"][i] = log["order.closed"][i]
      BY <1>0, <2>3, ClosesAre, LogStep
    <3>2. Fill(i)' = Fill(i)
      BY <3>1 DEF Fill
    <3> QED
      BY <1>1, <2>1, <2>2, <2>3, <3>1, <3>2
  <2>4. CASE i \notin Closes
    <3>1. log["order.closed"] \in Seq(Nat) /\ Len(log["order.closed"]) \in Nat
      BY <1>0, ClosesAre DEF TypeOK
    <3>2. s = "order.closed" /\ \E k \in Closable : log'["order.closed"] = Append(log["order.closed"], k)
      BY <1>0, <1>3, <2>4 DEF Publish, Closes, TypeOK
    <3>3. PICK k \in Closable : log'["order.closed"] = Append(log["order.closed"], k)
      BY <3>2
    <3>4. Len(log'["order.closed"]) = Len(log["order.closed"]) + 1
          /\ log'["order.closed"][Len(log["order.closed"]) + 1] = k
      BY <3>1, <3>3
    <3>5. i = Len(log["order.closed"]) + 1
      <4>1. i \in 1 .. Len(log'["order.closed"])
        BY ClosesAre DEF Closes, TypeOK
      <4>2. i \notin 1 .. Len(log["order.closed"])
        BY <2>4, ClosesAre
      <4> QED
        BY <3>1, <3>4, <4>1, <4>2
    <3>6. log'["order.closed"][i] = k /\ k \in DOMAIN log["order.filled"]
      BY <3>4, <3>5 DEF Closable
    <3>7. Close(i)[1] = "order.closed" /\ Close(i)[2] = i
      BY DEF Close
    <3>8. Close(i) \notin Delivered
      BY <1>0, <3>1, <3>5, <3>7 DEF Delivered, TypeOK
    <3>9. Close(i) \notin audited
      BY <3>1, <3>5, <3>7 DEF Kept
    <3> QED
      BY <1>0, <2>1, <2>2, <3>6, <3>8, <3>9
  <2> QED
    BY <2>3, <2>4
<1>4. ASSUME NEW s \in Streams, LoseGroup(s)
      PROVE  /\ log'["order.closed"][i] \in DOMAIN log'["order.filled"]
             /\ Close(i) \in ToSet(batch') \ overtaken' => Fill(i)' \in Known' \cup ToSet(batch')
             /\ Close(i) \in audited' \ overtaken' => Fill(i)' \in Known'
  <2>1. UNCHANGED <<log, batch, audited, overtaken>> /\ Known' = Known
    BY <1>4 DEF LoseGroup, history, Known
  <2> QED
    BY <1>1, <1>2, <2>1
<1>5. CASE Drain
  <2>1. /\ UNCHANGED <<log, audited>> /\ Known' = Known /\ batch = <<>> /\ batch' = Batch
        /\ overtaken' = overtaken \cup Overtaking /\ Deliver
    BY <1>0, <1>5 DEF Drain, Deliver, Known
  <2>2. ASSUME Close(i) \in ToSet(batch') \ overtaken' PROVE Fill(i) \in Known \cup ToSet(Batch)
    BY <1>1, <1>2, <2>1, <2>2, FillReached
  <2> QED
    BY <1>1, <1>2, <2>1, <2>2
<1>6. CASE DeliveryLost \/ Regroup
  <2>1. /\ UNCHANGED <<log, batch, audited, overtaken>> /\ Known \subseteq Known'
    BY <1>6 DEF DeliveryLost, Regroup, history, Known
  <2> QED
    BY <1>1, <1>2, <2>1
<1>7. CASE Ends
  <2>1. /\ UNCHANGED <<log, audited, overtaken>> /\ batch' = <<>> /\ Known \subseteq Known'
    BY <1>7 DEF Ends, GiveUp, Known
  <2> QED
    BY <1>1, <1>2, <2>1, EmptyBatch
<1>8. CASE Ack
  <2>1. /\ pc = "ack" /\ batch # <<>> /\ batch' = Tail(batch) /\ Known' = Known
        /\ UNCHANGED <<log, audited, overtaken>>
    BY <1>0, <1>8 DEF Ack, history, Known
  <2>2. ToSet(batch') = ToSet(batch) \ {Head(batch)}
    BY <1>0, <2>1, OrderedBatch
  <2>3. Head(batch) \in Known
    BY <2>1, HeadIs DEF Recorded, Told, Known
  <2> QED
    BY <1>1, <1>2, <2>1, <2>2, <2>3
<1>9. CASE GoesOn
  <2>1. /\ batch # <<>> /\ UNCHANGED <<log, batch, overtaken>> /\ Known \subseteq Known'
        /\ audited' \subseteq audited \cup {Head(batch)}
    BY <1>9 DEF GoesOn, history, Known
  <2>2. ASSUME Close(i) = Head(batch), Close(i) \notin overtaken PROVE Fill(i) \in Known
    <3>1. Close(i) \in ToSet(batch)
      BY <2>1, <2>2, HeadIs
    <3>2. Fill(i) \in Known \cup ToSet(batch)
      BY <1>1, <1>2, <2>1, <2>2, <3>1
    <3>3. Fill(i) \notin ToSet(batch)
      <4>1. SUFFICES ASSUME Fill(i) \in ToSet(batch) PROVE FALSE
        OBVIOUS
      <4>2. Close(i)[1] = "order.closed" /\ Fill(i)[1] = "order.filled"
        BY DEF Close, Fill
      <4>3. Precedes(Close(i), Fill(i))
        BY <1>0, <2>1, <2>2, <4>1, <4>2, OrderedBatch
      <4>4. Place("order.closed") = 5 /\ Place("order.filled") = 3
        <5>1. Place(STREAMS[5]) = 5 /\ Place(STREAMS[3]) = 3
          BY PlaceIs
        <5> QED
          BY <5>1, StreamsAre
      <4> QED
        BY <4>2, <4>3, <4>4 DEF Precedes
    <3> QED
      BY <3>2, <3>3
  <2> QED
    BY <1>1, <1>2, <2>1, <2>2
<1> QED
  BY <1>3, <1>4, <1>5, <1>6, <1>7, <1>8, <1>9, Steps

-----------------------------------------------------------------------------
(* The theorems                                                             *)

LEMMA StepIInv == IInv /\ [Next]_vars => IInv'
<1> SUFFICES ASSUME IInv, [Next]_vars PROVE IInv'
  OBVIOUS
<1>1. TypeOK /\ Shapes /\ Chances /\ Recorded /\ Kept /\ ClosesOK
  BY DEF IInv
<1>2. CASE UNCHANGED vars
  <2>1. TypeOK' /\ Shapes'
    BY <1>1, <1>2 DEF vars, history, TypeOK, Shapes, Delivered
  <2>2. Chances' /\ Recorded'
    BY <1>1, <1>2 DEF vars, Chances, Recorded, Held, Unread, Told, Stream
  <2>3. Kept' /\ ClosesOK'
    BY <1>1, <1>2 DEF vars, history, Kept, Known, Ended, Delivered, ClosesOK, Closes, Close, Fill
  <2> QED
    BY <2>1, <2>2, <2>3 DEF IInv
<1>3. CASE Next
  <2>1. TypeOK' /\ Shapes' /\ Chances' /\ Recorded'
    BY <1>1, <1>3, TypesStep, ChancesStep, RecordedStep
  <2> QED
    BY <1>1, <1>3, <2>1, KeptStep, ClosesStep DEF IInv
<1> QED
  BY <1>2, <1>3

LEMMA Inductive == Spec => []IInv
BY InitIInv, StepIInv, PTL DEF Spec

\* Batches hold every event once, in order, and only what was delivered and not
\* acknowledged, for any streams, and any Count.
THEOREM TypeCorrect == Spec => []TypeOK
<1>1. IInv => TypeOK
  BY DEF IInv
<1> QED
  BY <1>1, Inductive, PTL

\* No event is told more often than its group was made anew, plus one, and none
\* before its audit row was tried.
THEOREM TraderToldOnce == Spec => []AlertedOnce
<1>1. IInv => AlertedOnce
  BY DEF IInv, Chances, Recorded, Told, AlertedOnce
<1> QED
  BY <1>1, Inductive, PTL

\* No event handed out is forgotten: it is in the trail, its insert failed, it is in
\* hand or its batch was given up, one batch for every failure at most.
THEOREM TrailIsComplete == Spec => []AuditIsComplete
<1>1. ASSUME IInv PROVE AuditIsComplete
  <2>1. acked \subseteq audited \cup unaudited
    BY <1>1 DEF IInv, Recorded, Told, TypeOK, Delivered
  <2>2. Delivered \subseteq audited \cup unaudited \cup dropped \cup ToSet(batch)
    BY <1>1 DEF IInv, Kept, Known
  <2>3. Cardinality(dropped)
          <= (faults + IF pc = "ended" THEN 1 ELSE 0) * (Count * Len(STREAMS))
    BY <1>1 DEF IInv, Kept, Ended
  <2> QED
    BY <2>1, <2>2, <2>3 DEF AuditIsComplete
<1> QED
  BY <1>1, Inductive, PTL

\* A generated signal never gets a row and is never acknowledged, whatever happens.
THEOREM SignalsGoUnrecorded ==
  Spec => [](\A e \in Event : e[1] = "signal.generated" =>
               e \notin acked /\ e \notin audited /\ alerts[e] = 0)
<1>1. ASSUME IInv
      PROVE  \A e \in Event : e[1] = "signal.generated" =>
               e \notin acked /\ e \notin audited /\ alerts[e] = 0
  BY <1>1 DEF IInv, Recorded, HasSubject, TypeOK
<1> QED
  BY <1>1, Inductive, PTL

\* The order of the streams in one call puts a fill before the close of its
\* position, at every point of a run with any faults.
THEOREM FillBeforeClose == Spec => []FilledBeforeClosed
<1>1. IInv => FilledBeforeClosed
  BY DEF IInv, ClosesOK, Known, FilledBeforeClosed, Closes, Close, Fill
<1> QED
  BY <1>1, Inductive, PTL
=============================================================================
