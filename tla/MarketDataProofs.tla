-------------------------- MODULE MarketDataProofs --------------------------
(***************************************************************************)
(* Proofs about MarketData: for any number of timeframes, backfills and    *)
(* consumers, no bar is dropped between the terminal and the stream unless *)
(* a cycle failed, and what is announced is in the tables.                 *)
(***************************************************************************)
EXTENDS MarketData, FiniteSetTheorems, SequenceTheorems, WellFoundedInduction, TLAPS

USE DEF NoBar

Stages == {"idle", "fetch", "upsert", "ok", "died"}
Busy   == {"fetch", "store", "announce", "ack"}

\* What TypeOK leaves open: the jobs, and the batches of the consumers.
JobType == [stage : Stages, script : BOOLEAN, session : BOOLEAN, tf : Timeframes,
            start : Nat, page : SUBSET Bars, forming : Nat, low : Nat, newest : Nat]

BatchesOK ==
    /\ job \in [Jobs -> JobType]
    /\ latest \in [Consumers -> Bars \cup {NoBar}]
    /\ todo \in [Consumers -> Seq(Nat)]
    /\ lost \in [Timeframes -> SUBSET Bars]
    /\ partial \in [Timeframes -> SUBSET Bars]
    /\ \A c \in Consumers : \A n \in DOMAIN todo[c] : todo[c][n] \in DOMAIN stream
    /\ \A c \in Consumers : fpc[c] \in Busy => todo[c] # <<>>

\* A cycle has nothing in hand unless it is storing or publishing it.
Forwarding ==
    /\ SeenBarsAreForwarded
    /\ ipc \in {"poll", "connect"} => fresh = {}
    /\ ipc = "publish" => fresh \subseteq stored[at]
    /\ PublishedBarsAreStored

\* What a consumer is about to store reaches its event's bar, out of enough history.
WindowOK(c) ==
    /\ fpc[c] \in {"store", "announce"} =>
         /\ EventOf(c) # Malformed
         /\ latest[c] >= EventOf(c).bar
         /\ Cardinality({b \in stored[EventOf(c).tf] : b <= latest[c]}) >= MinBars
    /\ fpc[c] = "announce" => RowKey(c) \in rows

Windows ==
    /\ \A c \in Consumers : WindowOK(c)
    /\ AnnouncedFeaturesHaveRows /\ FeaturesReachTheEvent /\ FeaturesHaveHistory

\* Where the next page of a backfill begins, or the page in hand ends, nothing is
\* missing above it, however many bars have closed since the last page.
PageOK(r) ==
    /\ r.low .. r.newest \subseteq stored[r.tf]
    /\ r.stage = "fetch" => r.low + r.start <= closed[r.tf] + 2
    /\ r.stage = "upsert" =>
         /\ r.forming <= closed[r.tf] + 1
         /\ r.low + r.start <= r.forming + 1
         /\ \E lo \in 1 .. r.forming : /\ lo + r.start <= r.forming
                                     /\ r.page = lo .. r.forming - r.start

Pages == \A j \in Jobs : PageOK(job[j])

\* What lies beyond the group's cursor has not been delivered.
Deliveries ==
    /\ DeliveredOnce
    /\ \A i \in DOMAIN pending : i > cursor => pending[i] = 0

IInv == TypeOK /\ BatchesOK /\ Forwarding /\ Windows /\ Pages /\ Deliveries

-----------------------------------------------------------------------------
(* The largest and the smallest bar of a set                                *)

LEMMA MaxIs ==
  ASSUME NEW S, S \subseteq Int, NEW m \in S, \A x \in S : x <= m
  PROVE  Max(S) = m
<1>1. m \in Int /\ \A x \in S : m >= x
  OBVIOUS
<1>2. ASSUME NEW y \in S, \A x \in S : y >= x PROVE y = m
  <2>1. y \in Int /\ y >= m /\ m >= y
    BY <1>1, <1>2
  <2> QED
    BY <1>1, <2>1
<1> QED
  BY <1>1, <1>2 DEF Max

LEMMA MinIs ==
  ASSUME NEW S, S \subseteq Int, NEW m \in S, \A x \in S : m <= x
  PROVE  Min(S) = m
<1>1. m \in Int /\ \A x \in S : m <= x
  OBVIOUS
<1>2. ASSUME NEW y \in S, \A x \in S : y <= x PROVE y = m
  <2>1. y \in Int /\ y <= m /\ m <= y
    BY <1>1, <1>2
  <2> QED
    BY <1>1, <2>1
<1> QED
  BY <1>1, <1>2 DEF Min

LEMMA MinTwo ==
  ASSUME NEW a \in Int, NEW b \in Int
  PROVE  Min({a, b}) = IF a <= b THEN a ELSE b
<1>1. {a, b} \subseteq Int
  OBVIOUS
<1>2. CASE a <= b
  <2>1. \A x \in {a, b} : a <= x
    BY <1>2
  <2> QED
    BY <1>1, <1>2, <2>1, MinIs
<1>3. CASE ~(a <= b)
  <2>1. \A x \in {a, b} : b <= x
    BY <1>3
  <2> QED
    BY <1>1, <1>3, <2>1, MinIs
<1> QED
  BY <1>2, <1>3

\* The intervals above the bars of the set are finite: one of them contains no
\* other, and that bar is the largest.
LEMMA MaxBars ==
  ASSUME NEW S \in SUBSET Bars, S # {}
  PROVE  Max(S) \in S /\ \A x \in S : x <= Max(S)
<1> DEFINE N == MaxClosed + 1
           T == {x + 1 .. N : x \in S}
<1>1. N \in Nat /\ S \subseteq 1 .. N
  BY ConstantsAssumption DEF Bars
<1>2. T \subseteq FiniteSubsetsOf(Nat) /\ T # {}
  <2>1. ASSUME NEW x \in S PROVE x + 1 .. N \in FiniteSubsetsOf(Nat)
    <3>1. x + 1 \in Int /\ x + 1 .. N \in SUBSET Nat
      BY <1>1
    <3>2. IsFiniteSet(x + 1 .. N)
      BY <1>1, <3>1, FS_Interval
    <3> QED
      BY <3>1, <3>2 DEF FiniteSubsetsOf
  <2> QED
    BY <2>1
<1>3. \E d \in T : \A e \in T : ~(<<e, d>> \in StrictSubsetOrdering(Nat))
  <2> HIDE DEF T
  <2> QED
    BY <1>2, WFMin, FS_StrictSubsetOrderingWellFounded
<1>4. PICK a \in S : \A e \in T : ~(<<e, a + 1 .. N>> \in StrictSubsetOrdering(Nat))
  BY <1>3
<1>5. ASSUME NEW b \in S, a < b PROVE FALSE
  <2>1. a \in 1 .. N /\ b \in 1 .. N
    BY <1>1
  <2>2. /\ b + 1 .. N \subseteq a + 1 .. N
        /\ b \in a + 1 .. N /\ b \notin b + 1 .. N
        /\ b + 1 .. N \in SUBSET Nat /\ a + 1 .. N \in SUBSET Nat
    BY <1>1, <1>5, <2>1
  <2>3. <<b + 1 .. N, a + 1 .. N>> \in StrictSubsetOrdering(Nat)
    BY <2>2 DEF StrictSubsetOrdering
  <2> QED
    BY <1>4, <2>3
<1>6. S \subseteq Int /\ \A b \in S : b <= a
  BY <1>1, <1>5
<1>7. Max(S) = a
  BY <1>6, MaxIs
<1> QED
  BY <1>6, <1>7

LEMMA BarsFinite ==
  ASSUME NEW S \in SUBSET Bars
  PROVE  IsFiniteSet(S) /\ Cardinality(S) \in Nat
<1>1. MaxClosed + 1 \in Int
  BY ConstantsAssumption
<1>2. IsFiniteSet(Bars)
  BY <1>1, FS_Interval DEF Bars
<1> QED
  BY <1>2, FS_Subset, FS_CardinalityType

-----------------------------------------------------------------------------
(* The entries of a cycle: the bars of the set, each once                   *)

Below(S, b) == {x \in S : x <= b}

\* Every place of the batch is the rank of exactly one bar.
LEMMA Ranks ==
  ASSUME NEW S \in SUBSET Bars
  PROVE  /\ Cardinality(S) \in Nat
         /\ \A b \in S : Cardinality(Below(S, b)) \in 1 .. Cardinality(S)
         /\ \A a, b \in S : Cardinality(Below(S, a)) = Cardinality(Below(S, b)) => a = b
         /\ \A i \in 1 .. Cardinality(S) : \E b \in S : Cardinality(Below(S, b)) = i
<1> DEFINE rank == [b \in S |-> Cardinality(Below(S, b))]
           n    == Cardinality(S)
<1>1. IsFiniteSet(S) /\ n \in Nat /\ S \subseteq Nat
  BY BarsFinite DEF Bars
<1>2. ASSUME NEW b \in S
      PROVE  /\ Below(S, b) \in SUBSET S /\ b \in Below(S, b)
             /\ IsFiniteSet(Below(S, b)) /\ Cardinality(Below(S, b)) \in 1 .. n
  <2>1. Below(S, b) \in SUBSET S /\ b \in Below(S, b)
    BY <1>1 DEF Below
  <2>2. IsFiniteSet(Below(S, b)) /\ Cardinality(Below(S, b)) <= n
    BY <1>1, <2>1, FS_Subset
  <2>3. Cardinality(Below(S, b)) \in Nat /\ Cardinality(Below(S, b)) # 0
    BY <2>1, <2>2, FS_EmptySet, FS_CardinalityType
  <2> QED
    BY <1>1, <2>1, <2>2, <2>3
<1>3. ASSUME NEW a \in S, NEW b \in S, a < b
      PROVE  Cardinality(Below(S, a)) # Cardinality(Below(S, b))
  <2>1. a \in Nat /\ b \in Nat
    BY <1>1
  <2>2. Below(S, a) \in SUBSET Below(S, b) /\ b \notin Below(S, a)
    <3>1. \A x \in S : x \in Nat /\ (x <= a => x <= b)
      BY <1>1, <1>3, <2>1
    <3>2. ~(b <= a)
      BY <1>3, <2>1
    <3> QED
      BY <3>1, <3>2 DEF Below
  <2> QED
    BY <1>2, <2>2, FS_Subset
<1>4. \A a, b \in S : rank[a] = rank[b] => a = b
  <2> SUFFICES ASSUME NEW a \in S, NEW b \in S, rank[a] = rank[b] PROVE a = b
    OBVIOUS
  <2>1. a \in Nat /\ b \in Nat
    BY <1>1
  <2> QED
    BY <1>3, <2>1
<1>5. rank \in Injection(S, 1 .. n)
  <2>1. rank \in [S -> 1 .. n]
    BY <1>2
  <2> HIDE DEF rank
  <2> QED
    BY <1>4, <2>1 DEF Injection, IsInjective
<1>6. IsFiniteSet(1 .. n) /\ Cardinality(1 .. n) = n
  BY <1>1, FS_Interval
<1>7. rank \in Surjection(S, 1 .. n)
  <2> HIDE DEF rank
  <2> QED
    BY <1>1, <1>5, <1>6, FS_Injection
<1> QED
  BY <1>1, <1>2, <1>4, <1>7 DEF Surjection

\* Entries announces every bar of the set and no other.
LEMMA EntriesAnnounce ==
  ASSUME NEW t \in Timeframes, NEW S \in SUBSET Bars
  PROVE  /\ Entries(t, S) \in Seq(Event)
         /\ Len(Entries(t, S)) = Cardinality(S)
         /\ \A i \in 1 .. Cardinality(S) :
              Entries(t, S)[i].tf = t /\ Entries(t, S)[i].bar \in S
         /\ \A b \in S : \E i \in 1 .. Cardinality(S) :
              Entries(t, S)[i] = [tf |-> t, bar |-> b]
<1> DEFINE n == Cardinality(S)
           bar(i) == CHOOSE b \in S : Cardinality(Below(S, b)) = i
<1>1. n \in Nat
  BY Ranks
<1>2. \A i \in 1 .. n : bar(i) \in S /\ Cardinality(Below(S, bar(i))) = i
  BY Ranks
<1>3. Entries(t, S) = [i \in 1 .. n |-> [tf |-> t, bar |-> bar(i)]]
  BY DEF Entries, Below
<1>4. ASSUME NEW b \in S
      PROVE  \E i \in 1 .. n : bar(i) = b
  <2>1. Cardinality(Below(S, b)) \in 1 .. n
    BY Ranks
  <2>2. bar(Cardinality(Below(S, b))) = b
    BY <1>2, <2>1, Ranks
  <2> QED
    BY <2>1, <2>2
<1> HIDE DEF bar
<1>5. \A i \in 1 .. n : [tf |-> t, bar |-> bar(i)] \in Event
  BY <1>2 DEF Event
<1> QED
  BY <1>1, <1>2, <1>3, <1>4, <1>5

-----------------------------------------------------------------------------
(* Type correctness                                                         *)

LEMMA Constants ==
  /\ NumTimeframes \in Nat \ {0} /\ HistoryBars \in Nat \ {0} /\ Retries \in Nat \ {0}
  /\ ChunkSize \in Nat \ {0} /\ BatchSize \in Nat \ {0}
  /\ Cutoff \in Nat /\ MinBars \in Nat /\ WarmUp \in Nat /\ MaxDeliveries \in Nat
  /\ FirstClosed \in Nat /\ MaxClosed \in Nat /\ MaxEntries \in Nat /\ MaxFaults \in Nat
  /\ FirstClosed <= MaxClosed
BY ConstantsAssumption

LEMMA InitIInv == Init => IInv
<1> SUFFICES ASSUME Init PROVE IInv
  OBVIOUS
<1> USE DEF Init
<1>1. TypeOK
  <2>1. closed \in [Timeframes -> 0 .. MaxClosed] /\ at \in Timeframes
        /\ attempt \in 1 .. Retries /\ lastSeen \in [Timeframes -> 0 .. MaxClosed]
    BY Constants DEF Timeframes
  <2>2. stream \in Seq(Event \cup {Malformed}) /\ Len(stream) = 0
    OBVIOUS
  <2>3. cursor \in 0 .. Len(stream) /\ pending \in [1 .. Len(stream) -> Nat]
    BY <2>2
  <2>4. stored \in [Timeframes -> SUBSET Bars] /\ faults \in 0 .. MaxFaults
    BY Constants
  <2> QED
    BY <2>1, <2>2, <2>3, <2>4 DEF TypeOK
<1>2. BatchesOK
  BY Constants DEF BatchesOK, JobType, IdleJob, Stages, Busy, Timeframes, Bars
<1>3. stream = <<>> /\ \A t \in Timeframes : Published(t) = {}
  BY DEF Published, Range
<1>4. Forwarding
  BY <1>3 DEF Forwarding, SeenBarsAreForwarded, PublishedBarsAreStored
<1>5. Windows
  BY DEF Windows, WindowOK, AnnouncedFeaturesHaveRows, FeaturesReachTheEvent,
         FeaturesHaveHistory
<1>6. Pages
  <2>1. ASSUME NEW j \in Jobs PROVE PageOK(job[j])
    <3>1. job[j] = IdleJob
      OBVIOUS
    <3>2. IdleJob.low = 1 /\ IdleJob.newest = 0 /\ IdleJob.stage = "idle"
      BY DEF IdleJob
    <3>3. IdleJob.low .. IdleJob.newest = {}
      BY <3>2
    <3> QED
      BY <3>1, <3>2, <3>3 DEF PageOK
  <2> QED
    BY <2>1 DEF Pages
<1>7. Deliveries
  BY DEF Deliveries, DeliveredOnce
<1> QED
  BY <1>1, <1>2, <1>4, <1>5, <1>6, <1>7 DEF IInv

\* The steps of one part of the system leave the variables of the others alone.
IngestTypes ==
    /\ closed \in [Timeframes -> 0 .. MaxClosed]
    /\ attached \in BOOLEAN /\ connected \in BOOLEAN
    /\ ipc \in {"connect", "poll", "upsert", "publish"}
    /\ attempt \in 1 .. Retries
    /\ at \in Timeframes
    /\ fresh \subseteq Bars
    /\ lastSeen \in [Timeframes -> 0 .. MaxClosed]
    /\ lost \in [Timeframes -> SUBSET Bars]

TableTypes ==
    /\ stored \in [Timeframes -> SUBSET Bars]
    /\ partial \in [Timeframes -> SUBSET Bars]
    /\ \A t \in Timeframes : partial[t] \subseteq stored[t]
    /\ job \in [Jobs -> JobType]

FeatureTypes ==
    /\ rows \subseteq Timeframes \X Bars
    /\ computed \subseteq [tf : Timeframes, bar : Bars, event : Bars]
    /\ latest \in [Consumers -> Bars \cup {NoBar}]
    /\ fpc \in [Consumers -> Busy \cup {"read", "dead"}]

StreamTypes ==
    /\ stream \in Seq(Event \cup {Malformed})
    /\ cursor \in 0 .. Len(stream)
    /\ pending \in [1 .. Len(stream) -> Nat]
    /\ todo \in [Consumers -> Seq(Nat)]
    /\ \A c \in Consumers : \A n \in DOMAIN todo[c] : todo[c][n] \in DOMAIN stream
    /\ \A c \in Consumers : fpc[c] \in Busy => todo[c] # <<>>

Types == IngestTypes /\ TableTypes /\ FeatureTypes /\ StreamTypes /\ faults \in 0 .. MaxFaults

LEMMA TypesAre == TypeOK /\ BatchesOK <=> Types
BY DEF TypeOK, BatchesOK, Types, IngestTypes, TableTypes, FeatureTypes, StreamTypes, Busy

LEMMA FaultBound ==
  ASSUME faults \in 0 .. MaxFaults, Fault \/ UNCHANGED faults
  PROVE  faults' \in 0 .. MaxFaults
BY Constants DEF Fault

LEMMA CopyBarsAre ==
  ASSUME NEW t \in Timeframes, closed \in [Timeframes -> 0 .. MaxClosed]
  PROVE  /\ CopyBars(t) \subseteq 1 .. closed[t] /\ CopyBars(t) \subseteq Bars
         /\ CopyBars(t) # {} => Max(CopyBars(t)) \in 0 .. MaxClosed
         /\ CopyBars(t) # {} => Max(CopyBars(t)) \in CopyBars(t)
<1>1. closed[t] \in 0 .. MaxClosed
  OBVIOUS
<1>2. CopyBars(t) \subseteq 1 .. closed[t]
  BY <1>1 DEF CopyBars, Positions
<1>3. CopyBars(t) \subseteq Bars
  BY <1>1, <1>2, Constants DEF Bars
<1> QED
  BY <1>1, <1>2, <1>3, MaxBars, Constants

LEMMA TimeframeStep ==
  ASSUME at \in Timeframes, NextTimeframe
  PROVE  at' \in Timeframes
BY Constants DEF NextTimeframe, Timeframes

LEMMA CycleFailsTypes ==
  ASSUME IngestTypes, NEW b \in BOOLEAN, CycleFails(b)
  PROVE  /\ ipc' \in {"connect", "poll", "upsert", "publish"}
         /\ attempt' \in 1 .. Retries /\ at' \in Timeframes /\ fresh' \subseteq Bars
         /\ lost' \in [Timeframes -> SUBSET Bars]
BY Constants DEF IngestTypes, CycleFails, Timeframes

LEMMA IngestTypesStep ==
  ASSUME Types, [Next]_vars
  PROVE  IngestTypes'
<1> USE DEF Types
<1>0. IngestTypes
  OBVIOUS
<1>1. ASSUME UNCHANGED <<terminalVars, ingestVars, lost>> PROVE IngestTypes'
  BY <1>0, <1>1 DEF IngestTypes, terminalVars, ingestVars
<1>2. ASSUME NEW t \in Timeframes, BarCloses(t) PROVE IngestTypes'
  BY <1>0, <1>2, Constants DEF BarCloses, IngestTypes, ingestVars
<1>3. CASE TerminalRestarts
  BY <1>0, <1>3 DEF TerminalRestarts, IngestTypes, ingestVars
<1>4. CASE Connect
  <2>1. UNCHANGED <<closed, at, fresh, lastSeen, lost>>
    BY <1>4 DEF Connect
  <2>2. attempt' \in 1 .. Retries
    BY <1>0, <1>4, Constants DEF Connect, IngestTypes
  <2>3. attached' \in BOOLEAN /\ connected' \in BOOLEAN
        /\ ipc' \in {"connect", "poll", "upsert", "publish"}
    BY <1>0, <1>4 DEF Connect, IngestTypes
  <2> QED
    BY <1>0, <2>1, <2>2, <2>3 DEF IngestTypes
<1>5. CASE Poll
  <2>1. CASE ~attached
    BY <1>0, <1>5, <2>1, CycleFailsTypes DEF Poll, IngestTypes, terminalVars
  <2>2. CASE attached
    <3>1. at \in Timeframes /\ lastSeen[at] \in 0 .. MaxClosed
      BY <1>0 DEF IngestTypes
    <3>2. lastSeen' \in [Timeframes -> 0 .. MaxClosed]
      BY <1>0, <1>5, <2>2, CopyBarsAre DEF Poll, IngestTypes
    <3>3. fresh' \subseteq Bars
      BY <1>0, <1>5, <2>2, <3>1, CopyBarsAre DEF Poll, IngestTypes, FilterNew
    <3>4. lastSeen[at] + 1 .. closed[at] \subseteq Bars
      BY <1>0, <3>1, Constants DEF IngestTypes, Bars
    <3>5. lost' \in [Timeframes -> SUBSET Bars]
      BY <1>0, <1>5, <2>2, <3>4 DEF Poll, IngestTypes
    <3>6. ipc' \in {"connect", "poll", "upsert", "publish"} /\ at' \in Timeframes
      BY <1>5, <2>2, <3>1, TimeframeStep DEF Poll
    <3>7. UNCHANGED <<closed, attached, connected, attempt>>
      BY <1>5, <2>2 DEF Poll, terminalVars
    <3> QED
      BY <1>0, <3>2, <3>3, <3>5, <3>6, <3>7 DEF IngestTypes
  <2> QED
    BY <2>1, <2>2
<1>6. CASE Upsert
  <2>1. UNCHANGED <<closed, attached, connected, lastSeen>>
    BY <1>6 DEF Upsert, terminalVars
  <2>2. CASE CycleFails(connected)
    BY <1>0, <2>1, <2>2, CycleFailsTypes DEF IngestTypes
  <2>3. CASE ipc' = "publish" /\ UNCHANGED <<attempt, at, fresh, lost>>
    BY <1>0, <2>1, <2>3 DEF IngestTypes
  <2> QED
    BY <1>6, <2>2, <2>3 DEF Upsert
<1>7. CASE Publish
  <2>1. UNCHANGED <<closed, attached, connected, lastSeen>>
    BY <1>7 DEF Publish, terminalVars
  <2>2. CASE CycleFails(connected)
    BY <1>0, <2>1, <2>2, CycleFailsTypes DEF IngestTypes
  <2>3. CASE ipc' = "poll" /\ fresh' = {} /\ NextTimeframe /\ UNCHANGED <<attempt, lost>>
    BY <1>0, <2>1, <2>3, TimeframeStep DEF IngestTypes
  <2> QED
    BY <1>7, <2>2, <2>3 DEF Publish
<1>8. CASE RestartDataService
  <2>1. closed' = closed /\ attached' = FALSE /\ connected' = FALSE
        /\ lastSeen' = [t \in Timeframes |-> NoBar] /\ CycleFails(FALSE)
    BY <1>8 DEF RestartDataService
  <2>2. /\ ipc' \in {"connect", "poll", "upsert", "publish"}
        /\ attempt' \in 1 .. Retries /\ at' \in Timeframes /\ fresh' \subseteq Bars
        /\ lost' \in [Timeframes -> SUBSET Bars]
    BY <1>0, <2>1, CycleFailsTypes
  <2>3. lastSeen' \in [Timeframes -> 0 .. MaxClosed]
    BY <2>1, Constants
  <2> QED
    BY <1>0, <2>1, <2>2, <2>3 DEF IngestTypes
<1> QED
  BY <1>1, <1>2, <1>3, <1>4, <1>5, <1>6, <1>7, <1>8
  DEF Next, vars, Ingest, TriggerBackfill, RunBackfill, Begin, SeedFeatures, Backfill,
      FetchPage, StorePage, AddMalformed, Consumer, Read, Handle, DeadLetterMalformed,
      Fetch, StoreRow, Announce, Ack, ProcessingFails, ConsumerDies, RestartConsumer,
      RecreateGroup

LEMMA PositionsAre ==
  ASSUME NEW t \in Timeframes, closed \in [Timeframes -> 0 .. MaxClosed],
         NEW start \in Nat, NEW n \in Nat
  PROVE  Positions(t, start, n) \subseteq Bars
<1>1. closed[t] \in 0 .. MaxClosed
  OBVIOUS
<1> QED
  BY <1>1, Constants DEF Positions, Bars

\* The lowest bar of the job, with the page in hand.
LEMMA NextLow ==
  ASSUME NEW low \in Nat, NEW lo \in Nat, NEW hi \in Int,
         NEW S, S = (lo .. hi) \cup {low}
  PROVE  /\ Min(S) \in Nat
         /\ Min(S) <= low
         /\ lo <= hi => Min(S) <= lo
         /\ \A b \in Nat : b < low /\ b >= Min(S)
              => lo <= b /\ lo <= hi
<1>1. S \subseteq Int /\ low \in S
  OBVIOUS
<1>2. CASE ~(lo <= hi)
  <2>1. \A x \in S : low <= x
    BY <1>2
  <2>2. Min(S) = low
    BY <1>1, <2>1, MinIs
  <2> QED
    BY <1>2, <2>2
<1>3. CASE lo <= hi /\ lo < low
  <2>1. lo \in S /\ \A x \in S : lo <= x
    BY <1>3
  <2>2. Min(S) = lo
    BY <1>1, <2>1, MinIs
  <2> QED
    BY <1>3, <2>2
<1>4. CASE lo <= hi /\ low <= lo
  <2>1. \A x \in S : low <= x
    BY <1>4
  <2>2. Min(S) = low
    BY <1>1, <2>1, MinIs
  <2> QED
    BY <1>4, <2>2
<1> QED
  BY <1>2, <1>3, <1>4

LEMMA InsertBarsTypes ==
  ASSUME TableTypes, NEW t \in Timeframes, NEW bars \in SUBSET Bars, NEW forming,
         InsertBars(t, bars, forming)
  PROVE  /\ stored' \in [Timeframes -> SUBSET Bars]
         /\ partial' \in [Timeframes -> SUBSET Bars]
         /\ \A u \in Timeframes : partial'[u] \subseteq stored'[u]
BY DEF InsertBars, TableTypes

LEMMA JobFields ==
  ASSUME NEW r \in JobType
  PROVE  /\ r.stage \in Stages /\ r.script \in BOOLEAN /\ r.session \in BOOLEAN
         /\ r.tf \in Timeframes /\ r.start \in Nat /\ r.page \in SUBSET Bars
         /\ r.forming \in Nat /\ r.low \in Nat /\ r.newest \in Nat
BY DEF JobType

LEMMA TableTypesStep ==
  ASSUME Types, Pages, [Next]_vars
  PROVE  TableTypes'
<1> USE DEF Types
<1>0. TableTypes
  OBVIOUS
<1>1. ASSUME UNCHANGED <<stored, partial, job>> PROVE TableTypes'
  BY <1>0, <1>1 DEF TableTypes
<1>2. ASSUME UNCHANGED <<stored, partial>>, job' \in [Jobs -> JobType] PROVE TableTypes'
  BY <1>0, <1>2 DEF TableTypes
<1>3. CASE TerminalRestarts
  <2>1. job' \in [Jobs -> JobType]
    BY <1>0, <1>3 DEF TerminalRestarts, TableTypes, JobType
  <2> QED
    BY <1>2, <1>3, <2>1 DEF TerminalRestarts
<1>4. CASE Upsert
  <2>1. job' = job /\ at \in Timeframes /\ fresh \in SUBSET Bars
    BY <1>4 DEF Upsert, IngestTypes
  <2>2. CASE InsertBars(at, fresh, closed[at] + 1)
    BY <1>0, <2>1, <2>2, InsertBarsTypes DEF TableTypes
  <2> QED
    BY <1>1, <1>4, <2>1, <2>2 DEF Upsert
<1>5. CASE RestartDataService
  <2>1. job' \in [Jobs -> JobType]
    BY <1>0, <1>5 DEF RestartDataService, TableTypes, JobType, Stages
  <2> QED
    BY <1>2, <1>5, <2>1 DEF RestartDataService
<1>6. ASSUME NEW j \in Jobs, NEW t \in Timeframes, TriggerBackfill(j, t) \/ RunBackfill(j, t)
      PROVE  TableTypes'
  <2>1. closed[t] + 1 \in Nat /\ closed[t] + 2 \in Nat
    BY Constants DEF IngestTypes
  <2>2. ASSUME NEW b \in BOOLEAN
        PROVE  [IdleJob EXCEPT !.stage = "fetch", !.tf = t, !.script = b, !.session = b,
                   !.newest = closed[t] + 1, !.low = closed[t] + 2] \in JobType
    BY <2>1 DEF IdleJob, JobType, Stages
  <2>3. job' \in [Jobs -> JobType]
    BY <1>0, <1>6, <2>2 DEF TriggerBackfill, RunBackfill, Begin, SetJob, TableTypes
  <2> QED
    BY <1>2, <1>6, <2>3 DEF TriggerBackfill, RunBackfill, Begin
<1>7. ASSUME NEW j \in Jobs, FetchPage(j) PROVE TableTypes'
  <2> DEFINE r == job[j]
  <2>1. r \in JobType /\ closed[r.tf] + 1 \in Nat
    BY <1>0, JobFields, Constants DEF TableTypes, IngestTypes
  <2>2. Positions(r.tf, r.start, ChunkSize) \in SUBSET Bars
    BY <2>1, JobFields, PositionsAre, Constants DEF IngestTypes
  <2>3. /\ [r EXCEPT !.stage = "ok"] \in JobType
        /\ [r EXCEPT !.stage = "upsert", !.page = Positions(r.tf, r.start, ChunkSize),
                     !.forming = closed[r.tf] + 1] \in JobType
    BY <2>1, <2>2 DEF JobType, Stages
  <2>4. job' \in [Jobs -> JobType]
    BY <1>0, <1>7, <2>3 DEF FetchPage, SetJob, TableTypes
  <2> QED
    BY <1>2, <1>7, <2>4 DEF FetchPage
<1>8. ASSUME NEW j \in Jobs, StorePage(j) PROVE TableTypes'
  <2> DEFINE r == job[j]
  <2>1. r \in JobType /\ r.stage = "upsert" /\ PageOK(r)
    BY <1>0, <1>8 DEF TableTypes, StorePage, Pages
  <2>2. CASE Fault /\ SetJob(j, [r EXCEPT !.stage = "died"]) /\ UNCHANGED <<stored, partial>>
    <3>1. [r EXCEPT !.stage = "died"] \in JobType
      BY <2>1 DEF JobType, Stages
    <3> QED
      BY <1>0, <1>2, <2>2, <3>1 DEF SetJob, TableTypes
  <2>3. CASE /\ InsertBars(r.tf, r.page, r.forming)
             /\ SetJob(j, [r EXCEPT
                  !.stage = IF Min(r.page) <= Cutoff \/ Cardinality(r.page) < ChunkSize
                            THEN "ok" ELSE "fetch",
                  !.start = NextStart(r), !.low = Min(r.page \cup {@}), !.page = {}])
    <3>1. NextStart(r) \in Nat
      BY <2>1, JobFields, BarsFinite DEF NextStart
    <3>2. Min(r.page \cup {r.low}) \in Nat
      <4>1. PICK lo \in 1 .. r.forming : r.page = lo .. r.forming - r.start
        BY <2>1 DEF PageOK
      <4>2. lo \in Nat /\ r.forming - r.start \in Int /\ r.low \in Nat
        BY <2>1, JobFields
      <4>3. \A hi \in Int : \A low \in Nat : Min((lo .. hi) \cup {low}) \in Nat
        BY NextLow, <4>2
      <4> HIDE DEF r
      <4> QED
        BY <4>1, <4>2, <4>3
    <3>3. [r EXCEPT
             !.stage = IF Min(r.page) <= Cutoff \/ Cardinality(r.page) < ChunkSize
                       THEN "ok" ELSE "fetch",
             !.start = NextStart(r), !.low = Min(r.page \cup {r.low}), !.page = {}] \in JobType
      BY <2>1, <3>1, <3>2 DEF JobType, Stages
    <3>4. job' \in [Jobs -> JobType]
      BY <1>0, <2>3, <3>3 DEF SetJob, TableTypes
    <3> QED
      BY <1>0, <2>1, <2>3, <3>4, JobFields, InsertBarsTypes DEF TableTypes
  <2> QED
    BY <1>8, <2>2, <2>3 DEF StorePage
<1> QED
  BY <1>1, <1>3, <1>4, <1>5, <1>6, <1>7, <1>8
  DEF Next, vars, Ingest, BarCloses, Connect, Poll, Publish, SeedFeatures, Backfill,
      AddMalformed, Consumer, Read, Handle, DeadLetterMalformed,
      Fetch, StoreRow, Announce, Ack, ProcessingFails, ConsumerDies, RestartConsumer,
      RecreateGroup

\* An entry in hand.
LEMMA InHand ==
  ASSUME Types, NEW c \in Consumers, fpc[c] \in Busy
  PROVE  /\ Current(c) \in 1 .. Len(stream) /\ EventOf(c) = stream[Current(c)]
         /\ EventOf(c) \in Event \cup {Malformed}
         /\ EventOf(c) # Malformed => /\ EventOf(c) \in Event
                                      /\ EventOf(c).tf \in Timeframes
                                      /\ EventOf(c).bar \in Bars
         /\ Tail(todo[c]) \in Seq(Nat) /\ Len(todo[c]) \in Nat \ {0}
         /\ \A n \in DOMAIN Tail(todo[c]) : Tail(todo[c])[n] \in DOMAIN stream
         /\ Len(todo[c]) # 1 => Tail(todo[c]) # <<>>
<1>1. todo[c] \in Seq(Nat) /\ todo[c] # <<>> /\ stream \in Seq(Event \cup {Malformed})
      /\ \A n \in DOMAIN todo[c] : todo[c][n] \in DOMAIN stream
  BY DEF Types, StreamTypes
<1>2. Len(todo[c]) \in Nat \ {0} /\ DOMAIN todo[c] = 1 .. Len(todo[c])
      /\ DOMAIN stream = 1 .. Len(stream)
  BY <1>1, EmptySeq, LenProperties
<1>3. Head(todo[c]) = todo[c][1]
  BY <1>1
<1>4. Current(c) \in 1 .. Len(stream) /\ EventOf(c) = stream[Current(c)]
  BY <1>1, <1>2, <1>3 DEF Current, EventOf
<1>5. EventOf(c) \in Event \cup {Malformed}
  BY <1>1, <1>4, ElementOfSeq
<1>6. Tail(todo[c]) \in Seq(Nat) /\ Len(Tail(todo[c])) = Len(todo[c]) - 1
      /\ \A i \in 1 .. Len(Tail(todo[c])) : Tail(todo[c])[i] = todo[c][i + 1]
  BY <1>1, HeadTailProperties
<1>7. \A n \in DOMAIN Tail(todo[c]) : n \in 1 .. Len(Tail(todo[c])) /\ n + 1 \in DOMAIN todo[c]
  BY <1>2, <1>6, LenProperties
<1>8. \A n \in DOMAIN Tail(todo[c]) : Tail(todo[c])[n] \in DOMAIN stream
  BY <1>1, <1>6, <1>7
<1>9. Len(todo[c]) # 1 => Tail(todo[c]) # <<>>
  <2>1. Len(todo[c]) # 1 => Len(Tail(todo[c])) # 0
    BY <1>2, <1>6
  <2> QED
    BY <2>1, EmptySeq
<1> QED
  BY <1>2, <1>4, <1>5, <1>6, <1>8, <1>9 DEF Event

\* The stream only grows, and a new entry is delivered to nobody.
LEMMA AddGrows ==
  ASSUME StreamTypes, NEW entries \in Seq(Event \cup {Malformed}), Add(entries)
  PROVE  /\ stream' \in Seq(Event \cup {Malformed})
         /\ Len(stream') = Len(stream) + Len(entries)
         /\ \A i \in 1 .. Len(stream) : stream'[i] = stream[i]
         /\ \A i \in 1 .. Len(entries) : stream'[Len(stream) + i] = entries[i]
         /\ \A i \in 1 .. Len(stream') : i > Len(stream) =>
              i - Len(stream) \in 1 .. Len(entries) /\ stream'[i] = entries[i - Len(stream)]
         /\ pending' \in [1 .. Len(stream') -> Nat]
         /\ \A i \in 1 .. Len(stream) : pending'[i] = pending[i]
         /\ \A i \in 1 .. Len(stream') : i > Len(stream) => pending'[i] = 0
<1> DEFINE E == Event \cup {Malformed}
           zeros == [i \in DOMAIN entries |-> 0]
<1>1. stream \in Seq(E) /\ pending \in [1 .. Len(stream) -> Nat] /\ Len(stream) \in Nat
      /\ Len(entries) \in Nat /\ DOMAIN entries = 1 .. Len(entries)
  BY LenProperties DEF StreamTypes
<1>2. pending \in Seq(Nat) /\ Len(pending) = Len(stream)
  BY <1>1, SeqDef
<1>3. zeros \in Seq(Nat) /\ Len(zeros) = Len(entries)
  BY <1>1, SeqDef
<1>4. stream' = stream \o entries /\ pending' = pending \o zeros
  BY DEF Add
<1> HIDE DEF E
<1>5. /\ stream' \in Seq(E) /\ Len(stream') = Len(stream) + Len(entries)
      /\ \A i \in 1 .. Len(stream) + Len(entries) : stream'[i] =
           IF i <= Len(stream) THEN stream[i] ELSE entries[i - Len(stream)]
  BY <1>1, <1>4, ConcatProperties DEF E
<1>6. /\ pending' \in Seq(Nat) /\ Len(pending') = Len(stream) + Len(entries)
      /\ \A i \in 1 .. Len(stream) + Len(entries) : pending'[i] =
           IF i <= Len(stream) THEN pending[i] ELSE zeros[i - Len(stream)]
  <2> HIDE DEF zeros
  <2>1. /\ pending \o zeros \in Seq(Nat) /\ Len(pending \o zeros) = Len(pending) + Len(zeros)
        /\ \A i \in 1 .. Len(pending) + Len(zeros) : (pending \o zeros)[i] =
             IF i <= Len(pending) THEN pending[i] ELSE zeros[i - Len(pending)]
    BY <1>2, <1>3, ConcatProperties
  <2> QED
    BY <1>2, <1>3, <1>4, <2>1
<1>7. pending' \in [1 .. Len(stream') -> Nat]
  BY <1>5, <1>6, LenProperties
<1>8. \A i \in 1 .. Len(stream) + Len(entries) :
        i > Len(stream) => i - Len(stream) \in 1 .. Len(entries)
  BY <1>1
<1>9. \A i \in 1 .. Len(entries) : Len(stream) + i \in 1 .. Len(stream) + Len(entries)
        /\ ~(Len(stream) + i <= Len(stream)) /\ Len(stream) + i - Len(stream) = i
  BY <1>1
<1>10. \A i \in 1 .. Len(stream) : i \in 1 .. Len(stream) + Len(entries) /\ i <= Len(stream)
  BY <1>1
<1>11. \A i \in 1 .. Len(stream) + Len(entries) : i > Len(stream) =>
         ~(i <= Len(stream)) /\ zeros[i - Len(stream)] = 0
  BY <1>1, <1>8
<1> HIDE DEF zeros
<1>12. \A i \in 1 .. Len(stream) : stream'[i] = stream[i] /\ pending'[i] = pending[i]
  BY <1>5, <1>6, <1>10
<1>13. \A i \in 1 .. Len(entries) : stream'[Len(stream) + i] = entries[i]
  BY <1>5, <1>9
<1>14. \A i \in 1 .. Len(stream') : i > Len(stream) =>
         /\ i - Len(stream) \in 1 .. Len(entries) /\ stream'[i] = entries[i - Len(stream)]
         /\ pending'[i] = 0
  BY <1>5, <1>6, <1>8, <1>11
<1> QED
  BY <1>5, <1>7, <1>12, <1>13, <1>14 DEF E

\* The batch of a cycle, or what the pipeline sent of it.
LEMMA PartAnnounces ==
  ASSUME NEW t \in Timeframes, NEW S \in SUBSET Bars, NEW n \in 0 .. Cardinality(S)
  PROVE  /\ SubSeq(Entries(t, S), 1, n) \in Seq(Event)
         /\ Len(SubSeq(Entries(t, S), 1, n)) = n
         /\ \A i \in 1 .. n : /\ SubSeq(Entries(t, S), 1, n)[i].tf = t
                              /\ SubSeq(Entries(t, S), 1, n)[i].bar \in S
<1>1. Cardinality(S) \in Nat /\ n \in Int /\ 1 \in Int
  BY Ranks
<1>2. /\ Entries(t, S) \in Seq(Event) /\ Len(Entries(t, S)) = Cardinality(S)
      /\ \A i \in 1 .. Cardinality(S) : Entries(t, S)[i].tf = t /\ Entries(t, S)[i].bar \in S
  BY EntriesAnnounce
<1>3. \A i \in 1 .. n : Entries(t, S)[i] \in Event /\ i \in 1 .. Cardinality(S)
  BY <1>1, <1>2, ElementOfSeq
<1>4. /\ SubSeq(Entries(t, S), 1, n) \in Seq(Event)
      /\ Len(SubSeq(Entries(t, S), 1, n)) = (IF 1 <= n THEN n - 1 + 1 ELSE 0)
      /\ \A i \in 1 .. n - 1 + 1 : SubSeq(Entries(t, S), 1, n)[i] = Entries(t, S)[1 + i - 1]
  BY <1>1, <1>3, SubSeqProperties
<1>5. \A i \in 1 .. n : i \in 1 .. n - 1 + 1 /\ 1 + i - 1 = i
  BY <1>1
<1> QED
  BY <1>1, <1>2, <1>3, <1>4, <1>5

FromCycle(e) == e \in Event /\ ipc = "publish" /\ e.tf = at /\ e.bar \in fresh

\* Only a cycle that publishes, or a malformed entry, adds to the stream.
LEMMA Additions ==
  ASSUME Types, Publish \/ AddMalformed
  PROVE  \E entries \in Seq(Event \cup {Malformed}) :
            /\ Add(entries)
            /\ \A i \in 1 .. Len(entries) : entries[i] = Malformed \/ FromCycle(entries[i])
<1>1. CASE AddMalformed
  <2>1. <<Malformed>> \in Seq(Event \cup {Malformed}) /\ Len(<<Malformed>>) = 1
        /\ <<Malformed>>[1] = Malformed
    OBVIOUS
  <2>2. \A i \in 1 .. Len(<<Malformed>>) : <<Malformed>>[i] = Malformed
    BY <2>1
  <2>3. Add(<<Malformed>>)
    BY <1>1 DEF AddMalformed
  <2> QED
    BY <2>1, <2>2, <2>3
<1>2. CASE Publish
  <2>1. at \in Timeframes /\ fresh \in SUBSET Bars /\ ipc = "publish"
    BY <1>2 DEF Publish, Types, IngestTypes
  <2>2. ASSUME NEW s \in Seq(Event), Add(s),
               \A i \in 1 .. Len(s) : s[i].tf = at /\ s[i].bar \in fresh
        PROVE  \E entries \in Seq(Event \cup {Malformed}) :
                  /\ Add(entries)
                  /\ \A i \in 1 .. Len(entries) : entries[i] = Malformed \/ FromCycle(entries[i])
    <3>1. s \in Seq(Event \cup {Malformed})
      BY SeqMonotonic
    <3>2. \A i \in 1 .. Len(s) : FromCycle(s[i])
      BY <2>1, <2>2, ElementOfSeq DEF FromCycle
    <3> QED
      BY <2>2, <3>1, <3>2
  <2>3. CASE Add(Entries(at, fresh))
    BY <2>1, <2>2, <2>3, EntriesAnnounce
  <2>4. CASE \E n \in 0 .. Cardinality(fresh) : Add(SubSeq(Entries(at, fresh), 1, n))
    BY <2>1, <2>2, <2>4, PartAnnounces
  <2> QED
    BY <1>2, <2>3, <2>4 DEF Publish
<1> QED
  BY <1>1, <1>2

LEMMA OthersKeepStream ==
  ASSUME [Next]_vars, ~Publish, ~AddMalformed
  PROVE  stream' = stream
BY DEF Next, vars, Ingest, BarCloses, TerminalRestarts, Connect, Poll, Upsert, RestartDataService,
      TriggerBackfill, RunBackfill, Begin, Backfill, FetchPage, StorePage, SeedFeatures,
      Consumer, Read, Handle, DeadLetterMalformed, Fetch, StoreRow, Announce, Ack,
      ProcessingFails, ConsumerDies, RestartConsumer, RecreateGroup

LEMMA StreamGrows ==
  ASSUME Types, [Next]_vars
  PROVE  /\ stream' \in Seq(Event \cup {Malformed})
         /\ Len(stream) \in Nat /\ Len(stream') \in Nat /\ Len(stream) <= Len(stream')
         /\ \A i \in 1 .. Len(stream) : i \in 1 .. Len(stream') /\ stream'[i] = stream[i]
<1>1. stream \in Seq(Event \cup {Malformed}) /\ Len(stream) \in Nat
  BY LenProperties DEF Types, StreamTypes
<1>2. CASE Publish \/ AddMalformed
  <2>1. PICK entries \in Seq(Event \cup {Malformed}) : Add(entries)
    BY <1>2, Additions
  <2>2. Len(entries) \in Nat
    BY LenProperties
  <2> QED
    BY <1>1, <2>1, <2>2, AddGrows DEF Types
<1> QED
  BY <1>1, <1>2, OthersKeepStream

LEMMA ReadBatch ==
  ASSUME Types, NEW c \in Consumers, Read(c)
  PROVE  \E last \in cursor + 1 .. Len(stream) :
           /\ cursor' = last /\ last \in Nat
           /\ todo' = [todo EXCEPT ![c] = [i \in 1 .. last - cursor |-> cursor + i]]
           /\ pending' = [i \in DOMAIN pending |->
                            IF i \in cursor + 1 .. last THEN pending[i] + 1 ELSE pending[i]]
           /\ fpc' = [fpc EXCEPT ![c] = "fetch"]
<1> DEFINE last == Min({Len(stream), cursor + BatchSize})
<1>1. cursor \in Nat /\ Len(stream) \in Nat /\ cursor < Len(stream) /\ BatchSize \in Nat \ {0}
  BY Constants, LenProperties DEF Types, StreamTypes, Read
<1>2. last \in cursor + 1 .. Len(stream) /\ last \in Nat
  <2>1. last = IF Len(stream) <= cursor + BatchSize THEN Len(stream) ELSE cursor + BatchSize
    BY <1>1, MinTwo
  <2> QED
    BY <1>1, <2>1
<1> QED
  BY <1>2 DEF Read, Goto

LEMMA StreamTypesStep ==
  ASSUME Types, [Next]_vars
  PROVE  StreamTypes'
<1> USE DEF Types
<1>0. StreamTypes /\ Len(stream) \in Nat /\ DOMAIN stream = 1 .. Len(stream)
  BY LenProperties DEF StreamTypes
<1>1. ASSUME UNCHANGED <<stream, cursor, pending, todo, fpc>> PROVE StreamTypes'
  BY <1>0, <1>1 DEF StreamTypes
<1>2. ASSUME Publish \/ AddMalformed PROVE StreamTypes'
  <2>1. PICK entries \in Seq(Event \cup {Malformed}) : Add(entries)
    BY <1>2, Additions
  <2>2. UNCHANGED <<cursor, todo, fpc>>
    BY <1>2 DEF Publish, AddMalformed
  <2>3. /\ stream' \in Seq(Event \cup {Malformed}) /\ pending' \in [1 .. Len(stream') -> Nat]
        /\ Len(stream') \in Nat /\ Len(stream) <= Len(stream')
        /\ DOMAIN stream' = 1 .. Len(stream')
        /\ DOMAIN stream \subseteq DOMAIN stream'
    BY <1>0, <2>1, AddGrows, StreamGrows, LenProperties
  <2>4. cursor \in 0 .. Len(stream')
    BY <1>0, <2>3 DEF StreamTypes
  <2> QED
    BY <1>0, <2>2, <2>3, <2>4 DEF StreamTypes
<1>3. ASSUME NEW c \in Consumers, Read(c) PROVE StreamTypes'
  <2>1. PICK last \in cursor + 1 .. Len(stream) :
           /\ cursor' = last /\ last \in Nat
           /\ todo' = [todo EXCEPT ![c] = [i \in 1 .. last - cursor |-> cursor + i]]
           /\ pending' = [i \in DOMAIN pending |->
                            IF i \in cursor + 1 .. last THEN pending[i] + 1 ELSE pending[i]]
           /\ fpc' = [fpc EXCEPT ![c] = "fetch"]
    BY <1>3, ReadBatch
  <2> DEFINE b == [i \in 1 .. last - cursor |-> cursor + i]
  <2>2. cursor \in Nat /\ last - cursor \in Nat \ {0} /\ cursor < last /\ last <= Len(stream)
    BY <1>0 DEF StreamTypes
  <2>3. b \in Seq(Nat) /\ Len(b) = last - cursor
    BY <2>2, SeqDef
  <2>4. b # <<>> /\ \A n \in DOMAIN b : b[n] \in DOMAIN stream
    BY <1>0, <2>2, <2>3, EmptySeq
  <2>5. stream' = stream
    BY <1>3 DEF Read
  <2>6. pending' \in [1 .. Len(stream) -> Nat] /\ cursor' \in 0 .. Len(stream)
    BY <1>0, <2>1, <2>2 DEF StreamTypes
  <2> HIDE DEF b
  <2>7. todo' = [todo EXCEPT ![c] = b]
    BY <2>1 DEF b
  <2>8. todo' \in [Consumers -> Seq(Nat)]
        /\ \A d \in Consumers : \A n \in DOMAIN todo'[d] : todo'[d][n] \in DOMAIN stream
    BY <1>0, <2>3, <2>4, <2>7 DEF StreamTypes
  <2>9. \A d \in Consumers : fpc'[d] \in Busy => todo'[d] # <<>>
    BY <1>0, <2>1, <2>4, <2>7 DEF StreamTypes, FeatureTypes
  <2> QED
    BY <1>0, <2>5, <2>6, <2>8, <2>9 DEF StreamTypes
<1>4. ASSUME NEW c \in Consumers, fpc[c] \in Busy, NextEntry(c), UNCHANGED <<stream, cursor>>,
             pending' \in [1 .. Len(stream) -> Nat]
      PROVE  StreamTypes'
  <2>1. /\ Tail(todo[c]) \in Seq(Nat) /\ Len(todo[c]) \in Nat \ {0}
        /\ \A n \in DOMAIN Tail(todo[c]) : Tail(todo[c])[n] \in DOMAIN stream
        /\ Len(todo[c]) # 1 => Tail(todo[c]) # <<>>
    BY <1>4, InHand
  <2>2. todo' = [todo EXCEPT ![c] = Tail(todo[c])]
        /\ fpc' = [fpc EXCEPT ![c] = IF Len(todo[c]) = 1 THEN "read" ELSE "fetch"]
    BY <1>4 DEF NextEntry, Goto
  <2>3. todo' \in [Consumers -> Seq(Nat)]
        /\ \A d \in Consumers : \A n \in DOMAIN todo'[d] : todo'[d][n] \in DOMAIN stream
    BY <1>0, <2>1, <2>2 DEF StreamTypes
  <2>4. \A d \in Consumers : fpc'[d] \in Busy => todo'[d] # <<>>
    BY <1>0, <2>1, <2>2 DEF StreamTypes, FeatureTypes, Busy
  <2> QED
    BY <1>0, <1>4, <2>3, <2>4 DEF StreamTypes
<1>5. ASSUME NEW c \in Consumers, NEW l, Goto(c, l), l \in Busy => fpc[c] \in Busy,
             UNCHANGED <<stream, cursor, pending, todo>>
      PROVE  StreamTypes'
  <2>1. \A d \in Consumers : fpc'[d] \in Busy => todo[d] # <<>>
    BY <1>0, <1>5 DEF StreamTypes, FeatureTypes, Goto
  <2> QED
    BY <1>0, <1>5, <2>1 DEF StreamTypes
<1>6. ASSUME NEW c \in Consumers, Handle(c) PROVE StreamTypes'
  <2>1. CASE Ack(c)
    <3>1. pending' \in [1 .. Len(stream) -> Nat]
      BY <1>0, <2>1 DEF Ack, StreamTypes
    <3> QED
      BY <1>4, <2>1, <3>1 DEF Ack, Busy
  <2>2. CASE ~Ack(c)
    BY <1>5, <1>6, <2>2 DEF Handle, DeadLetterMalformed, Fetch, StoreRow, Announce, Busy
  <2> QED
    BY <2>1, <2>2
<1>7. ASSUME NEW c \in Consumers, ProcessingFails(c) PROVE StreamTypes'
  <2>1. pending' \in [1 .. Len(stream) -> Nat]
    BY <1>0, <1>7 DEF ProcessingFails, StreamTypes
  <2> QED
    BY <1>4, <1>5, <1>7, <2>1 DEF ProcessingFails, Busy
<1>8. ASSUME NEW c \in Consumers, ConsumerDies(c) PROVE StreamTypes'
  BY <1>5, <1>8 DEF ConsumerDies, Busy
<1>9. ASSUME NEW c \in Consumers, RestartConsumer(c) PROVE StreamTypes'
  <2>1. todo' = [todo EXCEPT ![c] = <<>>] /\ fpc' = [fpc EXCEPT ![c] = "read"]
        /\ UNCHANGED <<stream, cursor, pending>>
    BY <1>9 DEF RestartConsumer, Goto
  <2>2. todo' \in [Consumers -> Seq(Nat)]
        /\ \A d \in Consumers : \A n \in DOMAIN todo'[d] : todo'[d][n] \in DOMAIN stream
    BY <1>0, <2>1 DEF StreamTypes
  <2>3. \A d \in Consumers : fpc'[d] \in Busy => todo'[d] # <<>>
    BY <1>0, <2>1 DEF StreamTypes, FeatureTypes, Busy
  <2> QED
    BY <1>0, <2>1, <2>2, <2>3 DEF StreamTypes
<1>10. CASE RecreateGroup
  <2>1. /\ UNCHANGED <<stream, todo, fpc>> /\ cursor' = 0
        /\ pending' = [i \in DOMAIN pending |-> 0]
    BY <1>10 DEF RecreateGroup
  <2>2. cursor' \in 0 .. Len(stream) /\ pending' \in [1 .. Len(stream) -> Nat]
    BY <1>0, <2>1 DEF StreamTypes
  <2> QED
    BY <1>0, <2>1, <2>2 DEF StreamTypes
<1> QED
  BY <1>1, <1>2, <1>3, <1>6, <1>7, <1>8, <1>9, <1>10
  DEF Next, vars, featureVars, Ingest, BarCloses, TerminalRestarts, Connect, Poll, Upsert,
      RestartDataService, TriggerBackfill, RunBackfill, Begin, Backfill, FetchPage,
      StorePage, SeedFeatures, Consumer

LEMMA FeatureTypesStep ==
  ASSUME Types, Windows, [Next]_vars
  PROVE  FeatureTypes'
<1> USE DEF Types
<1>0. FeatureTypes
  OBVIOUS
<1>1. ASSUME UNCHANGED <<rows, computed, latest, fpc>> PROVE FeatureTypes'
  BY <1>0, <1>1 DEF FeatureTypes
<1>2. ASSUME NEW c \in Consumers, NEW l \in Busy \cup {"read", "dead"}, Goto(c, l),
             UNCHANGED <<rows, computed, latest>>
      PROVE  FeatureTypes'
  BY <1>0, <1>2 DEF FeatureTypes, Goto
<1>3. ASSUME NEW t \in Timeframes, SeedFeatures(t) PROVE FeatureTypes'
  <2>1. stored[t] \subseteq Bars
    BY DEF TableTypes
  <2>2. rows' \subseteq Timeframes \X Bars
    <3> DEFINE S == {x \in stored[t] : Cardinality({y \in stored[t] : y < x}) > WarmUp}
    <3>1. S \subseteq Bars
      BY <2>1
    <3>2. rows \subseteq Timeframes \X Bars
      BY <1>0 DEF FeatureTypes
    <3>3. rows' = rows \cup {<<t, b>> : b \in S}
      BY <1>3 DEF SeedFeatures
    <3> HIDE DEF S
    <3> QED
      BY <3>1, <3>2, <3>3
  <2> QED
    BY <1>0, <1>3, <2>2 DEF SeedFeatures, FeatureTypes
<1>4. ASSUME NEW c \in Consumers, fpc[c] \in {"store", "announce"}
      PROVE  /\ EventOf(c).tf \in Timeframes /\ EventOf(c).bar \in Bars
             /\ latest[c] \in Bars
  <2>1. /\ EventOf(c) # Malformed /\ latest[c] >= EventOf(c).bar
        /\ latest[c] \in Bars \cup {NoBar}
    BY <1>0, <1>4 DEF Windows, WindowOK, FeatureTypes
  <2>2. EventOf(c).tf \in Timeframes /\ EventOf(c).bar \in Bars
    BY <1>4, <2>1, InHand DEF Busy
  <2> QED
    BY <2>1, <2>2, Constants DEF Bars
<1>5. ASSUME NEW c \in Consumers, Handle(c) PROVE FeatureTypes'
  <2>1. CASE DeadLetterMalformed(c) \/ Ack(c)
    BY <1>2, <2>1 DEF DeadLetterMalformed, Ack, NextEntry, Busy
  <2>2. CASE Fetch(c)
    <3>1. EventOf(c) # Malformed /\ EventOf(c).tf \in Timeframes
      BY <2>2, InHand DEF Fetch, Busy
    <3>2. FetchBars(c) \in SUBSET Bars
      BY <3>1 DEF FetchBars, TableTypes
    <3>3. FetchBars(c) # {} => Max(FetchBars(c)) \in Bars
      BY <3>2, MaxBars
    <3> QED
      BY <1>0, <2>2, <3>3 DEF Fetch, Goto, FeatureTypes, Busy
  <2>3. CASE StoreRow(c)
    <3>1. RowKey(c) \in Timeframes \X Bars
      BY <1>4, <2>3 DEF StoreRow, RowKey
    <3> QED
      BY <1>0, <2>3, <3>1 DEF StoreRow, Goto, FeatureTypes, Busy
  <2>4. CASE Announce(c)
    <3>1. [tf |-> EventOf(c).tf, bar |-> latest[c], event |-> EventOf(c).bar]
            \in [tf : Timeframes, bar : Bars, event : Bars]
      BY <1>4, <2>4 DEF Announce
    <3> QED
      BY <1>0, <2>4, <3>1 DEF Announce, Goto, FeatureTypes, Busy
  <2> QED
    BY <1>5, <2>1, <2>2, <2>3, <2>4 DEF Handle
<1>6. ASSUME NEW c \in Consumers, Read(c) \/ ProcessingFails(c) \/ ConsumerDies(c) \/ RestartConsumer(c)
      PROVE  FeatureTypes'
  BY <1>2, <1>6 DEF Read, ProcessingFails, ConsumerDies, RestartConsumer, NextEntry, Busy
<1> QED
  BY <1>1, <1>3, <1>5, <1>6
  DEF Next, vars, featureVars, Ingest, BarCloses, TerminalRestarts, Connect, Poll, Upsert, Publish,
      RestartDataService, TriggerBackfill, RunBackfill, Begin, Backfill, FetchPage,
      StorePage, AddMalformed, Consumer, RecreateGroup

LEMMA FaultsStep ==
  ASSUME Types, [Next]_vars
  PROVE  faults' \in 0 .. MaxFaults
<1>1. faults \in 0 .. MaxFaults
  BY DEF Types
<1>2. Fault \/ UNCHANGED faults
  BY DEF Next, vars, Ingest, BarCloses, TerminalRestarts, Connect, Poll, Upsert, Publish,
      RestartDataService, TriggerBackfill, RunBackfill, Begin, Backfill, FetchPage,
      StorePage, SeedFeatures, AddMalformed, Consumer, Read, Handle, DeadLetterMalformed,
      Fetch, StoreRow, Announce, Ack, ProcessingFails, ConsumerDies, RestartConsumer,
      RecreateGroup
<1> QED
  BY <1>1, <1>2, FaultBound

LEMMA TypesStep ==
  ASSUME Types, Windows, Pages, [Next]_vars
  PROVE  Types'
BY IngestTypesStep, TableTypesStep, FeatureTypesStep, StreamTypesStep, FaultsStep DEF Types

-----------------------------------------------------------------------------
(* Bars on their way to the stream                                          *)

-----------------------------------------------------------------------------
(* Nothing that was written is taken back                                   *)

LEMMA StoredGrows ==
  ASSUME Types, [Next]_vars
  PROVE  /\ stored' \in [Timeframes -> SUBSET Bars]
         /\ \A t \in Timeframes : stored[t] \subseteq stored'[t]
<1>1. TableTypes
  BY DEF Types
<1>2. ASSUME NEW t \in Timeframes, NEW bars, NEW forming, InsertBars(t, bars, forming)
      PROVE  \A u \in Timeframes : stored[u] \subseteq stored'[u]
  BY <1>1, <1>2 DEF InsertBars, TableTypes
<1>3. ASSUME Upsert PROVE \A u \in Timeframes : stored[u] \subseteq stored'[u]
  BY <1>1, <1>2, <1>3 DEF Upsert, Types, IngestTypes
<1>4. ASSUME NEW j \in Jobs, StorePage(j)
      PROVE  \A u \in Timeframes : stored[u] \subseteq stored'[u]
  <2>1. job[j].tf \in Timeframes
    BY <1>1, JobFields DEF TableTypes
  <2> QED
    BY <1>1, <1>2, <1>4, <2>1 DEF StorePage
<1>5. stored' = stored \/ Upsert \/ \E j \in Jobs : StorePage(j)
  BY DEF Next, vars, Ingest, BarCloses, TerminalRestarts, Connect, Poll, Publish,
      RestartDataService, TriggerBackfill, RunBackfill, Begin, Backfill, FetchPage,
      SeedFeatures, AddMalformed, Consumer, Read, Handle, DeadLetterMalformed,
      Fetch, StoreRow, Announce, Ack, ProcessingFails, ConsumerDies, RestartConsumer,
      RecreateGroup
<1>6. \A t \in Timeframes : stored[t] \subseteq stored'[t]
  BY <1>3, <1>4, <1>5
<1>7. stored' \in [Timeframes -> SUBSET Bars]
  <2>1. CASE UNCHANGED stored
    BY <1>1, <2>1 DEF TableTypes
  <2>2. CASE Upsert
    BY <1>1, <2>2, InsertBarsTypes DEF Upsert, Types, IngestTypes, TableTypes
  <2>3. ASSUME NEW j \in Jobs, StorePage(j) PROVE stored' \in [Timeframes -> SUBSET Bars]
    <3>1. job[j].tf \in Timeframes /\ job[j].page \in SUBSET Bars
      BY <1>1, JobFields DEF TableTypes
    <3> QED
      BY <1>1, <2>3, <3>1, InsertBarsTypes DEF StorePage, TableTypes
  <2> QED
    BY <1>5, <2>1, <2>2, <2>3
<1> QED
  BY <1>6, <1>7

LEMMA RowsGrow ==
  ASSUME [Next]_vars
  PROVE  rows \subseteq rows'
BY DEF Next, vars, featureVars, Ingest, BarCloses, TerminalRestarts, Connect, Poll, Upsert, Publish,
      RestartDataService, TriggerBackfill, RunBackfill, Begin, Backfill, FetchPage,
      StorePage, SeedFeatures, AddMalformed, Consumer, Read, Handle, DeadLetterMalformed,
      Fetch, StoreRow, Announce, Ack, ProcessingFails, ConsumerDies, RestartConsumer,
      RecreateGroup

LEMMA PublishedAre ==
  ASSUME Types, NEW t \in Timeframes, NEW b
  PROVE  b \in Published(t) <=>
           b \in Bars /\ \E i \in 1 .. Len(stream) : stream[i] = [tf |-> t, bar |-> b]
<1>1. DOMAIN stream = 1 .. Len(stream)
  BY LenProperties DEF Types, StreamTypes
<1> QED
  BY <1>1 DEF Published, Range

LEMMA PublishedGrows ==
  ASSUME Types, Types', [Next]_vars, NEW t \in Timeframes
  PROVE  Published(t) \subseteq Published(t)'
<1>1. ASSUME NEW b \in Published(t) PROVE b \in Published(t)'
  <2>1. PICK i \in 1 .. Len(stream) : stream[i] = [tf |-> t, bar |-> b]
    BY <1>1, PublishedAre
  <2>2. i \in 1 .. Len(stream') /\ stream'[i] = [tf |-> t, bar |-> b]
    BY <2>1, StreamGrows
  <2>3. DOMAIN stream' = 1 .. Len(stream')
    BY LenProperties DEF Types, StreamTypes
  <2> QED
    BY <1>1, <2>2, <2>3 DEF Published, Range
<1> QED
  BY <1>1

-----------------------------------------------------------------------------
(* Bars on their way to the stream                                          *)

LEMMA PublishedStoredStep ==
  ASSUME Types, Types', Forwarding, [Next]_vars
  PROVE  PublishedBarsAreStored'
<1> SUFFICES ASSUME NEW t \in Timeframes, NEW b \in Published(t)' PROVE b \in stored'[t]
  BY DEF PublishedBarsAreStored
<1>1. stored[t] \subseteq stored'[t]
  BY StoredGrows
<1>2. CASE b \in Published(t)
  BY <1>1, <1>2 DEF Forwarding, PublishedBarsAreStored
<1>3. CASE b \notin Published(t)
  <2>1. DOMAIN stream' = 1 .. Len(stream')
    BY LenProperties DEF Types, StreamTypes
  <2>2. b \in Bars /\ \E i \in 1 .. Len(stream') : stream'[i] = [tf |-> t, bar |-> b]
    BY <2>1 DEF Published, Range
  <2>3. PICK i \in 1 .. Len(stream') : stream'[i] = [tf |-> t, bar |-> b]
    BY <2>2
  <2>4. Publish \/ AddMalformed
    BY <1>3, <2>2, OthersKeepStream, PublishedAre
  <2>5. PICK entries \in Seq(Event \cup {Malformed}) :
            /\ Add(entries)
            /\ \A n \in 1 .. Len(entries) : entries[n] = Malformed \/ FromCycle(entries[n])
    BY <2>4, Additions
  <2>6. i > Len(stream)
    <3>1. i \notin 1 .. Len(stream)
      BY <1>3, <2>2, <2>3, StreamGrows, PublishedAre
    <3> QED
      BY <3>1, StreamGrows
  <2>7. i - Len(stream) \in 1 .. Len(entries) /\ stream'[i] = entries[i - Len(stream)]
    BY <2>5, <2>6, AddGrows DEF Types
  <2>8. [tf |-> t, bar |-> b] # Malformed
    BY <2>2, MalformedAssumption
  <2>9. FromCycle([tf |-> t, bar |-> b])
    BY <2>3, <2>5, <2>7, <2>8
  <2>10. ipc = "publish" /\ t = at /\ b \in fresh
    BY <2>9 DEF FromCycle
  <2>11. b \in stored[t]
    BY <2>10 DEF Forwarding
  <2> QED
    BY <1>1, <2>11
<1> QED
  BY <1>2, <1>3

\* What a cycle has in hand is stored before it is published.
LEMMA InHandStep ==
  ASSUME Types, Forwarding, [Next]_vars
  PROVE  /\ ipc' \in {"poll", "connect"} => fresh' = {}
         /\ ipc' = "publish" => fresh' \subseteq stored'[at']
<1>0. /\ ipc \in {"poll", "connect"} => fresh = {}
      /\ ipc = "publish" => fresh \subseteq stored[at]
      /\ ipc \in {"connect", "poll", "upsert", "publish"} /\ at \in Timeframes
  BY DEF Forwarding, Types, IngestTypes
<1>1. ASSUME UNCHANGED <<ipc, at, fresh>>
      PROVE  /\ ipc' \in {"poll", "connect"} => fresh' = {}
             /\ ipc' = "publish" => fresh' \subseteq stored'[at']
  BY <1>0, <1>1, StoredGrows
<1>2. ASSUME NEW b \in BOOLEAN, CycleFails(b)
      PROVE  fresh' = {}
  BY <1>2 DEF CycleFails
<1>3. CASE Connect
  BY <1>0, <1>3 DEF Connect
<1>4. CASE Poll
  <2>1. CASE ~attached
    BY <1>4, <2>1 DEF Poll, CycleFails
  <2>2. CASE attached
    BY <1>4, <2>2 DEF Poll
  <2> QED
    BY <2>1, <2>2
<1>5. CASE Upsert
  <2>1. CASE CycleFails(connected)
    BY <2>1 DEF CycleFails
  <2>2. CASE InsertBars(at, fresh, closed[at] + 1) /\ ipc' = "publish" /\ UNCHANGED <<at, fresh>>
    <3>1. stored \in [Timeframes -> SUBSET Bars]
      BY DEF Types, TableTypes
    <3> QED
      BY <1>0, <2>2, <3>1 DEF InsertBars
  <2> QED
    BY <1>5, <2>1, <2>2 DEF Upsert
<1>6. CASE Publish \/ RestartDataService
  BY <1>6 DEF Publish, RestartDataService, CycleFails
<1> QED
  BY <1>1, <1>3, <1>4, <1>5, <1>6
  DEF Next, vars, ingestVars, Ingest, BarCloses, TerminalRestarts,
      TriggerBackfill, RunBackfill, Begin, Backfill, FetchPage,
      StorePage, SeedFeatures, AddMalformed, Consumer, Read, Handle, DeadLetterMalformed,
      Fetch, StoreRow, Announce, Ack, ProcessingFails, ConsumerDies, RestartConsumer,
      RecreateGroup

\* The newest closed bar is always among those a poll copies.
LEMMA CopyReachesNewest ==
  ASSUME NEW t \in Timeframes, closed \in [Timeframes -> 0 .. MaxClosed], CopyBars(t) # {}
  PROVE  Max(CopyBars(t)) \in 1 .. closed[t]
BY CopyBarsAre

\* The whole cycle is in the stream, and not only a part of its pipeline.
LEMMA WholeCycle ==
  ASSUME Types, Types', NEW t \in Timeframes, t = at, Add(Entries(t, fresh)),
         NEW b \in fresh
  PROVE  b \in Published(t)'
<1>1. fresh \in SUBSET Bars /\ b \in Bars
  BY DEF Types, IngestTypes
<1> DEFINE E == Entries(t, fresh)
<1>2. E \in Seq(Event) /\ Len(E) = Cardinality(fresh)
      /\ \E i \in 1 .. Cardinality(fresh) : E[i] = [tf |-> t, bar |-> b]
  BY <1>1, EntriesAnnounce
<1>3. PICK i \in 1 .. Len(E) : E[i] = [tf |-> t, bar |-> b]
  BY <1>2
<1>4. E \in Seq(Event \cup {Malformed})
  BY <1>2, SeqMonotonic
<1> HIDE DEF E
<1>5. stream'[Len(stream) + i] = [tf |-> t, bar |-> b] /\ Len(stream') = Len(stream) + Len(E)
  BY <1>3, <1>4, AddGrows DEF Types, E
<1>6. DOMAIN stream' = 1 .. Len(stream') /\ Len(stream) \in Nat /\ Len(E) \in Nat
  BY <1>4, LenProperties DEF Types, StreamTypes
<1>7. Len(stream) + i \in DOMAIN stream'
  BY <1>5, <1>6
<1>8. [tf |-> t, bar |-> b] \in Range(stream')
  BY <1>5, <1>7 DEF Range
<1>9. b \in {x \in Bars : [tf |-> t, bar |-> x] \in Range(stream')}
  BY <1>1, <1>8
<1> QED
  BY <1>9 DEF Published

LEMMA SeenStep ==
  ASSUME Types, Types', Forwarding, [Next]_vars
  PROVE  SeenBarsAreForwarded'
<1> SUFFICES ASSUME NEW t \in Timeframes, NEW b \in 1 .. lastSeen'[t]
             PROVE  \/ b \in stored'[t] /\ b \in Published(t)'
                    \/ t = at' /\ b \in fresh'
                    \/ b \in lost'[t]
  BY DEF SeenBarsAreForwarded, Waiting
<1>0. /\ IngestTypes /\ IngestTypes'
      /\ at \in Timeframes /\ lastSeen[t] \in 0 .. MaxClosed /\ closed[t] \in 0 .. MaxClosed
      /\ closed \in [Timeframes -> 0 .. MaxClosed]
  BY DEF Types, IngestTypes
<1>1. stored[t] \subseteq stored'[t] /\ Published(t) \subseteq Published(t)'
  BY StoredGrows, PublishedGrows
<1>2. ASSUME b \in 1 .. lastSeen[t]
      PROVE  \/ b \in stored'[t] /\ b \in Published(t)'
             \/ t = at /\ b \in fresh
             \/ b \in lost[t]
  BY <1>1, <1>2 DEF Forwarding, SeenBarsAreForwarded, Waiting
<1>3. CASE UNCHANGED <<at, fresh, lastSeen, lost>>
  BY <1>2, <1>3
<1>4. ASSUME NEW v \in BOOLEAN, CycleFails(v), UNCHANGED lastSeen
      PROVE  \/ b \in stored'[t] /\ b \in Published(t)'
             \/ b \in lost'[t]
  <2>1. /\ lost[t] \subseteq lost'[t]
        /\ t = at => fresh \subseteq lost'[t]
    BY <1>0, <1>4 DEF CycleFails, IngestTypes
  <2> QED
    BY <1>2, <1>4, <2>1
<1>5. CASE Poll
  <2>1. CASE ~attached
    <3>1. connected \in BOOLEAN
      BY <1>0 DEF IngestTypes
    <3> QED
      BY <1>4, <1>5, <2>1, <3>1 DEF Poll
  <2>2. CASE attached
    <3>1. fresh = {}
      BY <1>5 DEF Poll, Forwarding
    <3>2. /\ lastSeen' = [lastSeen EXCEPT ![at] =
                            IF CopyBars(at) = {} THEN @ ELSE Max(CopyBars(at))]
          /\ fresh' = FilterNew(at, CopyBars(at))
          /\ lost' = [lost EXCEPT ![at] = @ \cup
                        ((lastSeen[at] + 1 .. closed[at]) \ CopyBars(at))]
          /\ fresh' # {} => at' = at
      BY <1>5, <2>2 DEF Poll
    <3>3. lost[t] \subseteq lost'[t]
      BY <1>0, <3>2 DEF IngestTypes
    <3>4. CASE b \in 1 .. lastSeen[t]
      BY <1>2, <3>1, <3>3, <3>4
    <3>5. CASE b \notin 1 .. lastSeen[t]
      <4>1. t = at /\ CopyBars(t) # {} /\ lastSeen'[t] = Max(CopyBars(t))
        BY <1>0, <3>2, <3>5 DEF IngestTypes
      <4>2. Max(CopyBars(t)) \in 1 .. closed[t]
        BY <1>0, <4>1, CopyReachesNewest
      <4>3. b \in lastSeen[t] + 1 .. closed[t] /\ b > lastSeen[t]
        BY <1>0, <3>5, <4>1, <4>2
      <4>4. CASE b \in CopyBars(t)
        <5>1. b \in fresh'
          BY <3>2, <4>1, <4>3, <4>4 DEF FilterNew
        <5> QED
          BY <3>2, <4>1, <5>1
      <4>5. CASE b \notin CopyBars(t)
        <5>1. lost'[t] = lost[t] \cup ((lastSeen[t] + 1 .. closed[t]) \ CopyBars(t))
          BY <1>0, <3>2, <4>1 DEF IngestTypes
        <5> QED
          BY <4>3, <4>5, <5>1
      <4> QED
        BY <4>4, <4>5
    <3> QED
      BY <3>4, <3>5
  <2> QED
    BY <2>1, <2>2
<1>6. CASE Upsert
  <2>1. connected \in BOOLEAN /\ UNCHANGED lastSeen
    BY <1>0, <1>6 DEF Upsert, IngestTypes
  <2> QED
    BY <1>3, <1>4, <1>6, <2>1 DEF Upsert
<1>7. CASE Publish
  <2>1. connected \in BOOLEAN /\ UNCHANGED lastSeen /\ UNCHANGED stored /\ ipc = "publish"
    BY <1>0, <1>7 DEF Publish, IngestTypes
  <2>2. CASE CycleFails(connected)
    BY <1>4, <2>1, <2>2
  <2>3. CASE Add(Entries(at, fresh)) /\ UNCHANGED lost
    <3>1. t = at /\ b \in fresh => b \in Published(t)' /\ b \in stored'[t]
      BY <2>1, <2>3, WholeCycle DEF Forwarding
    <3> QED
      BY <1>2, <2>1, <2>3, <3>1
  <2> QED
    BY <1>7, <2>2, <2>3 DEF Publish
<1>8. CASE RestartDataService
  <2>1. lastSeen'[t] = 0
    BY <1>8 DEF RestartDataService
  <2> QED
    BY <2>1
<1> QED
  BY <1>3, <1>5, <1>6, <1>7, <1>8
  DEF Next, vars, ingestVars, Ingest, BarCloses, TerminalRestarts, Connect,
      TriggerBackfill, RunBackfill, Begin, Backfill, FetchPage,
      StorePage, SeedFeatures, AddMalformed, Consumer, Read, Handle, DeadLetterMalformed,
      Fetch, StoreRow, Announce, Ack, ProcessingFails, ConsumerDies, RestartConsumer,
      RecreateGroup

LEMMA ForwardingStep ==
  ASSUME Types, Types', Forwarding, [Next]_vars
  PROVE  Forwarding'
BY PublishedStoredStep, InHandStep, SeenStep DEF Forwarding

-----------------------------------------------------------------------------
(* What is announced for an event                                           *)

History(t, b) == Cardinality({x \in stored[t] : x <= b})

\* The history of a bar only grows.
LEMMA HistoryGrows ==
  ASSUME Types, [Next]_vars, NEW t \in Timeframes, NEW b \in Bars
  PROVE  \E h, k \in Nat : /\ History(t, b) = h /\ h <= k
                           /\ Cardinality({x \in stored'[t] : x <= b}) = k
<1>1. stored[t] \in SUBSET Bars /\ stored'[t] \in SUBSET Bars /\ stored[t] \subseteq stored'[t]
  BY StoredGrows DEF Types, TableTypes
<1> DEFINE S == {x \in stored[t] : x <= b}
           T == {x \in stored'[t] : x <= b}
<1>2. S \in SUBSET T /\ T \in SUBSET Bars /\ S \in SUBSET Bars
  BY <1>1
<1> HIDE DEF S, T
<1>3. IsFiniteSet(T) /\ Cardinality(S) \in Nat /\ Cardinality(T) \in Nat
      /\ Cardinality(S) <= Cardinality(T)
  BY <1>2, BarsFinite, FS_Subset
<1> QED
  BY <1>3 DEF History, S, T

LEMMA NeededIs ==
  /\ Min({MinBars, WarmUp + 2}) \in Nat
  /\ Min({MinBars, WarmUp + 2}) <= MinBars /\ Min({MinBars, WarmUp + 2}) <= WarmUp + 2
<1>1. MinBars \in Int /\ WarmUp + 2 \in Int
  BY Constants
<1>2. Min({MinBars, WarmUp + 2}) = IF MinBars <= WarmUp + 2 THEN MinBars ELSE WarmUp + 2
  BY <1>1, MinTwo
<1> QED
  BY <1>2, Constants

\* A bar with more than WarmUp bars before it, with itself.
LEMMA SeededHistory ==
  ASSUME Types, NEW t \in Timeframes, NEW b \in stored[t],
         Cardinality({y \in stored[t] : y < b}) > WarmUp
  PROVE  History(t, b) >= WarmUp + 2
<1> DEFINE S == {y \in stored[t] : y < b}
<1>1. stored[t] \in SUBSET Bars /\ b \in Nat
  BY DEF Types, TableTypes, Bars
<1>2. S \in SUBSET Bars /\ b \notin S
  BY <1>1 DEF Bars
<1>3. {y \in stored[t] : y <= b} = S \cup {b}
  BY <1>1 DEF Bars
<1>4. Cardinality(S) > WarmUp
  OBVIOUS
<1> HIDE DEF S
<1>5. IsFiniteSet(S) /\ Cardinality(S) \in Nat /\ Cardinality(S \cup {b}) = Cardinality(S) + 1
  BY <1>2, BarsFinite, FS_AddElement
<1>6. History(t, b) = Cardinality(S) + 1
  BY <1>3, <1>5 DEF History
<1> QED
  BY <1>4, <1>5, <1>6, Constants

LEMMA EventKept ==
  ASSUME Types, [Next]_vars, NEW c \in Consumers, fpc[c] \in Busy, todo'[c] = todo[c]
  PROVE  EventOf(c)' = EventOf(c)
<1>1. Current(c) \in 1 .. Len(stream)
  BY InHand
<1>2. stream'[Head(todo[c])] = stream[Head(todo[c])]
  BY <1>1, StreamGrows DEF Current
<1> QED
  BY <1>2 DEF EventOf, Current

\* What the event in hand means.
LEMMA HandledEvent ==
  ASSUME Types, Windows, NEW c \in Consumers, fpc[c] \in {"store", "announce"}
  PROVE  /\ EventOf(c) # Malformed /\ EventOf(c).tf \in Timeframes /\ EventOf(c).bar \in Bars
         /\ latest[c] \in Bars /\ latest[c] >= EventOf(c).bar
         /\ History(EventOf(c).tf, latest[c]) >= MinBars
<1>1. /\ EventOf(c) # Malformed /\ latest[c] >= EventOf(c).bar /\ latest[c] \in Bars \cup {NoBar}
      /\ History(EventOf(c).tf, latest[c]) >= MinBars
  BY DEF Windows, WindowOK, Types, FeatureTypes, History
<1>2. EventOf(c).tf \in Timeframes /\ EventOf(c).bar \in Bars
  BY <1>1, InHand DEF Busy
<1>3. latest[c] \in Bars
  BY <1>1, <1>2, Constants DEF Bars
<1> QED
  BY <1>1, <1>2, <1>3

\* Other steps than a consumer's own leave its event in hand.
LEMMA OthersKeepConsumer ==
  ASSUME Types, [Next]_vars, NEW c \in Consumers,
         ~(Read(c) \/ Handle(c) \/ ProcessingFails(c) \/ ConsumerDies(c) \/ RestartConsumer(c))
  PROVE  fpc'[c] = fpc[c] /\ todo'[c] = todo[c] /\ latest'[c] = latest[c]
<1>1. FeatureTypes /\ StreamTypes
  BY DEF Types
<1>2. ASSUME NEW d \in Consumers, d # c,
             Read(d) \/ Handle(d) \/ ProcessingFails(d) \/ ConsumerDies(d) \/ RestartConsumer(d)
      PROVE  fpc'[c] = fpc[c] /\ todo'[c] = todo[c] /\ latest'[c] = latest[c]
  BY <1>1, <1>2 DEF FeatureTypes, StreamTypes, Read, Handle, DeadLetterMalformed, Fetch, StoreRow,
      Announce, Ack, ProcessingFails, ConsumerDies, RestartConsumer, Goto, NextEntry
<1> QED
  BY <1>2 DEF Next, vars, featureVars, Ingest, BarCloses, TerminalRestarts, Connect, Poll, Upsert, Publish,
      RestartDataService, TriggerBackfill, RunBackfill, Begin, Backfill, FetchPage,
      StorePage, SeedFeatures, AddMalformed, Consumer, RecreateGroup

LEMMA WindowKept ==
  ASSUME Types, Windows, [Next]_vars, NEW c \in Consumers,
         todo'[c] = todo[c], latest'[c] = latest[c], fpc[c] \in {"store", "announce"}
  PROVE  /\ EventOf(c)' # Malformed
         /\ latest'[c] >= EventOf(c)'.bar
         /\ Cardinality({b \in stored'[EventOf(c)'.tf] : b <= latest'[c]}) >= MinBars
         /\ RowKey(c)' = RowKey(c)
<1>1. EventOf(c)' = EventOf(c)
  BY EventKept DEF Busy
<1>2. /\ EventOf(c) # Malformed /\ EventOf(c).tf \in Timeframes
      /\ latest[c] \in Bars /\ latest[c] >= EventOf(c).bar
      /\ History(EventOf(c).tf, latest[c]) >= MinBars
  BY HandledEvent
<1>3. Cardinality({b \in stored'[EventOf(c).tf] : b <= latest[c]}) >= MinBars
  <2>1. PICK h, k \in Nat : /\ History(EventOf(c).tf, latest[c]) = h /\ h <= k
                            /\ Cardinality({x \in stored'[EventOf(c).tf] : x <= latest[c]}) = k
    BY <1>2, HistoryGrows
  <2> QED
    BY <1>2, <2>1, Constants
<1> QED
  BY <1>1, <1>2, <1>3 DEF RowKey

LEMMA WindowStep ==
  ASSUME Types, Forwarding, Windows, [Next]_vars, NEW c \in Consumers
  PROVE  WindowOK(c)'
<1>0. FeatureTypes /\ StreamTypes /\ TableTypes
  BY DEF Types
<1>1. CASE fpc'[c] \notin {"store", "announce"}
  BY <1>1 DEF WindowOK
<1>2. ASSUME fpc'[c] = fpc[c], todo'[c] = todo[c], latest'[c] = latest[c] PROVE WindowOK(c)'
  <2>1. CASE fpc[c] \in {"store", "announce"}
    <3>1. fpc[c] = "announce" => RowKey(c) \in rows
      BY DEF Windows, WindowOK
    <3> QED
      BY <1>2, <2>1, <3>1, WindowKept, RowsGrow DEF WindowOK
  <2> QED
    BY <1>1, <1>2, <2>1
<1>3. CASE Fetch(c) /\ fpc'[c] \in {"store", "announce"}
  <2>1. /\ EventOf(c) # Malformed /\ fpc[c] = "fetch" /\ fpc'[c] = "store"
        /\ FetchBars(c) # {} /\ ~(Cardinality(FetchBars(c)) < MinBars)
        /\ latest'[c] = Max(FetchBars(c))
        /\ UNCHANGED <<todo, stored>>
    BY <1>0, <1>3 DEF Fetch, Goto, FeatureTypes, Busy
  <2>2. /\ EventOf(c)' = EventOf(c) /\ Current(c) \in 1 .. Len(stream)
        /\ EventOf(c) = stream[Current(c)]
        /\ EventOf(c) \in Event /\ EventOf(c).tf \in Timeframes /\ EventOf(c).bar \in Bars
    BY <2>1, EventKept, InHand DEF Busy
  <2> DEFINE t == EventOf(c).tf
             S == stored[t]
  <2>3. S \in SUBSET Bars /\ S = FetchBars(c) /\ S # {}
    BY <1>0, <2>1, <2>2 DEF TableTypes, FetchBars
  <2>4. Max(S) \in S /\ \A x \in S : x <= Max(S)
    BY <2>3, MaxBars
  <2>5. EventOf(c).bar \in S
    <3>1. EventOf(c) = [tf |-> t, bar |-> EventOf(c).bar]
      BY <2>2 DEF Event
    <3>2. EventOf(c).bar \in Published(t)
      BY <2>2, <3>1, PublishedAre
    <3> QED
      BY <2>2, <3>2 DEF Forwarding, PublishedBarsAreStored
  <2>6. {b \in S : b <= Max(S)} = S
    BY <2>4
  <2>7. Cardinality(S) \in Nat /\ Cardinality(S) >= MinBars
    BY <2>1, <2>3, BarsFinite, Constants
  <2>8. Max(S) \in Nat /\ EventOf(c).bar \in Nat /\ Max(S) >= EventOf(c).bar
    BY <2>3, <2>4, <2>5 DEF Bars
  <2> HIDE DEF S
  <2>9. latest'[c] = Max(S)
    BY <2>1, <2>3
  <2>10. Cardinality({b \in stored'[t] : b <= latest'[c]}) >= MinBars
    <3>1. stored'[t] = S
      BY <2>1 DEF S
    <3> QED
      BY <2>6, <2>7, <2>9, <3>1
  <2> QED
    BY <2>1, <2>2, <2>8, <2>9, <2>10 DEF WindowOK
<1>4. CASE StoreRow(c)
  <2>1. /\ fpc[c] = "store" /\ rows' = rows \cup {RowKey(c)} /\ UNCHANGED <<todo, latest>>
    BY <1>4 DEF StoreRow
  <2>2. RowKey(c) \in rows'
    BY <2>1
  <2> QED
    BY <2>1, <2>2, WindowKept DEF WindowOK
<1>5. ASSUME Read(c) \/ DeadLetterMalformed(c) \/ Announce(c) \/ Ack(c)
             \/ ProcessingFails(c) \/ ConsumerDies(c) \/ RestartConsumer(c)
      PROVE  fpc'[c] \notin {"store", "announce"}
  BY <1>0, <1>5 DEF FeatureTypes, Read, DeadLetterMalformed, Announce, Ack, ProcessingFails,
      ConsumerDies, RestartConsumer, NextEntry, Goto
<1> QED
  BY <1>1, <1>2, <1>3, <1>4, <1>5, OthersKeepConsumer DEF Handle

LEMMA ComputedStep ==
  ASSUME Types, Windows, [Next]_vars
  PROVE  AnnouncedFeaturesHaveRows' /\ FeaturesReachTheEvent'
<1>1. ASSUME UNCHANGED computed
      PROVE  AnnouncedFeaturesHaveRows' /\ FeaturesReachTheEvent'
  BY <1>1, RowsGrow DEF Windows, AnnouncedFeaturesHaveRows, FeaturesReachTheEvent
<1>2. ASSUME NEW c \in Consumers, Announce(c)
      PROVE  AnnouncedFeaturesHaveRows' /\ FeaturesReachTheEvent'
  <2> DEFINE f == [tf |-> EventOf(c).tf, bar |-> latest[c], event |-> EventOf(c).bar]
  <2>1. computed' = computed \cup {f} /\ rows' = rows
    BY <1>2 DEF Announce
  <2>2. f.bar >= f.event
    BY <1>2, HandledEvent DEF Announce
  <2>3. <<f.tf, f.bar>> \in rows
    BY <1>2 DEF Announce, Windows, WindowOK, RowKey
  <2> HIDE DEF f
  <2> QED
    BY <2>1, <2>2, <2>3 DEF Windows, AnnouncedFeaturesHaveRows, FeaturesReachTheEvent
<1> QED
  BY <1>1, <1>2 DEF Next, vars, featureVars, Ingest, BarCloses, TerminalRestarts, Connect, Poll,
      Upsert, Publish, RestartDataService, TriggerBackfill, RunBackfill, Begin, Backfill, FetchPage,
      StorePage, SeedFeatures, AddMalformed, Consumer, Read, Handle, DeadLetterMalformed,
      Fetch, StoreRow, Ack, ProcessingFails, ConsumerDies, RestartConsumer,
      RecreateGroup

LEMMA HistoryStep ==
  ASSUME Types, Windows, [Next]_vars
  PROVE  FeaturesHaveHistory'
<1> SUFFICES ASSUME NEW r \in rows'
             PROVE  Cardinality({b \in stored'[r[1]] : b <= r[2]}) >= Min({MinBars, WarmUp + 2})
  BY DEF FeaturesHaveHistory
<1>1. ASSUME r[1] \in Timeframes, r[2] \in Bars,
             History(r[1], r[2]) >= Min({MinBars, WarmUp + 2})
      PROVE  Cardinality({b \in stored'[r[1]] : b <= r[2]}) >= Min({MinBars, WarmUp + 2})
  <2>1. PICK h, k \in Nat : /\ History(r[1], r[2]) = h /\ h <= k
                            /\ Cardinality({x \in stored'[r[1]] : x <= r[2]}) = k
    BY <1>1, HistoryGrows
  <2> QED
    BY <1>1, <2>1, NeededIs
<1>2. CASE r \in rows
  <2>1. r[1] \in Timeframes /\ r[2] \in Bars
    BY <1>2 DEF Types, FeatureTypes
  <2>2. History(r[1], r[2]) >= Min({MinBars, WarmUp + 2})
    BY <1>2 DEF Windows, FeaturesHaveHistory, History
  <2> QED
    BY <1>1, <2>1, <2>2
<1>3. ASSUME NEW c \in Consumers, StoreRow(c), r = RowKey(c)
      PROVE  r[1] \in Timeframes /\ r[2] \in Bars
             /\ History(r[1], r[2]) >= Min({MinBars, WarmUp + 2})
  <2>1. r[1] = EventOf(c).tf /\ r[2] = latest[c]
    BY <1>3 DEF RowKey
  <2>2. /\ EventOf(c).tf \in Timeframes /\ latest[c] \in Bars
        /\ History(EventOf(c).tf, latest[c]) >= MinBars
    BY <1>3, HandledEvent DEF StoreRow
  <2>3. IsFiniteSet({x \in stored[r[1]] : x <= r[2]}) /\ History(r[1], r[2]) \in Nat
    <3>1. {x \in stored[r[1]] : x <= r[2]} \in SUBSET Bars
      BY <2>1, <2>2 DEF Types, TableTypes
    <3> QED
      BY <3>1, BarsFinite DEF History
  <2> QED
    BY <2>1, <2>2, <2>3, NeededIs, Constants
<1>4. ASSUME NEW t \in Timeframes, SeedFeatures(t), r \notin rows
      PROVE  r[1] \in Timeframes /\ r[2] \in Bars
             /\ History(r[1], r[2]) >= Min({MinBars, WarmUp + 2})
  <2> DEFINE S == {x \in stored[t] : Cardinality({y \in stored[t] : y < x}) > WarmUp}
  <2>1. r \in {<<t, b>> : b \in S}
    <3>1. rows' = rows \cup {<<t, b>> : b \in S}
      BY <1>4 DEF SeedFeatures
    <3> HIDE DEF S
    <3> QED
      BY <1>4, <3>1
  <2>2. PICK b \in S : r = <<t, b>>
    <3> HIDE DEF S
    <3> QED
      BY <2>1
  <2>3. b \in stored[t] /\ Cardinality({y \in stored[t] : y < b}) > WarmUp
    OBVIOUS
  <2>4. r[1] = t /\ r[2] = b /\ b \in Bars
    BY <2>2, <2>3 DEF Types, TableTypes
  <2>5. History(t, b) >= WarmUp + 2
    BY <2>3, SeededHistory
  <2>6. History(t, b) \in Nat
    <3>1. {x \in stored[t] : x <= b} \in SUBSET Bars
      BY DEF Types, TableTypes
    <3> QED
      BY <3>1, BarsFinite DEF History
  <2> QED
    BY <2>4, <2>5, <2>6, NeededIs, Constants
<1>5. rows' = rows \/ (\E c \in Consumers : StoreRow(c)) \/ \E t \in Timeframes : SeedFeatures(t)
  BY DEF Next, vars, featureVars, Ingest, BarCloses, TerminalRestarts, Connect, Poll,
      Upsert, Publish, RestartDataService, TriggerBackfill, RunBackfill, Begin, Backfill, FetchPage,
      StorePage, AddMalformed, Consumer, Read, Handle, DeadLetterMalformed,
      Fetch, Announce, Ack, ProcessingFails, ConsumerDies, RestartConsumer,
      RecreateGroup
<1>6. CASE \E c \in Consumers : StoreRow(c)
  BY <1>1, <1>2, <1>3, <1>6 DEF StoreRow
<1> QED
  BY <1>1, <1>2, <1>4, <1>5, <1>6

LEMMA WindowsStep ==
  ASSUME Types, Forwarding, Windows, [Next]_vars
  PROVE  Windows'
BY WindowStep, ComputedStep, HistoryStep DEF Windows

-----------------------------------------------------------------------------
(* The pages of a backfill                                                  *)

\* Bars that close while a job runs only move its next page up.
LEMMA PageKept ==
  ASSUME Types, Types', [Next]_vars, NEW r \in JobType, PageOK(r)
  PROVE  /\ r.low .. r.newest \subseteq stored'[r.tf]
         /\ r.stage = "fetch" => r.low + r.start <= closed'[r.tf] + 2
         /\ r.stage = "upsert" =>
              /\ r.forming <= closed'[r.tf] + 1
              /\ r.low + r.start <= r.forming + 1
              /\ \E lo \in 1 .. r.forming : /\ lo + r.start <= r.forming
                                            /\ r.page = lo .. r.forming - r.start
<1>1. r.tf \in Timeframes /\ r.low \in Nat /\ r.start \in Nat /\ r.forming \in Nat
  BY JobFields
<1>2. stored[r.tf] \subseteq stored'[r.tf]
  BY <1>1, StoredGrows
<1>3. PICK d \in 0 .. 1 : closed[r.tf] \in Nat /\ closed'[r.tf] = closed[r.tf] + d
  <2>1. closed \in [Timeframes -> 0 .. MaxClosed]
    BY DEF Types, IngestTypes
  <2>2. closed' = closed \/ \E t \in Timeframes : BarCloses(t)
    BY DEF Next, vars, terminalVars, Ingest, TerminalRestarts, Connect, Poll,
      Upsert, Publish, RestartDataService, TriggerBackfill, RunBackfill, Begin, Backfill, FetchPage,
      StorePage, SeedFeatures, AddMalformed, Consumer, Read, Handle, DeadLetterMalformed,
      Fetch, StoreRow, Announce, Ack, ProcessingFails, ConsumerDies, RestartConsumer,
      RecreateGroup
  <2>3. closed[r.tf] \in Nat
    BY <1>1, <2>1, Constants
  <2>4. CASE closed' = closed
    BY <2>3, <2>4
  <2>5. ASSUME NEW t \in Timeframes, BarCloses(t)
        PROVE  closed'[r.tf] = closed[r.tf] \/ closed'[r.tf] = closed[r.tf] + 1
    BY <1>1, <2>1, <2>5 DEF BarCloses
  <2> QED
    BY <2>2, <2>3, <2>4, <2>5
<1>4. r.stage = "fetch" => r.low + r.start <= closed[r.tf] + d + 2
  BY <1>1, <1>3 DEF PageOK
<1>5. r.stage = "upsert" => r.forming <= closed[r.tf] + d + 1
  BY <1>1, <1>3 DEF PageOK
<1> QED
  BY <1>2, <1>3, <1>4, <1>5 DEF PageOK

\* A page is the interval that begins at the position asked for.
LEMMA PageIs ==
  ASSUME NEW t \in Timeframes, closed \in [Timeframes -> 0 .. MaxClosed],
         NEW start \in Nat, NEW n \in Nat, Positions(t, start, n) # {}
  PROVE  \E N \in Nat : \E lo \in 1 .. N :
            /\ N = closed[t] + 1 /\ lo + start <= N
            /\ Positions(t, start, n) = lo .. N - start
<1>1. PICK N \in Nat : N = closed[t] + 1
  BY Constants
<1>2. Positions(t, start, n) = {b \in 1 .. N : N - b \in start .. start + n - 1}
  BY <1>1 DEF Positions
<1>3. PICK x \in 1 .. N : N - x \in start .. start + n - 1
  BY <1>2
<1>4. CASE N + 1 - start - n >= 1
  <2> DEFINE lo == N + 1 - start - n
  <2>1. lo \in 1 .. N /\ lo + start <= N
    BY <1>3, <1>4
  <2>2. ASSUME NEW b \in Int
        PROVE  b \in 1 .. N /\ N - b \in start .. start + n - 1 <=> b \in lo .. N - start
    BY <1>4
  <2>3. Positions(t, start, n) = lo .. N - start
    <3> HIDE DEF lo
    <3>1. lo \in Int /\ N - start \in Int
      BY <2>1
    <3> QED
      BY <1>2, <2>2, <3>1
  <2> QED
    BY <1>1, <2>1, <2>3
<1>5. CASE ~(N + 1 - start - n >= 1)
  <2>1. 1 \in 1 .. N /\ 1 + start <= N
    BY <1>3
  <2>2. ASSUME NEW b \in Int
        PROVE  b \in 1 .. N /\ N - b \in start .. start + n - 1 <=> b \in 1 .. N - start
    BY <1>5
  <2>3. Positions(t, start, n) = 1 .. N - start
    BY <1>2, <2>2
  <2> QED
    BY <1>1, <2>1, <2>3
<1> QED
  BY <1>4, <1>5

LEMMA PageStep ==
  ASSUME Types, Types', Pages, [Next]_vars, NEW j \in Jobs
  PROVE  PageOK(job[j])'
<1> DEFINE r == job[j]
<1>0. /\ r \in JobType /\ PageOK(r)
      /\ closed \in [Timeframes -> 0 .. MaxClosed] /\ closed[r.tf] \in Nat
      /\ stored \in [Timeframes -> SUBSET Bars] /\ job \in [Jobs -> JobType]
  BY JobFields, Constants DEF Types, TableTypes, IngestTypes, Pages
<1>1. ASSUME job'[j] = job[j] PROVE PageOK(job[j])'
  BY <1>0, <1>1, PageKept DEF PageOK
<1>2. ASSUME NEW q, job'[j] = q, q.stage \notin {"fetch", "upsert"},
             q.tf = r.tf, q.low = r.low, q.newest = r.newest
      PROVE  PageOK(job[j])'
  BY <1>0, <1>2, PageKept DEF PageOK
<1>3. CASE TerminalRestarts
  <2>1. job'[j] = [job[j] EXCEPT !.session = FALSE]
    BY <1>3 DEF TerminalRestarts
  <2>2. /\ job'[j].stage = r.stage /\ job'[j].tf = r.tf /\ job'[j].low = r.low
        /\ job'[j].newest = r.newest /\ job'[j].start = r.start
        /\ job'[j].forming = r.forming /\ job'[j].page = r.page
    BY <1>0, <2>1 DEF JobType
  <2> QED
    BY <1>0, <2>2, PageKept DEF PageOK
<1>4. CASE RestartDataService
  <2>1. job'[j] = job[j] \/ job'[j] = [job[j] EXCEPT !.stage = "died"]
    BY <1>4 DEF RestartDataService
  <2>2. /\ [job[j] EXCEPT !.stage = "died"].stage = "died"
        /\ [job[j] EXCEPT !.stage = "died"].tf = r.tf
        /\ [job[j] EXCEPT !.stage = "died"].low = r.low
        /\ [job[j] EXCEPT !.stage = "died"].newest = r.newest
    BY <1>0 DEF JobType
  <2> QED
    BY <1>1, <1>2, <2>1, <2>2
<1>5. ASSUME NEW t \in Timeframes, TriggerBackfill(j, t) \/ RunBackfill(j, t)
      PROVE  PageOK(job[j])'
  <2>1. closed[t] \in Nat /\ UNCHANGED <<closed, stored>>
    BY <1>0, <1>5, Constants DEF TriggerBackfill, RunBackfill, Begin, terminalVars
  <2>2. PICK script \in BOOLEAN :
          job'[j] = [IdleJob EXCEPT !.stage = "fetch", !.tf = t,
                                    !.script = script, !.session = script,
                                    !.newest = closed[t] + 1, !.low = closed[t] + 2]
    BY <1>0, <1>5 DEF TriggerBackfill, RunBackfill, Begin, SetJob
  <2>3. /\ job'[j].stage = "fetch" /\ job'[j].tf = t /\ job'[j].start = 0
        /\ job'[j].newest = closed[t] + 1 /\ job'[j].low = closed[t] + 2
    BY <2>2 DEF IdleJob
  <2>4. job'[j].low .. job'[j].newest = {} /\ job'[j].low + job'[j].start <= closed[t] + 2
    BY <2>1, <2>3
  <2> QED
    BY <2>1, <2>3, <2>4 DEF PageOK
<1>6. CASE FetchPage(j)
  <2> DEFINE page == IF Session(r) THEN Positions(r.tf, r.start, ChunkSize) ELSE {}
  <2>1. /\ r.stage = "fetch" /\ UNCHANGED <<closed, stored>>
        /\ job'[j] = IF page = {} THEN [r EXCEPT !.stage = "ok"]
                     ELSE [r EXCEPT !.stage = "upsert", !.page = page,
                                    !.forming = closed[r.tf] + 1]
    BY <1>0, <1>6 DEF FetchPage, SetJob, terminalVars
  <2>2. CASE page = {}
    <3>1. /\ [r EXCEPT !.stage = "ok"].stage = "ok" /\ [r EXCEPT !.stage = "ok"].tf = r.tf
          /\ [r EXCEPT !.stage = "ok"].low = r.low /\ [r EXCEPT !.stage = "ok"].newest = r.newest
      BY <1>0 DEF JobType
    <3> QED
      BY <1>2, <2>1, <2>2, <3>1
  <2>3. CASE page # {}
    <3>1. page = Positions(r.tf, r.start, ChunkSize) /\ r.tf \in Timeframes /\ r.start \in Nat
          /\ r.low \in Nat
      BY <1>0, <2>3, JobFields
    <3>2. PICK N \in Nat : N = closed[r.tf] + 1 /\ \E lo \in 1 .. N :
            lo + r.start <= N /\ page = lo .. N - r.start
      <4>1. \A t \in Timeframes, st \in Nat : Positions(t, st, ChunkSize) # {} =>
              \E N \in Nat : \E lo \in 1 .. N :
                 /\ N = closed[t] + 1 /\ lo + st <= N
                 /\ Positions(t, st, ChunkSize) = lo .. N - st
        BY <1>0, PageIs, Constants
      <4> HIDE DEF r, page
      <4> QED
        BY <2>3, <3>1, <4>1
    <3>6. PICK lo \in 1 .. N : lo + r.start <= N /\ page = lo .. N - r.start
      BY <3>2
    <3> HIDE DEF page
    <3>3. /\ job'[j].stage = "upsert" /\ job'[j].tf = r.tf /\ job'[j].low = r.low
          /\ job'[j].newest = r.newest /\ job'[j].start = r.start
          /\ job'[j].forming = closed[r.tf] + 1 /\ job'[j].page = page
      BY <1>0, <2>1, <2>3 DEF JobType
    <3>4. r.low .. r.newest \subseteq stored[r.tf] /\ r.low + r.start <= closed[r.tf] + 2
      BY <1>0, <2>1 DEF PageOK
    <3>5. r.low + r.start <= N + 1
      BY <1>0, <3>1, <3>2, <3>4
    <3>7. job'[j].forming = N /\ stored'[r.tf] = stored[r.tf]
      BY <2>1, <3>2, <3>3
    <3>8. job'[j].forming <= closed'[job'[j].tf] + 1
      <4>1. closed'[job'[j].tf] + 1 = N
        BY <2>1, <3>2, <3>3
      <4> QED
        BY <3>2, <3>7, <4>1
    <3>9. job'[j].low + job'[j].start <= job'[j].forming + 1
      BY <3>3, <3>5, <3>7
    <3>10. \E l \in 1 .. job'[j].forming :
             /\ l + job'[j].start <= job'[j].forming
             /\ job'[j].page = l .. job'[j].forming - job'[j].start
      BY <3>3, <3>6, <3>7
    <3>11. job'[j].low .. job'[j].newest \subseteq stored'[job'[j].tf]
      BY <3>3, <3>4, <3>7
    <3> QED
      BY <3>3, <3>8, <3>9, <3>10, <3>11 DEF PageOK
  <2> QED
    BY <2>2, <2>3
<1>7. CASE StorePage(j)
  <2>1. r.stage = "upsert" /\ UNCHANGED closed
    BY <1>7 DEF StorePage, terminalVars
  <2>2. CASE SetJob(j, [r EXCEPT !.stage = "died"])
    <3>1. /\ [r EXCEPT !.stage = "died"].stage = "died" /\ [r EXCEPT !.stage = "died"].tf = r.tf
          /\ [r EXCEPT !.stage = "died"].low = r.low
          /\ [r EXCEPT !.stage = "died"].newest = r.newest
          /\ job'[j] = [r EXCEPT !.stage = "died"]
      BY <1>0, <2>2 DEF JobType, SetJob
    <3> QED
      BY <1>2, <3>1
  <2>3. CASE /\ InsertBars(r.tf, r.page, r.forming)
             /\ SetJob(j, [r EXCEPT
                  !.stage = IF Min(r.page) <= Cutoff \/ Cardinality(r.page) < ChunkSize
                            THEN "ok" ELSE "fetch",
                  !.start = NextStart(r), !.low = Min(r.page \cup {@}), !.page = {}])
    <3>1. PICK F, st, low \in Nat : r.forming = F /\ r.start = st /\ r.low = low
      BY <1>0, JobFields
    <3>2. PICK lo \in 1 .. F : lo + st <= F /\ r.page = lo .. F - st
      BY <1>0, <2>1, <3>1 DEF PageOK
    <3>3. PICK C \in Nat : closed[r.tf] = C
      BY <1>0
    <3>4. F <= C + 1 /\ low + st <= F + 1 /\ low .. r.newest \subseteq stored[r.tf]
          /\ r.tf \in Timeframes /\ r.newest \in Nat
      BY <1>0, <2>1, <3>1, <3>3, JobFields DEF PageOK
    <3>5. PICK m \in Nat : /\ m = Min(r.page \cup {r.low}) /\ m <= low /\ m <= lo
                           /\ \A b \in Nat : b < low /\ b >= m => b \in lo .. F - st
      <4>1. lo \in Nat /\ F - st \in Int /\ lo <= F - st
        BY <3>1, <3>2
      <4>2. \A hi \in Int : lo <= hi =>
              /\ Min((lo .. hi) \cup {low}) \in Nat
              /\ Min((lo .. hi) \cup {low}) <= low /\ Min((lo .. hi) \cup {low}) <= lo
              /\ \A b \in Nat : b < low /\ b >= Min((lo .. hi) \cup {low}) => lo <= b
        BY <4>1, NextLow
      <4>3. PICK m \in Nat : m = Min((lo .. F - st) \cup {low}) /\ m <= low /\ m <= lo
                             /\ \A b \in Nat : b < low /\ b >= m => lo <= b
        BY <4>1, <4>2
      <4>4. \A b \in Nat : b < low => b <= F - st
        BY <3>1, <3>4
      <4>5. \A b \in Nat : b < low /\ b >= m => b \in lo .. F - st
        BY <4>1, <4>3, <4>4
      <4>6. m = Min(r.page \cup {r.low})
        BY <3>1, <3>2, <4>3
      <4> QED
        BY <4>3, <4>5, <4>6
    <3>6. NextStart(r) = F - lo + 1
      <4>1. Cardinality(lo .. F - st) = F - st - lo + 1
        BY <3>1, <3>2, FS_Interval
      <4> QED
        BY <3>1, <3>2, <4>1 DEF NextStart
    <3>7. /\ job'[j].tf = r.tf /\ job'[j].low = m /\ job'[j].newest = r.newest
          /\ job'[j].start = F - lo + 1 /\ job'[j].stage # "upsert"
      BY <1>0, <2>3, <3>5, <3>6 DEF JobType, SetJob
    <3>8. stored'[r.tf] = stored[r.tf] \cup (lo .. F - st)
      BY <1>0, <2>3, <3>2, <3>4 DEF InsertBars
    <3>9. m .. r.newest \subseteq stored'[r.tf]
      <4> SUFFICES ASSUME NEW b \in m .. r.newest PROVE b \in stored'[r.tf]
        OBVIOUS
      <4>1. b \in Nat /\ b >= m /\ b <= r.newest
        BY <3>4
      <4>2. CASE b < low
        BY <3>5, <3>8, <4>1, <4>2
      <4>3. CASE ~(b < low)
        BY <3>4, <3>8, <4>1, <4>3
      <4> QED
        BY <4>2, <4>3
    <3>10. m + (F - lo + 1) <= C + 2
      BY <3>2, <3>4, <3>5
    <3> QED
      BY <2>1, <3>3, <3>7, <3>9, <3>10 DEF PageOK
  <2> QED
    BY <1>7, <2>2, <2>3 DEF StorePage
<1>8. ASSUME NEW i \in Jobs, i # j,
             \/ FetchPage(i) \/ StorePage(i)
             \/ \E t \in Timeframes : TriggerBackfill(i, t) \/ RunBackfill(i, t)
      PROVE  job'[j] = job[j]
  BY <1>0, <1>8 DEF FetchPage, StorePage, TriggerBackfill, RunBackfill, Begin, SetJob
<1> QED
  BY <1>1, <1>3, <1>4, <1>5, <1>6, <1>7, <1>8
  DEF Next, vars, Ingest, BarCloses, Connect, Poll, Upsert, Publish, Backfill,
      SeedFeatures, AddMalformed, Consumer, Read, Handle, DeadLetterMalformed,
      Fetch, StoreRow, Announce, Ack, ProcessingFails, ConsumerDies, RestartConsumer,
      RecreateGroup

LEMMA PagesStep ==
  ASSUME Types, Types', Pages, [Next]_vars
  PROVE  Pages'
BY PageStep DEF Pages

-----------------------------------------------------------------------------
(* Deliveries                                                               *)

LEMMA DeliveriesStep ==
  ASSUME Types, Types', Deliveries, [Next]_vars
  PROVE  Deliveries'
<1>0. /\ DOMAIN pending = 1 .. Len(stream) /\ DOMAIN pending' = 1 .. Len(stream')
      /\ pending \in [1 .. Len(stream) -> Nat] /\ cursor \in Nat /\ cursor <= Len(stream)
      /\ Len(stream) \in Nat /\ Len(stream') \in Nat
      /\ \A i \in 1 .. Len(stream) : pending[i] <= 1 /\ (i > cursor => pending[i] = 0)
  BY LenProperties DEF Types, StreamTypes, Deliveries, DeliveredOnce
<1>1. CASE UNCHANGED <<stream, cursor, pending>>
  BY <1>0, <1>1 DEF Deliveries, DeliveredOnce
<1>2. CASE Publish \/ AddMalformed
  <2>1. PICK entries \in Seq(Event \cup {Malformed}) : Add(entries)
    BY <1>2, Additions
  <2>2. cursor' = cursor
    BY <1>2 DEF Publish, AddMalformed
  <2>3. /\ \A i \in 1 .. Len(stream) : pending'[i] = pending[i]
        /\ \A i \in 1 .. Len(stream') : i > Len(stream) => pending'[i] = 0
    BY <2>1, AddGrows DEF Types
  <2>4. ASSUME NEW i \in 1 .. Len(stream')
        PROVE  pending'[i] <= 1 /\ (i > cursor => pending'[i] = 0)
    <3>1. CASE i > Len(stream)
      BY <2>3, <3>1
    <3>2. CASE i \in 1 .. Len(stream)
      BY <1>0, <2>3, <3>2
    <3> QED
      BY <1>0, <3>1, <3>2
  <2> QED
    BY <1>0, <2>2, <2>4 DEF Deliveries, DeliveredOnce
<1>3. ASSUME NEW c \in Consumers, Read(c) PROVE Deliveries'
  <2>1. PICK last \in cursor + 1 .. Len(stream) :
           /\ cursor' = last /\ last \in Nat
           /\ pending' = [i \in DOMAIN pending |->
                            IF i \in cursor + 1 .. last THEN pending[i] + 1 ELSE pending[i]]
    BY <1>3, ReadBatch
  <2>2. stream' = stream
    BY <1>3 DEF Read
  <2>3. ASSUME NEW i \in 1 .. Len(stream)
        PROVE  pending'[i] <= 1 /\ (i > last => pending'[i] = 0)
    <3>1. CASE i \in cursor + 1 .. last
      <4>1. pending[i] = 0 /\ pending'[i] = pending[i] + 1
        BY <1>0, <2>1, <3>1
      <4> QED
        BY <2>1, <3>1, <4>1
    <3>2. CASE i \notin cursor + 1 .. last
      <4>1. pending'[i] = pending[i] /\ (i > last => i > cursor)
        BY <1>0, <2>1, <3>2
      <4> QED
        BY <1>0, <4>1
    <3> QED
      BY <3>1, <3>2
  <2> QED
    BY <1>0, <2>1, <2>2, <2>3 DEF Deliveries, DeliveredOnce
<1>4. ASSUME NEW c \in Consumers, Ack(c) PROVE Deliveries'
  <2>1. pending' = [pending EXCEPT ![Current(c)] = 0] /\ UNCHANGED <<stream, cursor>>
    BY <1>4 DEF Ack
  <2> QED
    BY <1>0, <2>1 DEF Deliveries, DeliveredOnce
<1>5. CASE RecreateGroup
  <2>1. pending' = [i \in DOMAIN pending |-> 0] /\ stream' = stream
    BY <1>5 DEF RecreateGroup
  <2> QED
    BY <1>0, <2>1 DEF Deliveries, DeliveredOnce
<1> QED
  BY <1>1, <1>2, <1>3, <1>4, <1>5
  DEF Next, vars, featureVars, Ingest, BarCloses, TerminalRestarts, Connect, Poll, Upsert,
      RestartDataService, TriggerBackfill, RunBackfill, Begin, Backfill, FetchPage,
      StorePage, SeedFeatures, Consumer, Handle, DeadLetterMalformed, Fetch, StoreRow, Announce,
      ProcessingFails, ConsumerDies, RestartConsumer

-----------------------------------------------------------------------------
(* The theorems                                                             *)

LEMMA StepIInv == IInv /\ [Next]_vars => IInv'
<1> SUFFICES ASSUME IInv, [Next]_vars PROVE IInv'
  OBVIOUS
<1>1. Types /\ Forwarding /\ Windows /\ Pages /\ Deliveries
  BY TypesAre DEF IInv
<1>2. Types'
  BY <1>1, TypesStep
<1>3. Forwarding' /\ Windows' /\ Pages' /\ Deliveries'
  BY <1>1, <1>2, ForwardingStep, WindowsStep, PagesStep, DeliveriesStep
<1>4. TypeOK' /\ BatchesOK'
  BY <1>2 DEF Types, TypeOK, BatchesOK, IngestTypes, TableTypes, FeatureTypes, StreamTypes, Busy
<1> QED
  BY <1>3, <1>4 DEF IInv

LEMMA Inductive == Spec => []IInv
BY InitIInv, StepIInv, PTL DEF Spec

\* Every variable keeps its type, for any number of timeframes, jobs and consumers.
THEOREM TypeCorrect == Spec => []TypeOK
<1>1. IInv => TypeOK
  BY DEF IInv
<1> QED
  BY <1>1, Inductive, PTL

\* The filter of the ingest loop marks bars as seen before they are stored and
\* published: none is dropped on the way but those of a cycle that failed, and
\* those that left the window before they were polled.
THEOREM NoBarIsDropped == Spec => []SeenBarsAreForwarded
<1>1. IInv => SeenBarsAreForwarded
  BY DEF IInv, Forwarding
<1> QED
  BY <1>1, Inductive, PTL

\* What is announced on ohlcv.update and feature.computed is in the tables, as
\* new as its event and out of enough history, whatever fails in between.
THEOREM AnnouncementsAreKept == Spec => []AnnouncementsHold
<1>1. IInv => AnnouncementsHold
  BY DEF IInv, Forwarding, Windows, AnnouncementsHold
<1> QED
  BY <1>1, Inductive, PTL

\* The pages of iter_history_chunks leave no gap, though the positions move on
\* with every bar that closes while the backfill runs.
THEOREM BackfillLeavesNoGap == Spec => []BackfillHasNoHoles
<1>1. IInv => BackfillHasNoHoles
  BY DEF IInv, Pages, PageOK, BackfillHasNoHoles
<1> QED
  BY <1>1, Inductive, PTL

\* No entry is handed out a second time while its group lives, so the delivery
\* count that MAX_DELIVERIES is compared with never passes one: the redelivery
\* that consumer.py:5-6 promises cannot happen, whatever the constants.
THEOREM NothingIsRedelivered == Spec => []DeliveredOnce
<1>1. IInv => DeliveredOnce
  BY DEF IInv, Deliveries
<1> QED
  BY <1>1, Inductive, PTL
=============================================================================
