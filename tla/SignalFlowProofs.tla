-------------------------- MODULE SignalFlowProofs --------------------------
(***************************************************************************)
(* Proofs about SignalFlow and ModelStore: one training at a time, models  *)
(* that are loaded only verified, signals that are stored before they are  *)
(* published, what the caches can and cannot lead to, and that an event    *)
(* fires one signal for each time it is read.                              *)
(***************************************************************************)
EXTENDS SignalFlow, SequenceTheorems, FiniteSetTheorems, TLAPS

USE DEF fileVars, trainVars, loadVars, storeVars, workerVars, consumerVars, outVars, envVars

\* The steps that leave the models alone, and those that leave the signals alone.
StoreStep  == Training \/ Requested \/ LoadStep \/ StartLoad \/ RestartMlService

LEMMA OtherStepsKeepStore ==
  ASSUME [Next]_vars, ~StoreStep
  PROVE  UNCHANGED storeVars
BY DEF StoreStep, Next, vars, Worker, Consumer, Computed, SeedCaches, WorkerRead, Infer,
       SetRegime, SetMeta, WorkerAck, InferenceFails, WorkerDies, GroupLost, Drain, GetCache,
       Evaluate, InsertSignal, PublishSignal, Ack, ConsumerDies, RestartConsumer, RecreateGroup

-----------------------------------------------------------------------------
(* One training at a time                                                   *)

\* Whoever works holds the lock.
LockHeld ==
    /\ train \in [Requests -> [step : Steps, model : Models, gen : Nat]]
    /\ \A j \in Requests : train[j].step \in Working => lock = j

LEMMA LockStep ==
  ASSUME LockHeld, generation \in Nat, NEW j \in Requests, Train(j) \/ Queue(j)
  PROVE  LockHeld'
<1>1. train \in [Requests -> [step : Steps, model : Models, gen : Nat]]
  BY DEF LockHeld
<1>2. \A i \in Requests : train[i].step \in Working => lock = i
  BY DEF LockHeld
<1> USE DEF Steps, Working, Models
<1>3. CASE Queue(j)
  BY <1>1, <1>2, <1>3 DEF Queue, To, LockHeld
<1>4. CASE Acquire(j)
  <2>1. CASE lock = NoRequest /\ Begin(j)
    <3> DEFINE new == [train[j] EXCEPT !.step = "fit", !.gen = generation']
    <3>1. train' = [train EXCEPT ![j] = new] /\ lock' = j /\ generation' \in Nat
      BY <1>1, <2>1 DEF Begin
    <3>2. new \in [step : Steps, model : Models, gen : Nat]
      BY <1>1, <3>1
    <3>3. \A i \in Requests : train[i].step \notin Working
      BY <1>2, <2>1, ModelStoreAssumption
    <3> HIDE DEF new
    <3> QED
      BY <1>1, <3>1, <3>2, <3>3 DEF LockHeld
  <2>2. CASE lock # NoRequest /\ To(j, "skipped") /\ UNCHANGED <<lock, generation>>
    BY <1>1, <1>2, <2>2 DEF To, LockHeld
  <2> QED
    BY <1>4, <2>1, <2>2 DEF Acquire
<1>5. CASE Fit(j)
  BY <1>1, <1>2, <1>5 DEF Fit, Finish, To, LockHeld
<1>6. CASE Dump(j)
  BY <1>1, <1>2, <1>6 DEF Dump, To, LockHeld
<1>7. CASE DumpEnds(j)
  BY <1>1, <1>2, <1>7 DEF DumpEnds, To, LockHeld
<1>8. CASE WriteSidecar(j)
  <2>1. CASE train[j].model = "regime"
    <3> DEFINE new == [train[j] EXCEPT !.step = "fit", !.model = "meta"]
    <3>1. train' = [train EXCEPT ![j] = new] /\ lock' = lock /\ train[j].step = "sidecar"
      BY <1>8, <2>1 DEF WriteSidecar
    <3>2. new \in [step : Steps, model : Models, gen : Nat] /\ lock = j
      BY <1>1, <1>2, <3>1
    <3> HIDE DEF new
    <3> QED
      BY <1>1, <1>2, <3>1, <3>2 DEF LockHeld
  <2>2. CASE train[j].model # "regime"
    BY <1>1, <1>2, <1>8, <2>2 DEF WriteSidecar, Finish, To, LockHeld
  <2> QED
    BY <2>1, <2>2
<1> QED
  BY <1>3, <1>4, <1>5, <1>6, <1>7, <1>8 DEF Train

LEMMA BoundsFixed == [Next]_vars => UNCHANGED bounds
BY DEF Next, vars, Worker, Consumer, Computed, SeedCaches, WorkerRead, Infer, SetRegime,
       SetMeta, WorkerAck, InferenceFails, WorkerDies, GroupLost, Drain, GetCache, Evaluate,
       InsertSignal, PublishSignal, Ack, ConsumerDies, RestartConsumer, RecreateGroup,
       Training, Requested, LoadStep, StartLoad, RestartMlService, Fault

StoreInv == LockHeld /\ generation \in Nat /\ bounds \in Scenarios

LEMMA LockInvariance == Spec => []StoreInv
<1>1. Init => StoreInv
  BY DEF StoreInv, Init, StoreInit, LockHeld, Steps, Working, Models
<1>2. StoreInv /\ [Next]_vars => StoreInv'
  <2> SUFFICES ASSUME StoreInv, [Next]_vars PROVE LockHeld' /\ generation' \in Nat
    BY BoundsFixed DEF StoreInv
  <2>1. ASSUME NEW j \in Requests, Train(j) \/ Queue(j) PROVE LockHeld' /\ generation' \in Nat
    <3>1. LockHeld'
      BY <2>1, LockStep DEF StoreInv
    <3>2. generation' \in Nat
      BY <2>1 DEF StoreInv, Train, Acquire, Begin, Fit, Dump, DumpEnds, WriteSidecar, Queue
    <3> QED
      BY <3>1, <3>2
  <2>2. CASE Training \/ Requested
    <3>1. PICK j \in Requests : Train(j) \/ Queue(j)
      BY <2>2, FlowAssumption DEF StoreInv, Training, Requested
    <3> QED
      BY <2>1, <3>1
  <2>3. CASE RestartMlService
    <3>1. /\ train' = [j \in Requests |-> IF train[j].step \in Working \cup {"queued"}
                                    THEN [train[j] EXCEPT !.step = "done"] ELSE train[j]]
          /\ generation' = generation
      BY <2>3 DEF RestartMlService
    <3>2. /\ train' \in [Requests -> [step : Steps, model : Models, gen : Nat]]
          /\ \A j \in Requests : train'[j].step \notin Working
      BY <3>1 DEF StoreInv, LockHeld, Steps, Working
    <3> QED
      BY <3>1, <3>2 DEF StoreInv, LockHeld
  <2>4. CASE LoadStep \/ StartLoad \/ ~StoreStep
    <3>1. UNCHANGED trainVars
      BY <2>4, OtherStepsKeepStore DEF LoadStep, StartLoad, Load, Verify, Read
    <3> QED
      BY <3>1 DEF StoreInv, LockHeld
  <2> QED
    BY <2>2, <2>3, <2>4 DEF StoreStep
<1> QED
  BY <1>1, <1>2, PTL DEF Spec

\* "Only ONE training pipeline may run at a time" (routes.py:42), whatever number
\* of requests is queued and however often the service restarts.
THEOREM OneTrainer == Spec => []TrainersExclusive
<1>1. StoreInv => TrainersExclusive
  BY DEF StoreInv, LockHeld, TrainersExclusive
<1> QED
  BY <1>1, LockInvariance, PTL

-----------------------------------------------------------------------------
(* Verified models                                                          *)

\* What a trainer knows of the file it writes, and the worker of the one it is
\* about to read.
FileInv ==
    /\ file \in [Models -> Nat \cup {Torn}] /\ sidecar \in [Models -> Nat]
    /\ \A j \in Requests :
         /\ train[j].step = "end" => file[train[j].model] = Torn
         /\ train[j].step = "sidecar" => file[train[j].model] = train[j].gen
    /\ loading \in ({"verify", "read"} \X Models) \cup {Idle}
    /\ checked \in Nat /\ raced \in BOOLEAN
    /\ \A m \in Models : loading = <<"read", m>> /\ ~raced => file[m] = checked

\* Only one of the trainers is at work, so that the others know nothing.
LEMMA TrainKeepsFiles ==
  ASSUME StoreInv, FileInv, NEW j \in Requests, Train(j) \/ Queue(j)
  PROVE  FileInv'
<1>1. /\ train \in [Requests -> [step : Steps, model : Models, gen : Nat]]
      /\ \A i \in Requests : train[i].step \in Working => lock = i
      /\ generation \in Nat
  BY DEF StoreInv, LockHeld
<1>2. file \in [Models -> Nat \cup {Torn}] /\ sidecar \in [Models -> Nat]
  BY DEF FileInv
<1>3. \A i \in Requests :
         /\ train[i].step = "end" => file[train[i].model] = Torn
         /\ train[i].step = "sidecar" => file[train[i].model] = train[i].gen
  BY DEF FileInv
<1>4. /\ loading \in ({"verify", "read"} \X Models) \cup {Idle}
      /\ checked \in Nat /\ raced \in BOOLEAN
      /\ \A m \in Models : loading = <<"read", m>> /\ ~raced => file[m] = checked
  BY DEF FileInv
<1>5. ASSUME train[j].step \in Working, NEW i \in Requests \ {j}
      PROVE  train[i].step \notin {"end", "sidecar"}
  BY <1>1, <1>5 DEF Working
<1>6. CASE Queue(j) \/ Acquire(j) \/ Fit(j)
  <2>1. UNCHANGED <<file, sidecar, loadVars>>
    BY <1>6 DEF Queue, Acquire, Fit
  <2>2. /\ \A i \in Requests \ {j} : train'[i] = train[i]
        /\ train'[j].step \notin {"end", "sidecar"}
    BY <1>1, <1>6 DEF Queue, Acquire, Fit, Begin, Finish, To
  <2> QED
    BY <1>2, <1>3, <1>4, <2>1, <2>2 DEF FileInv
<1>7. CASE Dump(j)
  <2> DEFINE m == train[j].model
  <2>1. /\ m \in Models /\ train[j].step = "dump" /\ train' = [train EXCEPT ![j].step = "end"]
        /\ file' = [file EXCEPT ![m] = Torn] /\ raced' = (raced \/ loading = <<"read", m>>)
        /\ UNCHANGED <<sidecar, loading, checked>>
    BY <1>1, <1>7 DEF Dump, To
  <2>2. /\ train'[j].step = "end" /\ train'[j].model = m
        /\ \A i \in Requests \ {j} : train'[i] = train[i] /\ train[i].step \notin {"end", "sidecar"}
    BY <1>1, <1>5, <2>1 DEF Working
  <2>3. file'[m] = Torn /\ \A n \in Models \ {m} : file'[n] = file[n]
    BY <1>2, <2>1
  <2>4. file' \in [Models -> Nat \cup {Torn}] /\ raced' \in BOOLEAN
    BY <1>2, <1>4, <2>1
  <2>5. \A n \in Models : loading' = <<"read", n>> /\ ~raced' => file'[n] = checked'
    BY <1>4, <2>1, <2>3
  <2>6. \A i \in Requests :
         /\ train'[i].step = "end" => file'[train'[i].model] = Torn
         /\ train'[i].step = "sidecar" => file'[train'[i].model] = train'[i].gen
    BY <2>2, <2>3
  <2> QED
    BY <1>2, <1>4, <2>1, <2>4, <2>5, <2>6 DEF FileInv
<1>8. CASE DumpEnds(j)
  <2> DEFINE m == train[j].model
  <2>1. /\ m \in Models /\ train[j].step = "end" /\ train' = [train EXCEPT ![j].step = "sidecar"]
        /\ file' = [file EXCEPT ![m] = train[j].gen] /\ UNCHANGED <<sidecar, loadVars>>
        /\ train[j].gen \in Nat
    BY <1>1, <1>8 DEF DumpEnds, To
  <2>2. /\ train'[j].step = "sidecar" /\ train'[j].model = m /\ train'[j].gen = train[j].gen
        /\ \A i \in Requests \ {j} : train'[i] = train[i] /\ train[i].step \notin {"end", "sidecar"}
    BY <1>1, <1>5, <2>1 DEF Working
  <2>3. file'[m] = train[j].gen /\ \A n \in Models \ {m} : file'[n] = file[n]
    BY <1>2, <2>1
  <2>4. file[m] = Torn /\ Torn \notin Nat
    BY <1>3, <2>1, ModelStoreAssumption
  <2>5. \A n \in Models : loading' = <<"read", n>> /\ ~raced' => file'[n] = checked'
    BY <1>4, <2>1, <2>3, <2>4
  <2>6. \A i \in Requests :
         /\ train'[i].step = "end" => file'[train'[i].model] = Torn
         /\ train'[i].step = "sidecar" => file'[train'[i].model] = train'[i].gen
    BY <2>2, <2>3
  <2>7. file' \in [Models -> Nat \cup {Torn}]
    BY <1>2, <2>1
  <2> QED
    BY <1>2, <1>4, <2>1, <2>5, <2>6, <2>7 DEF FileInv
<1>9. CASE WriteSidecar(j)
  <2>1. /\ train[j].step = "sidecar" /\ train[j].model \in Models /\ file[train[j].model] \in Nat
        /\ sidecar' = [sidecar EXCEPT ![train[j].model] = file[train[j].model]]
        /\ UNCHANGED <<file, loadVars>>
    BY <1>1, <1>3, <1>9 DEF WriteSidecar
  <2>2. /\ train'[j].step \in {"fit", "done"}
        /\ \A i \in Requests \ {j} : train'[i] = train[i]
    BY <1>1, <1>9 DEF WriteSidecar, Finish, To
  <2>3. sidecar' \in [Models -> Nat]
    BY <1>2, <2>1
  <2> QED
    BY <1>2, <1>3, <1>4, <2>1, <2>2, <2>3 DEF FileInv
<1> QED
  BY <1>6, <1>7, <1>8, <1>9 DEF Train

LEMMA LoadKeepsFiles ==
  ASSUME FileInv, Load
  PROVE  FileInv'
<1>1. PICK m \in Models : Verify(m) \/ Read(m)
  BY DEF Load
<1>2. UNCHANGED <<fileVars, trainVars>>
  BY <1>1 DEF Verify, Read
<1>3. /\ loading' \in ({"verify", "read"} \X Models) \cup {Idle}
      /\ checked' \in Nat /\ raced' \in BOOLEAN
  <2>1. sidecar[m] \in Nat /\ checked \in Nat /\ raced \in BOOLEAN
    BY DEF FileInv
  <2>2. CASE Verify(m)
    <3>1. /\ loading' = <<"read", m>> \/ loading' = Idle
          /\ checked' \in Nat /\ raced' \in BOOLEAN
      <4>1. CASE Loadable(m)
        <5>1. loading' = <<"read", m>> /\ checked' = sidecar[m] /\ raced' = FALSE
          BY <2>2, <4>1 DEF Verify
        <5> QED
          BY <2>1, <5>1
      <4>2. CASE ~Loadable(m)
        <5>1. loading' = Idle /\ checked' = 0 /\ raced' = raced
          BY <2>2, <4>2 DEF Verify, LoadFails
        <5> QED
          BY <2>1, <5>1
      <4> QED
        BY <4>1, <4>2
    <3>2. <<"read", m>> \in {"verify", "read"} \X Models
      OBVIOUS
    <3> QED
      BY <3>1, <3>2
  <2>3. CASE Read(m)
    BY <2>1, <2>3 DEF Read, LoadFails, Models
  <2> QED
    BY <1>1, <2>2, <2>3
<1>4. \A n \in Models : loading' = <<"read", n>> /\ ~raced' => file[n] = checked'
  <2>1. CASE Verify(m)
    BY <2>1 DEF FileInv, Verify, LoadFails, Loadable, Idle
  <2>2. CASE Read(m)
    BY <2>2 DEF Read, LoadFails, Idle
  <2> QED
    BY <1>1, <2>1, <2>2
<1> QED
  BY <1>2, <1>3, <1>4 DEF FileInv

LEMMA NextFileInv == StoreInv /\ FileInv /\ [Next]_vars => FileInv'
<1> SUFFICES ASSUME StoreInv, FileInv, [Next]_vars PROVE FileInv'
  OBVIOUS
<1>1. CASE Training \/ Requested
  <2>1. PICK j \in Requests : Train(j) \/ Queue(j)
    BY <1>1, FlowAssumption DEF StoreInv, Training, Requested
  <2> QED
    BY <2>1, TrainKeepsFiles
<1>2. CASE LoadStep
  BY <1>2, LoadKeepsFiles DEF LoadStep
<1>3. CASE StartLoad
  BY <1>3 DEF StartLoad, FileInv, Models
<1>4. CASE RestartMlService
  <2>1. /\ UNCHANGED fileVars /\ loading' = Idle /\ checked' = 0 /\ raced' = FALSE
        /\ train' = [j \in Requests |-> IF train[j].step \in Working \cup {"queued"}
                                    THEN [train[j] EXCEPT !.step = "done"] ELSE train[j]]
    BY <1>4 DEF RestartMlService
  <2>2. \A j \in Requests : train'[j].step \notin {"end", "sidecar"}
    BY <2>1 DEF StoreInv, LockHeld, Working, Steps
  <2> QED
    BY <2>1, <2>2 DEF FileInv, Idle
<1>5. CASE ~StoreStep
  BY <1>5, OtherStepsKeepStore DEF FileInv
<1> QED
  BY <1>1, <1>2, <1>3, <1>4, <1>5 DEF StoreStep

\* Whatever trainings, deaths and loads overlap, a model that enters the worker's
\* memory has the digest that was verified, unless the file was written between
\* the worker's two reads of it.
THEOREM LoadedAreVerified == Spec => UnverifiedOnlyByRace
<1>1. Init => FileInv
  <2> SUFFICES ASSUME Init PROVE FileInv
    OBVIOUS
  <2>1. /\ file = [m \in Models |-> IF bounds.trained THEN 1 ELSE 0] /\ sidecar = file
        /\ loading = Idle /\ checked = 0 /\ raced = FALSE
        /\ \A j \in Requests : train[j].step = "idle"
    BY DEF Init, StoreInit
  <2>2. file \in [Models -> Nat \cup {Torn}] /\ sidecar \in [Models -> Nat]
    BY <2>1
  <2>3. \A m \in Models : loading # <<"read", m>>
    BY <2>1 DEF Idle
  <2> QED
    BY <2>1, <2>2, <2>3 DEF FileInv
<1>2. StoreInv /\ FileInv /\ [Next]_vars
        => [\A m \in Models : bundle'[m] \notin {bundle[m], 0} =>
              bundle'[m] = checked \/ raced]_storeVars
  <2> SUFFICES ASSUME FileInv, [Next]_vars, NEW m \in Models, bundle'[m] \notin {bundle[m], 0}
               PROVE  bundle'[m] = checked \/ raced
    OBVIOUS
  <2>1. CASE LoadStep
    <3>1. PICK n \in Models : Read(n) /\ bundle' = [bundle EXCEPT ![n] = file[n]]
      BY <2>1 DEF LoadStep, Load, Verify, Read
    <3>2. bundle'[m] = file[m] /\ m = n
      BY <3>1
    <3> QED
      BY <3>1, <3>2 DEF FileInv, Read
  <2>2. CASE RestartMlService
    BY <2>2 DEF RestartMlService
  <2>3. CASE Training \/ Requested \/ StartLoad \/ ~StoreStep
    <3>1. bundle' = bundle
      BY <2>3, OtherStepsKeepStore DEF Training, Requested, StartLoad, Train, Queue, Acquire,
         Fit, Dump, DumpEnds, WriteSidecar
    <3> QED
      BY <3>1
  <2> QED
    BY <2>1, <2>2, <2>3 DEF StoreStep
<1> QED
  BY <1>1, <1>2, LockInvariance, NextFileInv, PTL DEF Spec, UnverifiedOnlyByRace

-----------------------------------------------------------------------------
(* Signals                                                                  *)

\* The consumer's own steps, and those that write the caches or what goes in.
ConsumerStep == Consumer \/ ConsumerDies \/ RestartConsumer
CacheStep    == SeedCaches \/ Infer \/ SetRegime \/ SetMeta \/ WorkerAck \/ RestartMlService

LEMMA OtherStepsKeepConsumer ==
  ASSUME [Next]_vars, ~ConsumerStep
  PROVE  UNCHANGED <<outVars, todo, pc, market, proposal>>
BY DEF ConsumerStep, Next, vars, Worker, Computed, SeedCaches, WorkerRead, Infer, SetRegime,
       SetMeta, WorkerAck, InferenceFails, WorkerDies, GroupLost, RecreateGroup,
       Training, Requested, LoadStep, StartLoad, RestartMlService

LEMMA OtherStepsKeepCaches ==
  ASSUME [Next]_vars, ~CacheStep
  PROVE  UNCHANGED <<cache, output, inferences>>
BY DEF CacheStep, Next, vars, Worker, Consumer, Computed, WorkerRead, InferenceFails,
       WorkerDies, GroupLost, Drain, GetCache, Evaluate, InsertSignal, PublishSignal, Ack,
       ConsumerDies, RestartConsumer, RecreateGroup, Training, Requested, LoadStep, StartLoad

Keys == {"regime", "meta"}

\* Where a regime that signal-service knows can come from, along its whole way
\* from the worker's output over the caches into a signal.
SourceInv ==
    /\ DOMAIN cache = Keys /\ DOMAIN market = Keys
    /\ output.label \notin RegimeState
    /\ cache["regime"].value \in RegimeState => cache["regime"].by = "bench"
    /\ market["regime"].value \in RegimeState => market["regime"].by = "bench"
    /\ pc \in {"insert", "publish"} => proposal.by = "bench"
    /\ NoSignalFromTheWorker

LEMMA NoCacheFacts ==
  /\ DOMAIN NoCache = Keys /\ NoCache["regime"].value = "none"
  /\ NoCache["regime"].n = 0 /\ NoCache["meta"].n = 0
BY DEF NoCache, Keys

LEMMA CacheSource == SourceInv /\ [Next]_vars =>
    /\ DOMAIN cache' = Keys
    /\ output'.label \notin RegimeState
    /\ cache'["regime"].value \in RegimeState => cache'["regime"].by = "bench"
<1> SUFFICES ASSUME SourceInv, [Next]_vars
             PROVE  /\ DOMAIN cache' = Keys
                    /\ output'.label \notin RegimeState
                    /\ cache'["regime"].value \in RegimeState => cache'["regime"].by = "bench"
  OBVIOUS
<1>1. /\ DOMAIN cache = Keys /\ output.label \notin RegimeState
      /\ cache["regime"].value \in RegimeState => cache["regime"].by = "bench"
  BY DEF SourceInv
<1>2. NoOutput.label \notin RegimeState
  BY DEF NoOutput, RegimeState
<1>3. CASE SeedCaches
  <2>1. /\ output' = output /\ DOMAIN cache' = {"regime", "meta"}
        /\ cache'["regime"].by = "bench"
    BY <1>3 DEF SeedCaches
  <2> QED
    BY <1>1, <2>1 DEF Keys
<1>4. CASE Infer
  <2>1. cache' = cache /\ (output' = output \/ output'.label \in Labels)
    <3>1. CASE Inferable
      <4>1. PICK x \in Labels, p \in Outputs : output' = [label |-> x, p |-> p]
        BY <1>4, <3>1 DEF Infer, RegimeLabel
      <4> QED
        BY <1>4, <4>1 DEF Infer
    <3>2. CASE ~Inferable
      BY <1>4, <3>2 DEF Infer
    <3> QED
      BY <3>1, <3>2
  <2>2. \A s \in Labels : s \notin RegimeState
    BY FlowAssumption DEF RegimeState
  <2> QED
    BY <1>1, <2>1, <2>2
<1>5. CASE SetRegime
  <2>1. output' = output /\ DOMAIN cache' = Keys /\ cache'["regime"].value = output.label
    BY <1>1, <1>5 DEF SetRegime, Keys
  <2> QED
    BY <1>1, <2>1
<1>6. CASE SetMeta
  <2>1. output' = output /\ DOMAIN cache' = Keys /\ cache'["regime"] = cache["regime"]
    BY <1>1, <1>6 DEF SetMeta, Keys
  <2> QED
    BY <1>1, <2>1
<1>7. CASE WorkerAck \/ RestartMlService
  BY <1>1, <1>2, <1>7 DEF WorkerAck, RestartMlService
<1>8. CASE ~CacheStep
  BY <1>1, <1>8, OtherStepsKeepCaches
<1> QED
  BY <1>3, <1>4, <1>5, <1>6, <1>7, <1>8 DEF CacheStep

\* Nothing fires without a regime that _resolve_regime knows.
LEMMA FiresKnownRegime ==
  ASSUME Fires(LtfRow, Context)
  PROVE  market["regime"].value \in RegimeState
<1>1. ResolveRegime(Context.regime) # "unknown"
  BY DEF Fires, Blocked
<1>2. Context.regime = ResolveRegime(market["regime"].value)
  BY DEF Context
<1> QED
  BY <1>1, <1>2 DEF ResolveRegime, RegimeState

LEMMA NextSource == SourceInv /\ [Next]_vars => SourceInv'
<1> SUFFICES ASSUME SourceInv, [Next]_vars PROVE SourceInv'
  OBVIOUS
<1>1. /\ DOMAIN market = Keys /\ DOMAIN cache = Keys
      /\ cache["regime"].value \in RegimeState => cache["regime"].by = "bench"
      /\ market["regime"].value \in RegimeState => market["regime"].by = "bench"
      /\ pc \in {"insert", "publish"} => proposal.by = "bench"
      /\ \A s \in generated : s.by = "bench"
  BY DEF SourceInv, NoSignalFromTheWorker
<1> DEFINE Rest == /\ DOMAIN market' = Keys
                   /\ market'["regime"].value \in RegimeState => market'["regime"].by = "bench"
                   /\ pc' \in {"insert", "publish"} => proposal'.by = "bench"
                   /\ \A s \in generated' : s.by = "bench"
<1>2. ASSUME Drain PROVE Rest
  BY <1>1, <1>2 DEF Drain, Begin1
<1>3. ASSUME GetCache PROVE Rest
  <2>1. PICK key \in Keys : market' = [market EXCEPT ![key] = cache[key]]
    <3>1. ContextKeys[pc] \in Keys
      BY <1>3 DEF GetCache, ContextKeys, Keys
    <3> QED
      BY <1>3, <3>1 DEF GetCache
  <2>2. DOMAIN market' = Keys /\ (market'["regime"] = market["regime"] \/ market'["regime"] = cache["regime"])
    BY <1>1, <2>1 DEF Keys
  <2>3. pc' \in {"second", "row"} /\ generated' = generated
    BY <1>3 DEF GetCache
  <2> QED
    BY <1>1, <2>2, <2>3
<1>4. ASSUME Evaluate PROVE Rest
  <2>1. UNCHANGED <<market, generated>>
    BY <1>4 DEF Evaluate
  <2>2. pc' = "insert" => proposal'.by = "bench"
    BY <1>1, <1>4, FiresKnownRegime DEF Evaluate
  <2>3. pc' \in {"insert", "ack"}
    BY <1>4 DEF Evaluate
  <2> QED
    BY <1>1, <2>1, <2>2, <2>3
<1>5. ASSUME InsertSignal \/ ConsumerDies PROVE Rest
  BY <1>1, <1>5 DEF InsertSignal, ConsumerDies
<1>6. ASSUME PublishSignal PROVE Rest
  BY <1>1, <1>6 DEF PublishSignal
<1>7. ASSUME Ack \/ RestartConsumer PROVE Rest
  <2>1. market' = NoCache /\ generated' = generated /\ pc' \notin {"insert", "publish"}
    BY <1>7 DEF Ack, RestartConsumer, ForgetEvent, Begin1
  <2>2. market'["regime"].value \notin RegimeState
    BY <2>1, NoCacheFacts DEF RegimeState
  <2> QED
    BY <1>1, <2>1, <2>2, NoCacheFacts
<1>8. ASSUME ~ConsumerStep PROVE Rest
  BY <1>1, <1>8, OtherStepsKeepConsumer
<1>9. Rest
  BY <1>2, <1>3, <1>4, <1>5, <1>6, <1>7, <1>8 DEF ConsumerStep, Consumer
<1> QED
  BY <1>9, CacheSource DEF SourceInv, NoSignalFromTheWorker

\* Where the regimes in the caches and in what the consumer has read come from.
LEMMA SourceHolds == Spec => []SourceInv
<1>1. Init => SourceInv
  <2> SUFFICES ASSUME Init PROVE SourceInv
    OBVIOUS
  <2>1. cache = NoCache /\ market = NoCache /\ output = NoOutput /\ pc = "drain" /\ generated = {}
    BY DEF Init
  <2>2. NoCache["regime"].value \notin RegimeState /\ NoOutput.label \notin RegimeState
    BY NoCacheFacts DEF RegimeState, NoOutput
  <2> QED
    BY <2>1, <2>2, NoCacheFacts DEF SourceInv, NoSignalFromTheWorker
<1> QED
  BY <1>1, NextSource, PTL DEF Spec

\* The worker's labels never satisfy _resolve_regime: whatever the models infer,
\* every signal comes from a regime that was put into the cache by hand.
THEOREM WorkerNeverSignals == Spec => []NoSignalFromTheWorker
<1>1. SourceInv => NoSignalFromTheWorker
  BY DEF SourceInv
<1> QED
  BY <1>1, SourceHolds, PTL

LEMMA FaultsGrow == faults \in Nat /\ [Next]_vars => faults' \in Nat /\ faults <= faults'
<1> SUFFICES ASSUME faults \in Nat, [Next]_vars PROVE faults' = faults \/ faults' = faults + 1
  OBVIOUS
<1> QED
  BY DEF Next, vars, envVars, Worker, Consumer, Computed, SeedCaches, WorkerRead, Infer, SetRegime,
       SetMeta, WorkerAck, InferenceFails, WorkerDies, GroupLost, Drain, GetCache, Evaluate,
       InsertSignal, PublishSignal, Ack, ConsumerDies, RestartConsumer, RecreateGroup,
       Training, Requested, LoadStep, StartLoad, RestartMlService, Fault

Publishing == IF pc = "publish" THEN 1 ELSE 0

\* Ids are given in order, and the one in hand has not been published.
IdsInv ==
    /\ signals = 1 .. Cardinality(signals) /\ Cardinality(signals) \in Nat
    /\ IsFiniteSet(generated) /\ faults \in Nat
    /\ \A s \in generated : s.id \in signals
    /\ pc = "insert" => proposal.id = Cardinality(signals) + 1
    /\ pc = "publish" => proposal.id \in signals /\ \A s \in generated : s.id # proposal.id
    /\ Cardinality(signals) <= Cardinality(generated) + faults + Publishing

LEMMA NextIds == IdsInv /\ [Next]_vars => IdsInv'
<1> SUFFICES ASSUME IdsInv, [Next]_vars PROVE IdsInv'
  OBVIOUS
<1>1. PICK n \in Nat, g \in Nat, f \in Nat, h \in Nat, u \in Nat :
        /\ n = Cardinality(signals) /\ g = Cardinality(generated)
        /\ faults = f /\ faults' = h /\ f <= h
        /\ u = Publishing /\ n <= g + f + u
  <2>1. Cardinality(generated) \in Nat /\ Publishing \in Nat
    BY FS_CardinalityType DEF IdsInv, Publishing
  <2> QED
    BY <2>1, FaultsGrow DEF IdsInv
<1>2. /\ signals = 1 .. n /\ IsFiniteSet(generated)
      /\ \A s \in generated : s.id \in signals
      /\ pc = "insert" => proposal.id = n + 1
      /\ pc = "publish" => proposal.id \in signals /\ \A s \in generated : s.id # proposal.id
  BY <1>1 DEF IdsInv
<1>3. ASSUME UNCHANGED outVars, pc' # "insert", pc' # "publish",
             pc # "publish" \/ h = f + 1
      PROVE  IdsInv'
  <2>1. Publishing' = 0 /\ (u = 0 \/ (u = 1 /\ h = f + 1))
    BY <1>1, <1>3 DEF Publishing
  <2>2. n <= g + h + 0
    BY <1>1, <2>1
  <2> QED
    BY <1>1, <1>2, <1>3, <2>1, <2>2 DEF IdsInv
<1>4. ASSUME UNCHANGED <<outVars, pc, proposal>> PROVE IdsInv'
  <2>1. Publishing' = u /\ n <= g + h + u
    BY <1>1, <1>4 DEF Publishing
  <2> QED
    BY <1>1, <1>2, <1>4, <2>1 DEF IdsInv
<1>5. CASE Drain \/ Ack \/ RestartConsumer \/ GetCache
  <2>1. UNCHANGED outVars /\ pc' # "insert" /\ pc' # "publish" /\ pc # "publish"
    BY <1>5 DEF Drain, Ack, RestartConsumer, GetCache, Begin1
  <2> QED
    BY <1>3, <2>1
<1>6. CASE ConsumerDies
  <2>1. UNCHANGED outVars /\ pc' = "dead" /\ faults' = faults + 1
    BY <1>6 DEF ConsumerDies, Fault
  <2> QED
    BY <1>1, <1>3, <2>1
<1>7. CASE Evaluate
  <2>1. UNCHANGED outVars /\ pc = "row" /\ pc' \in {"insert", "ack"}
    BY <1>7 DEF Evaluate
  <2>2. CASE pc' = "ack"
    BY <1>3, <2>1, <2>2
  <2>3. CASE pc' = "insert"
    <3>1. proposal'.id = Cardinality(signals) + 1
      BY <1>7, <2>3 DEF Evaluate
    <3>2. Publishing' = 0 /\ u = 0 /\ n <= g + h + 0
      BY <1>1, <2>1, <2>3 DEF Publishing
    <3> QED
      BY <1>1, <1>2, <2>1, <2>3, <3>1, <3>2 DEF IdsInv
  <2> QED
    BY <2>1, <2>2, <2>3
<1>8. CASE InsertSignal
  <2>1. /\ pc = "insert" /\ pc' = "publish" /\ signals' = signals \cup {proposal.id}
        /\ UNCHANGED <<generated, proposal>>
    BY <1>8 DEF InsertSignal
  <2>2. PICK m \in Nat : m = n + 1
    OBVIOUS
  <2>3. signals' = 1 .. m /\ proposal.id = m
    BY <1>2, <2>1, <2>2
  <2>4. Cardinality(signals') = m
    BY <2>3, FS_Interval
  <2>5. \A s \in generated : s.id # m
    BY <1>2, <2>2
  <2>6. Publishing' = 1 /\ u = 0 /\ m <= g + h + 1
    BY <1>1, <2>1, <2>2 DEF Publishing
  <2>7. m \in 1 .. m /\ \A s \in generated : s.id \in 1 .. m
    BY <1>2, <2>2
  <2> QED
    BY <1>1, <1>2, <2>1, <2>3, <2>4, <2>5, <2>6, <2>7 DEF IdsInv
<1>9. CASE PublishSignal
  <2>1. /\ pc = "publish" /\ pc' = "ack" /\ generated' = generated \cup {proposal}
        /\ UNCHANGED <<signals, proposal>>
    BY <1>9 DEF PublishSignal
  <2>2. proposal \notin generated
    BY <1>2, <2>1
  <2>3. IsFiniteSet(generated') /\ Cardinality(generated') = g + 1
    BY <1>1, <1>2, <2>1, <2>2, FS_AddElement
  <2>4. Publishing' = 0 /\ u = 1
    BY <1>1, <2>1 DEF Publishing
  <2>5. n <= (g + 1) + h + 0
    BY <1>1, <2>4
  <2> QED
    BY <1>1, <1>2, <2>1, <2>3, <2>4, <2>5 DEF IdsInv
<1>10. CASE ~ConsumerStep
  BY <1>4, <1>10, OtherStepsKeepConsumer
<1> QED
  BY <1>5, <1>6, <1>7, <1>8, <1>9, <1>10 DEF ConsumerStep, Consumer

\* risk-service refers to signals.id: whatever was published is in the table, and a
\* consumer that dies between the two writes leaves one signal unheard.
THEOREM SilenceIsCharged == Spec => []SilentSignalsBounded
<1>1. Init => IdsInv
  <2> SUFFICES ASSUME Init PROVE IdsInv
    OBVIOUS
  <2>1. signals = {} /\ generated = {} /\ pc = "drain" /\ faults = 0
    BY DEF Init
  <2>2. Cardinality(signals) = 0 /\ Cardinality(generated) = 0 /\ IsFiniteSet(generated)
    BY <2>1, FS_EmptySet
  <2>3. 1 .. 0 = {} /\ Publishing = 0
    BY <2>1 DEF Publishing
  <2> QED
    BY <2>1, <2>2, <2>3 DEF IdsInv
<1>2. IdsInv => SilentSignalsBounded
  BY DEF IdsInv, SilentSignalsBounded, Publishing
<1> QED
  BY <1>1, <1>2, NextIds, PTL DEF Spec

-----------------------------------------------------------------------------
(* The age of a decision's parts                                            *)

RegimeAge == cache["regime"].n
MetaAge   == cache["meta"].n
BetweenWrites == wpc = "set meta"

\* The second cache lags behind the inferences by the one between the two writes
\* and by those that failed there.
CacheAge ==
    /\ inferences \in Nat /\ faults \in Nat
    /\ RegimeAge \in Nat /\ MetaAge \in Nat
    /\ RegimeAge <= inferences
    /\ inferences <= MetaAge + faults + 1
    /\ BetweenWrites \/ inferences <= MetaAge + faults

LEMMA NextCacheAge == DOMAIN cache = Keys /\ CacheAge /\ [Next]_vars => CacheAge'
<1> SUFFICES ASSUME DOMAIN cache = Keys, CacheAge, [Next]_vars PROVE CacheAge'
  OBVIOUS
<1>1. PICK f \in Nat : faults' = f /\ faults <= f
  BY FaultsGrow DEF CacheAge
<1>2. CASE SeedCaches
  <2>1. inferences' = inferences /\ RegimeAge' = inferences /\ MetaAge' = inferences
    BY <1>2 DEF SeedCaches, RegimeAge, MetaAge, workerVars
  <2> QED
    BY <1>1, <2>1 DEF CacheAge
<1>3. CASE SetRegime
  <2>1. /\ inferences' = inferences + 1 /\ BetweenWrites' /\ ~BetweenWrites
        /\ RegimeAge' = inferences + 1 /\ MetaAge' = MetaAge
    BY <1>3 DEF SetRegime, RegimeAge, MetaAge, BetweenWrites, Keys
  <2> QED
    BY <1>1, <2>1 DEF CacheAge
<1>4. CASE SetMeta
  <2>1. inferences' = inferences /\ MetaAge' = inferences /\ RegimeAge' = RegimeAge
    BY <1>4 DEF SetMeta, RegimeAge, MetaAge, Keys
  <2> QED
    BY <1>1, <2>1 DEF CacheAge
<1>5. CASE InferenceFails \/ RestartMlService
  <2>1. /\ inferences' = inferences /\ RegimeAge' = RegimeAge /\ MetaAge' = MetaAge
        /\ BetweenWrites => faults' = faults + 1
    BY <1>5 DEF InferenceFails, RestartMlService, Fault, RegimeAge, MetaAge, BetweenWrites
  <2> QED
    BY <1>1, <2>1 DEF CacheAge
<1>6. CASE ~(CacheStep \/ InferenceFails) \/ Infer \/ WorkerAck
  <2>1. inferences' = inferences /\ RegimeAge' = RegimeAge /\ MetaAge' = MetaAge
    BY <1>6, OtherStepsKeepCaches DEF Infer, WorkerAck, RegimeAge, MetaAge
  <2>2. BetweenWrites' <=> BetweenWrites
    BY <1>6 DEF BetweenWrites, CacheStep, Next, vars, workerVars, Worker, Consumer, Computed,
       WorkerRead, Infer, WorkerAck, WorkerDies, GroupLost, Drain, GetCache, Evaluate,
       InsertSignal, PublishSignal, Ack, ConsumerDies, RestartConsumer, RecreateGroup,
       Training, Requested, LoadStep, StartLoad
  <2> QED
    BY <1>1, <2>1, <2>2 DEF CacheAge
<1> QED
  BY <1>2, <1>3, <1>4, <1>5, <1>6 DEF CacheStep

\* What the consumer has read is not newer than what there is, and is not torn.
ReadRegimeAge == market["regime"].n
ReadMetaAge   == market["meta"].n
Deciding      == pc \in {"row", "insert", "publish"}

ContextAge ==
    /\ ReadRegimeAge \in Nat /\ ReadMetaAge \in Nat
    /\ ReadRegimeAge <= inferences
    /\ ~Deciding \/ ReadRegimeAge <= ReadMetaAge + faults + 1

LEMMA InferencesGrow ==
    inferences \in Nat /\ [Next]_vars => inferences' \in Nat /\ inferences <= inferences'
<1> SUFFICES ASSUME inferences \in Nat, [Next]_vars
             PROVE  inferences' = inferences \/ inferences' = inferences + 1
  OBVIOUS
<1>1. CASE ~CacheStep
  BY <1>1, OtherStepsKeepCaches
<1>2. CASE CacheStep
  BY <1>2 DEF CacheStep, SeedCaches, Infer, SetRegime, SetMeta, WorkerAck, RestartMlService,
       workerVars
<1> QED
  BY <1>1, <1>2

LEMMA NextContextAge ==
    DOMAIN market = Keys /\ CacheAge /\ ContextAge /\ [Next]_vars => ContextAge'
<1> SUFFICES ASSUME DOMAIN market = Keys, CacheAge, ContextAge, [Next]_vars PROVE ContextAge'
  OBVIOUS
<1>1. PICK i \in Nat, f \in Nat : /\ inferences' = i /\ inferences <= i
                                  /\ faults' = f /\ faults <= f
  BY InferencesGrow, FaultsGrow DEF CacheAge
<1>2. CASE GetCache /\ pc = "first"
  <2>1. ReadRegimeAge' = RegimeAge /\ ReadMetaAge' = ReadMetaAge /\ ~Deciding'
    BY <1>2 DEF GetCache, ContextKeys, RegimeAge, ReadRegimeAge, ReadMetaAge, Deciding, Keys
  <2> QED
    BY <1>1, <2>1 DEF ContextAge, CacheAge
<1>3. CASE GetCache /\ pc = "second"
  <2>1. ReadRegimeAge' = ReadRegimeAge /\ ReadMetaAge' = MetaAge
    BY <1>3 DEF GetCache, ContextKeys, MetaAge, ReadRegimeAge, ReadMetaAge, Keys
  <2> QED
    BY <1>1, <2>1 DEF ContextAge, CacheAge
<1>4. CASE Ack \/ RestartConsumer
  <2>1. ReadRegimeAge' = 0 /\ ReadMetaAge' = 0
    BY <1>4, NoCacheFacts DEF Ack, RestartConsumer, ForgetEvent, ReadRegimeAge, ReadMetaAge
  <2> QED
    BY <1>1, <2>1 DEF ContextAge, CacheAge
<1>5. CASE Drain \/ Evaluate \/ InsertSignal \/ PublishSignal \/ ConsumerDies
  <2>1. ReadRegimeAge' = ReadRegimeAge /\ ReadMetaAge' = ReadMetaAge
    BY <1>5 DEF Drain, Evaluate, InsertSignal, PublishSignal, ConsumerDies, ReadRegimeAge,
         ReadMetaAge
  <2>2. Deciding' => Deciding
    BY <1>5 DEF Drain, Evaluate, InsertSignal, PublishSignal, ConsumerDies, Begin1, Deciding
  <2> QED
    BY <1>1, <2>1, <2>2 DEF ContextAge, CacheAge
<1>6. CASE ~ConsumerStep
  <2>1. ReadRegimeAge' = ReadRegimeAge /\ ReadMetaAge' = ReadMetaAge /\ (Deciding' <=> Deciding)
    BY <1>6, OtherStepsKeepConsumer DEF ReadRegimeAge, ReadMetaAge, Deciding
  <2> QED
    BY <1>1, <2>1 DEF ContextAge, CacheAge
<1>7. GetCache => pc \in {"first", "second"}
  BY DEF GetCache
<1> QED
  BY <1>2, <1>3, <1>4, <1>5, <1>6, <1>7 DEF ConsumerStep, Consumer

\* However often the caches are written while the consumer reads them one by one,
\* the meta-label of a decision is one inference older than its regime at most, and
\* one more for each inference that failed between its two writes.
THEOREM ContextIsNotTorn == Spec => []ContextNotTorn
<1>1. Init => CacheAge /\ ContextAge
  <2> SUFFICES ASSUME Init PROVE CacheAge /\ ContextAge
    OBVIOUS
  <2>1. /\ inferences = 0 /\ faults = 0 /\ ~BetweenWrites /\ ~Deciding
        /\ RegimeAge = 0 /\ MetaAge = 0 /\ ReadRegimeAge = 0 /\ ReadMetaAge = 0
    BY NoCacheFacts DEF Init, RegimeAge, MetaAge, ReadRegimeAge, ReadMetaAge, BetweenWrites,
         Deciding
  <2> QED
    BY <2>1 DEF CacheAge, ContextAge
<1>2. CacheAge /\ ContextAge => ContextNotTorn
  <2> SUFFICES ASSUME CacheAge, ContextAge, Deciding
               PROVE  ReadRegimeAge <= ReadMetaAge + 1 + faults
    BY DEF ContextNotTorn, Deciding, ReadRegimeAge, ReadMetaAge
  <2> QED
    BY DEF CacheAge, ContextAge
<1>3. SourceInv /\ CacheAge /\ ContextAge /\ [Next]_vars => (CacheAge /\ ContextAge)'
  BY NextCacheAge, NextContextAge DEF SourceInv
<1>4. Spec => []SourceInv
  BY SourceHolds
<1> QED
  BY <1>1, <1>2, <1>3, <1>4, PTL DEF Spec

-----------------------------------------------------------------------------
(* One signal for each reading of an event                                  *)

\* The consumer's place in the stream and its batch, whose head it handles.
QueueInv ==
    /\ stream \in Seq(Event) /\ cursor \in 0 .. Len(stream) /\ rewinds \in Nat
    /\ todo \in Seq(1 .. Len(stream))
    /\ \A k, l \in 1 .. Len(todo) : todo[k] = todo[l] => k = l
    /\ pc \notin {"drain", "dead"} => Len(todo) > 0
    /\ pc \in {"insert", "publish"} => proposal.event = Head(todo)
    /\ IsFiniteSet(generated)
    /\ \A s \in generated : s.event \in 1 .. Len(stream)

Fired(i) == {s \in generated : s.event = i}

\* An event of the batch may still fire, unless it has just been handled.
MayFire(i) ==
    /\ pc # "dead"
    /\ \E k \in 1 .. Len(todo) : todo[k] = i /\ (k = 1 => pc # "ack")

Waiting(i) == IF MayFire(i) THEN 1 ELSE 0
Unread(i)  == IF i > cursor THEN 1 ELSE 0

\* The signals of an event and its chances of another one.
Chances ==
    \A i \in 1 .. Len(stream) :
      Cardinality(Fired(i)) + Waiting(i) + Unread(i) <= 1 + rewinds

LEMMA QueueTypes ==
  ASSUME QueueInv
  PROVE  /\ Len(stream) \in Nat /\ cursor \in Nat /\ cursor <= Len(stream)
         /\ rewinds \in Nat
         /\ Len(todo) \in Nat /\ \A k \in 1 .. Len(todo) : todo[k] \in 1 .. Len(stream)
         /\ \A i : IsFiniteSet(Fired(i)) /\ Cardinality(Fired(i)) \in Nat
<1>1. ASSUME NEW i PROVE IsFiniteSet(Fired(i)) /\ Cardinality(Fired(i)) \in Nat
  <2>1. Fired(i) \in SUBSET generated /\ IsFiniteSet(generated)
    BY DEF QueueInv, Fired
  <2> QED
    BY <2>1, FS_Subset, FS_CardinalityType
<1> QED
  BY <1>1 DEF QueueInv

\* The steps that leave the consumer's queue and what came out of it.
QueueStep ==
    \/ \E tf \in bounds.timeframes, row \in Rows : Computed(tf, row)
    \/ Consumer \/ ConsumerDies \/ RestartConsumer \/ RecreateGroup

LEMMA OtherStepsKeepQueue ==
  ASSUME [Next]_vars, ~QueueStep
  PROVE  UNCHANGED <<stream, cursor, todo, pc, proposal, generated, rewinds>>
BY DEF QueueStep, Next, vars, Worker, SeedCaches, WorkerRead, Infer, SetRegime, SetMeta,
       WorkerAck, InferenceFails, WorkerDies, GroupLost, Training, Requested, LoadStep,
       StartLoad, RestartMlService, Fault

LEMMA Begin1Labels ==
  ASSUME NEW entries
  PROVE  /\ Begin1(entries) \in {"drain", "first", "ack"}
         /\ Begin1(entries) # "drain" => entries # <<>>
BY DEF Begin1

\* A batch is the next part of the stream, one entry at least.
LEMMA NextBatch ==
  ASSUME QueueInv, cursor < Len(stream)
  PROVE  \E m \in Nat \ {0} :
           /\ cursor + m <= Len(stream)
           /\ Batch(cursor, SignalBatch) \in Seq(1 .. Len(stream))
           /\ Len(Batch(cursor, SignalBatch)) = m
           /\ \A k \in 1 .. m : Batch(cursor, SignalBatch)[k] = cursor + k
<1> DEFINE L == Len(stream) - cursor
           m == Min({SignalBatch, L})
<1>1. L \in Nat \ {0} /\ SignalBatch \in Nat \ {0} /\ cursor + L = Len(stream)
  BY QueueTypes, FlowAssumption
<1>2. m \in {SignalBatch, L} /\ m <= L
  <2>1. ASSUME NEW x \in Nat, NEW y \in Nat
        PROVE  Min({x, y}) \in {x, y} /\ Min({x, y}) <= y
    <3>1. \E z \in {x, y} : \A w \in {x, y} : z <= w
      <4>1. CASE x <= y
        BY <4>1
      <4>2. CASE y <= x
        BY <4>2
      <4> QED
        BY <4>1, <4>2
    <3> QED
      BY <3>1 DEF Min
  <2> HIDE DEF L
  <2> QED
    BY <1>1, <2>1
<1>3. m \in Nat \ {0} /\ cursor + m <= Len(stream)
  <2> HIDE DEF m, L
  <2> QED
    BY <1>1, <1>2, QueueTypes
<1>4. Batch(cursor, SignalBatch) = [k \in 1 .. m |-> cursor + k]
  BY DEF Batch
<1>5. ASSUME NEW k \in 1 .. m PROVE cursor + k \in 1 .. Len(stream)
  <2> HIDE DEF m
  <2> QED
    BY <1>3, QueueTypes
<1> HIDE DEF m
<1>6. [k \in 1 .. m |-> cursor + k] \in Seq(1 .. Len(stream))
  BY <1>3, <1>5, SeqDef
<1>7. Len([k \in 1 .. m |-> cursor + k]) = m
  BY <1>3
<1> QED
  BY <1>3, <1>4, <1>6, <1>7

\* Whatever only takes chances away.
LEMMA ChancesShrink ==
  ASSUME QueueInv, Chances, UNCHANGED <<stream, cursor, generated, rewinds>>,
         \A i \in 1 .. Len(stream) : MayFire(i)' => MayFire(i)
  PROVE  Chances'
<1> SUFFICES ASSUME NEW i \in 1 .. Len(stream)
             PROVE  Cardinality(Fired(i)) + Waiting(i)' + Unread(i) <= 1 + rewinds
  BY DEF Chances, Fired, Unread
<1>1. PICK f \in Nat : f = Cardinality(Fired(i))
  BY QueueTypes
<1>2. f + Waiting(i) + Unread(i) <= 1 + rewinds
  BY <1>1 DEF Chances
<1>3. /\ Waiting(i) \in {0, 1} /\ Waiting(i)' \in {0, 1} /\ Unread(i) \in {0, 1}
      /\ Waiting(i)' = 0 \/ Waiting(i) = 1
  BY DEF Waiting, Unread
<1> QED
  BY <1>1, <1>2, <1>3, QueueTypes

LEMMA ComputedKeepsChances ==
  ASSUME StoreInv, QueueInv, Chances,
         NEW tf \in bounds.timeframes, NEW row \in Rows, Computed(tf, row)
  PROVE  QueueInv' /\ Chances'
<1> DEFINE e == [tf |-> tf, row |-> row]
<1>1. e \in Event
  BY FlowAssumption DEF StoreInv, Event
<1>2. /\ stream' = Append(stream, e)
      /\ UNCHANGED <<cursor, todo, pc, proposal, generated, rewinds>>
  BY DEF Computed
<1>3. PICK n \in Nat : n = Len(stream) /\ Len(stream') = n + 1
  BY <1>1, <1>2, QueueTypes DEF QueueInv
<1>4. /\ stream' \in Seq(Event)
      /\ 1 .. n \subseteq 1 .. n + 1
  BY <1>1, <1>2 DEF QueueInv
<1>5. cursor' \in 0 .. n + 1
  BY <1>2, <1>3, QueueTypes
<1>6. todo' \in Seq(1 .. n + 1)
  BY <1>2, <1>3, <1>4 DEF QueueInv
<1>7. \A s \in generated' : s.event \in 1 .. n + 1
  BY <1>2, <1>3, <1>4 DEF QueueInv
<1>8. QueueInv'
  BY <1>2, <1>3, <1>4, <1>5, <1>6, <1>7 DEF QueueInv
<1>9. ASSUME NEW i \in 1 .. n + 1
      PROVE  Cardinality(Fired(i)) + Waiting(i) + Unread(i) <= 1 + rewinds
  <2>1. CASE i \in 1 .. n
    BY <1>3, <2>1 DEF Chances
  <2>2. CASE i = n + 1
    <3>1. \A s \in generated : s.event # i
      BY <1>3, <2>2 DEF QueueInv
    <3>2. Fired(i) = {} /\ Cardinality({}) = 0
      BY <3>1, FS_EmptySet DEF Fired
    <3>3. Waiting(i) = 0
      BY <1>3, <2>2, QueueTypes DEF Waiting, MayFire
    <3>4. Unread(i) \in {0, 1}
      BY DEF Unread
    <3> QED
      BY <3>2, <3>3, <3>4, QueueTypes
  <2> QED
    BY <2>1, <2>2
<1> QED
  BY <1>2, <1>3, <1>8, <1>9 DEF Chances, Fired, Waiting, MayFire, Unread

LEMMA RecreateKeepsChances ==
  ASSUME QueueInv, Chances, RecreateGroup
  PROVE  QueueInv' /\ Chances'
<1>1. /\ rewinds' = rewinds + 1 /\ cursor' = 0
      /\ UNCHANGED <<stream, todo, pc, proposal, generated>>
  BY DEF RecreateGroup
<1>2. QueueInv'
  BY <1>1, QueueTypes DEF QueueInv
<1>3. ASSUME NEW i \in 1 .. Len(stream)
      PROVE  Cardinality(Fired(i)) + Waiting(i) + Unread(i)' <= 1 + (rewinds + 1)
  <2>1. PICK f \in Nat : f = Cardinality(Fired(i))
    BY QueueTypes
  <2>2. f + Waiting(i) + Unread(i) <= 1 + rewinds
    BY <2>1 DEF Chances
  <2>3. Waiting(i) \in {0, 1} /\ Unread(i) \in {0, 1} /\ Unread(i)' \in {0, 1}
    BY DEF Waiting, Unread
  <2> QED
    BY <2>1, <2>2, <2>3, QueueTypes
<1> QED
  BY <1>1, <1>2, <1>3 DEF Chances, Fired, Waiting, MayFire

\* What was unread waits in the batch now.
LEMMA DrainKeepsChances ==
  ASSUME QueueInv, Chances, Drain
  PROVE  QueueInv' /\ Chances'
<1>1. /\ pc = "drain" /\ cursor < Len(stream)
      /\ todo' = Batch(cursor, SignalBatch)
      /\ cursor' = cursor + Len(todo') /\ pc' = Begin1(todo')
      /\ UNCHANGED <<stream, proposal, generated, rewinds>>
  BY DEF Drain
<1>2. PICK m \in Nat \ {0} :
        /\ cursor + m <= Len(stream)
        /\ todo' \in Seq(1 .. Len(stream)) /\ Len(todo') = m
        /\ \A k \in 1 .. m : todo'[k] = cursor + k
  BY <1>1, NextBatch
<1>3. cursor' = cursor + m /\ cursor' \in 0 .. Len(stream)
  BY <1>1, <1>2, QueueTypes
<1>4. \A k, l \in 1 .. m : todo'[k] = todo'[l] => k = l
  BY <1>2, QueueTypes
<1>5. pc' \in {"drain", "first", "ack"}
  BY <1>1, Begin1Labels
<1>6. QueueInv'
  BY <1>1, <1>2, <1>3, <1>4, <1>5 DEF QueueInv
<1>7. ASSUME NEW i \in 1 .. Len(stream)
      PROVE  Cardinality(Fired(i)) + Waiting(i)' + Unread(i)' <= 1 + rewinds
  <2>1. PICK f \in Nat : f = Cardinality(Fired(i))
    BY QueueTypes
  <2>2. f + Waiting(i) + Unread(i) <= 1 + rewinds
    BY <2>1 DEF Chances
  <2>3. /\ Waiting(i) \in {0, 1} /\ Unread(i) \in {0, 1}
        /\ Waiting(i)' \in {0, 1} /\ Unread(i)' \in {0, 1}
    BY DEF Waiting, Unread
  <2>4. CASE i > cursor
    <3>1. Unread(i) = 1
      BY <2>4 DEF Unread
    <3>2. Waiting(i)' = 0 \/ Unread(i)' = 0
      <4>1. ASSUME MayFire(i)' PROVE i <= cursor'
        BY <1>2, <1>3, <4>1, QueueTypes DEF MayFire
      <4> QED
        BY <1>3, <4>1, QueueTypes DEF Waiting, Unread
    <3> QED
      BY <2>1, <2>2, <2>3, <3>1, <3>2, QueueTypes
  <2>5. CASE ~(i > cursor)
    <3>1. ~MayFire(i)'
      BY <1>2, <2>5, QueueTypes DEF MayFire
    <3>2. ~(i > cursor')
      BY <1>2, <1>3, <2>5, QueueTypes
    <3>3. Waiting(i)' = 0 /\ Unread(i)' = 0
      BY <3>1, <3>2 DEF Waiting, Unread
    <3> QED
      BY <2>1, <2>2, <2>3, <3>3, QueueTypes
  <2> QED
    BY <2>4, <2>5
<1> QED
  BY <1>1, <1>6, <1>7 DEF Chances, Fired

\* The head of the batch is published and has had its chance.
LEMMA PublishKeepsChances ==
  ASSUME QueueInv, Chances, PublishSignal
  PROVE  QueueInv' /\ Chances'
<1>1. /\ pc = "publish" /\ pc' = "ack" /\ generated' = generated \cup {proposal}
      /\ UNCHANGED <<stream, cursor, todo, proposal, rewinds>>
  BY DEF PublishSignal
<1>2. Len(todo) > 0 /\ proposal.event = Head(todo)
  BY <1>1 DEF QueueInv
<1>3. PICK h \in 1 .. Len(stream) : h = todo[1] /\ proposal.event = h
  <2>1. 1 \in 1 .. Len(todo) /\ todo # <<>> /\ todo \in Seq(1 .. Len(stream))
    BY <1>2, QueueTypes DEF QueueInv
  <2>2. Head(todo) = todo[1] /\ todo[1] \in 1 .. Len(stream)
    BY <2>1, QueueTypes
  <2> QED
    BY <1>2, <2>2
<1>4. IsFiniteSet(generated')
  BY <1>1, FS_AddElement DEF QueueInv
<1>5. QueueInv'
  BY <1>1, <1>2, <1>3, <1>4 DEF QueueInv
<1>6. ASSUME NEW i \in 1 .. Len(stream)
      PROVE  Cardinality(Fired(i)') + Waiting(i)' + Unread(i) <= 1 + rewinds
  <2>1. PICK f \in Nat : f = Cardinality(Fired(i)) /\ IsFiniteSet(Fired(i))
    BY QueueTypes
  <2>2. f + Waiting(i) + Unread(i) <= 1 + rewinds
    BY <2>1 DEF Chances
  <2>3. Waiting(i) \in {0, 1} /\ Waiting(i)' \in {0, 1} /\ Unread(i) \in {0, 1}
    BY DEF Waiting, Unread
  <2>4. CASE i = h
    <3>1. Fired(i)' = Fired(i) \cup {proposal}
      BY <1>1, <1>3, <2>4 DEF Fired
    <3>2. PICK g \in Nat : g = Cardinality(Fired(i)') /\ g <= f + 1
      <4>1. Cardinality(Fired(i) \cup {proposal}) = f \/ Cardinality(Fired(i) \cup {proposal}) = f + 1
        BY <2>1, FS_AddElement
      <4> QED
        BY <2>1, <3>1, <4>1
    <3>3. Waiting(i) = 1
      <4>1. 1 \in 1 .. Len(todo)
        BY <1>2, QueueTypes
      <4> QED
        BY <1>1, <1>3, <2>4, <4>1 DEF Waiting, MayFire
    <3>4. Waiting(i)' = 0
      <4>1. \A k \in 1 .. Len(todo) : todo[k] = i => k = 1
        <5>1. 1 \in 1 .. Len(todo)
          BY <1>2, QueueTypes
        <5> QED
          BY <1>3, <2>4, <5>1 DEF QueueInv
      <4> QED
        BY <1>1, <4>1 DEF Waiting, MayFire
    <3> QED
      BY <2>1, <2>2, <2>3, <3>2, <3>3, <3>4, QueueTypes
  <2>5. CASE i # h
    <3>1. Fired(i)' = Fired(i)
      BY <1>1, <1>3, <2>5 DEF Fired
    <3>2. MayFire(i)' => MayFire(i)
      BY <1>1 DEF MayFire
    <3>3. Waiting(i)' = 0 \/ Waiting(i) = 1
      BY <3>2 DEF Waiting
    <3> QED
      BY <2>1, <2>2, <2>3, <3>1, <3>3, QueueTypes
  <2> QED
    BY <2>4, <2>5
<1> QED
  BY <1>1, <1>5, <1>6 DEF Chances, Unread

\* The other steps of the consumer: nothing is read or published.
LEMMA HandlingKeepsChances ==
  ASSUME QueueInv, Chances, GetCache \/ Evaluate \/ InsertSignal
  PROVE  QueueInv' /\ Chances'
<1>1. /\ UNCHANGED <<stream, cursor, todo, generated, rewinds>>
      /\ pc \in {"first", "second", "row", "insert"} /\ pc' # "dead"
  BY DEF GetCache, Evaluate, InsertSignal
<1>2. pc' \in {"insert", "publish"} => proposal'.event = Head(todo)
  BY <1>1 DEF GetCache, Evaluate, InsertSignal, QueueInv
<1>3. QueueInv'
  BY <1>1, <1>2 DEF QueueInv
<1>4. \A i \in 1 .. Len(stream) : MayFire(i)' => MayFire(i)
  BY <1>1 DEF MayFire
<1> QED
  BY <1>1, <1>3, <1>4, ChancesShrink

LEMMA LeavingKeepsChances ==
  ASSUME QueueInv, Chances, Ack \/ ConsumerDies \/ RestartConsumer
  PROVE  QueueInv' /\ Chances'
<1>1. UNCHANGED <<stream, cursor, generated, rewinds>>
  BY DEF Ack, ConsumerDies, RestartConsumer, Fault
<1>2. CASE Ack
  <2>1. /\ pc = "ack" /\ todo' = Tail(todo) /\ pc' = Begin1(todo') /\ Len(todo) > 0
    BY <1>2 DEF Ack, QueueInv
  <2>2. PICK n \in Nat : Len(todo) = n + 1
    <3>1. Len(todo) - 1 \in Nat /\ Len(todo) = (Len(todo) - 1) + 1
      BY <2>1, QueueTypes
    <3> QED
      BY <3>1
  <2>3. /\ todo' \in Seq(1 .. Len(stream)) /\ Len(todo') = n
        /\ \A k \in 1 .. n : todo'[k] = todo[k + 1]
    <3>1. todo \in Seq(1 .. Len(stream)) /\ todo # <<>>
      BY <2>1 DEF QueueInv
    <3>2. todo' \in Seq(1 .. Len(stream)) /\ Len(todo') = Len(todo) - 1
      BY <2>1, <3>1
    <3>3. Len(todo') = n
      BY <2>2, <3>2
    <3>4. \A k \in 1 .. Len(todo') : todo'[k] = todo[k + 1]
      BY <2>1, <3>1
    <3> QED
      BY <3>2, <3>3, <3>4
  <2>4. \A k \in 1 .. n : k + 1 \in 1 .. n + 1 /\ k + 1 # 1
    OBVIOUS
  <2>5. \A k, l \in 1 .. n : todo'[k] = todo'[l] => k = l
    <3>1. ASSUME NEW k \in 1 .. n, NEW l \in 1 .. n, todo'[k] = todo'[l] PROVE k + 1 = l + 1
      BY <2>2, <2>3, <2>4, <3>1 DEF QueueInv
    <3> QED
      BY <3>1
  <2>6. pc' \in {"drain", "first", "ack"} /\ (pc' # "drain" => n > 0)
    <3>1. pc' # "drain" => todo' # <<>>
      BY <2>1, Begin1Labels
    <3>2. n = 0 => todo' = <<>>
      BY <2>3
    <3> QED
      BY <2>1, <3>1, <3>2, Begin1Labels
  <2>7. QueueInv'
    BY <1>1, <2>3, <2>5, <2>6 DEF QueueInv
  <2>8. ASSUME NEW i \in 1 .. Len(stream), MayFire(i)' PROVE MayFire(i)
    <3>1. PICK k \in 1 .. n : todo'[k] = i
      BY <2>3, <2>8 DEF MayFire
    <3>2. k + 1 \in 1 .. Len(todo) /\ todo[k + 1] = i /\ k + 1 # 1
      BY <2>2, <2>3, <2>4, <3>1
    <3> QED
      BY <2>1, <3>2 DEF MayFire
  <2> QED
    BY <1>1, <2>7, <2>8, ChancesShrink
<1>3. CASE ConsumerDies
  <2>1. pc' = "dead" /\ todo' = todo
    BY <1>3 DEF ConsumerDies
  <2>2. QueueInv'
    BY <1>1, <2>1 DEF QueueInv
  <2> QED
    BY <1>1, <2>1, <2>2, ChancesShrink DEF MayFire
<1>4. CASE RestartConsumer
  <2>1. pc' = "drain" /\ todo' = <<>>
    BY <1>4 DEF RestartConsumer
  <2>2. Len(todo') = 0 /\ todo' \in Seq(1 .. Len(stream)) /\ 1 .. 0 = {}
    BY <2>1
  <2>3. QueueInv'
    BY <1>1, <2>1, <2>2 DEF QueueInv
  <2> QED
    BY <1>1, <2>2, <2>3, ChancesShrink DEF MayFire
<1> QED
  BY <1>2, <1>3, <1>4

LEMMA NextChances ==
  StoreInv /\ QueueInv /\ Chances /\ [Next]_vars => QueueInv' /\ Chances'
<1> SUFFICES ASSUME StoreInv, QueueInv, Chances, [Next]_vars PROVE QueueInv' /\ Chances'
  OBVIOUS
<1>1. CASE ~QueueStep
  <2>1. UNCHANGED <<stream, cursor, todo, pc, proposal, generated, rewinds>>
    BY <1>1, OtherStepsKeepQueue
  <2> QED
    BY <2>1 DEF QueueInv, Chances, Fired, Waiting, MayFire, Unread
<1> QED
  BY <1>1, ComputedKeepsChances, RecreateKeepsChances, DrainKeepsChances, PublishKeepsChances,
     HandlingKeepsChances, LeavingKeepsChances DEF QueueStep, Consumer

LEMMA InitChances == Init => QueueInv /\ Chances
<1> SUFFICES ASSUME Init PROVE QueueInv /\ Chances
  OBVIOUS
<1>1. stream = <<>> /\ Len(stream) = 0 /\ todo = <<>> /\ Len(todo) = 0 /\ generated = {}
  BY DEF Init
<1>2. 1 .. 0 = {} /\ IsFiniteSet({})
  BY FS_EmptySet
<1> QED
  BY <1>1, <1>2 DEF Init, QueueInv, Chances

(* However often the consumer dies, restarts or falls behind, an event fires *)
(* one signal at most, and one more for every group created again at "0".    *)
THEOREM SignalsFireOnce == Spec => []EventFiresOnce
<1>1. QueueInv /\ Chances => EventFiresOnce
  <2> SUFFICES ASSUME QueueInv, Chances, NEW i \in 1 .. Len(stream)
               PROVE  Cardinality(Fired(i)) <= 1 + rewinds
    BY DEF EventFiresOnce, Fired, QueueInv
  <2>1. PICK f \in Nat : f = Cardinality(Fired(i))
    BY QueueTypes
  <2>2. f + Waiting(i) + Unread(i) <= 1 + rewinds
    BY <2>1 DEF Chances
  <2>3. Waiting(i) \in {0, 1} /\ Unread(i) \in {0, 1}
    BY DEF Waiting, Unread
  <2> QED
    BY <2>1, <2>2, <2>3, QueueTypes
<1> QED
  BY <1>1, InitChances, NextChances, LockInvariance, PTL DEF Spec
=============================================================================
