----------------------------- MODULE ModelStore -----------------------------
(***************************************************************************)
(* The model files of ml-service: the training jobs that write them        *)
(* (routes.py, vix_core.artifacts.save_artifact) and the inference worker  *)
(* that loads them (worker.py, load_artifact).                             *)
(*                                                                         *)
(* A file holds the model of one training, a generation; 0 is no file, and *)
(* Torn one that is not written to its end.  A sidecar names the           *)
(* generation whose digest it holds.                                       *)
(***************************************************************************)
EXTENDS Naturals, FiniteSets

CONSTANTS
    Requests,   \* calls of POST /train
    NoRequest,  \* nobody holds the lock
    Torn        \* content of a file that is being written

ASSUME ModelStoreAssumption ==
    /\ IsFiniteSet(Requests)
    /\ NoRequest \notin Requests
    /\ Torn \notin Nat

Models == {"regime", "meta"}

VARIABLES
    file, sidecar,  \* contents, for each model
    lock,           \* _TRAIN_LOCK
    train,          \* the state of each request
    generation,     \* trainings started
    loading,        \* the next step of the worker's _load_models
    checked,        \* the generation whose digest it found right
    raced,          \* was the file written since?
    bundle          \* the models in the worker's memory, 0 for None

fileVars  == <<file, sidecar>>
trainVars == <<lock, train, generation>>
loadVars  == <<loading, checked, raced, bundle>>
storeVars == <<fileVars, trainVars, loadVars>>

Generations == 0 .. Cardinality(Requests) + 1

Working == {"fit", "dump", "end", "sidecar"}
Steps   == {"idle", "queued", "done", "skipped"} \cup Working

Idle    == <<"idle", "none">>

StoreTypeOK ==
    /\ file \in [Models -> Generations \cup {Torn}]
    /\ sidecar \in [Models -> Generations]
    /\ lock \in Requests \cup {NoRequest}
    /\ train \in [Requests -> [step : Steps, model : Models, gen : Generations]]
    /\ generation \in Generations
    /\ loading \in ({"verify", "read"} \X Models) \cup {Idle}
    /\ checked \in Generations /\ raced \in BOOLEAN
    /\ bundle \in [Models -> Generations]

\* With or without the models of an earlier training, on the disk and loaded.
StoreInit(trained, loaded) ==
    /\ file = [m \in Models |-> IF trained THEN 1 ELSE 0] /\ sidecar = file
    /\ lock = NoRequest
    /\ train = [j \in Requests |-> [step |-> "idle", model |-> "regime", gen |-> 0]]
    /\ generation = file["meta"]
    /\ loading = Idle
    /\ checked = 0 /\ raced = FALSE
    /\ bundle = [m \in Models |-> IF loaded THEN file[m] ELSE 0]

-----------------------------------------------------------------------------
(* POST /train                                                              *)

To(j, step) == train' = [train EXCEPT ![j].step = step]

Queue(j) ==
    /\ train[j].step = "idle"
    /\ To(j, "queued")
    /\ UNCHANGED <<fileVars, lock, generation, loadVars>>

Begin(j) ==
    /\ lock' = j
    /\ generation' = generation + 1
    /\ train' = [train EXCEPT ![j] = [@ EXCEPT !.step = "fit", !.gen = generation']]

\* acquire(blocking=False): a second request is skipped, not queued.
Acquire(j) ==
    /\ train[j].step = "queued"
    /\ \/ lock = NoRequest /\ Begin(j)
       \/ lock # NoRequest /\ To(j, "skipped") /\ UNCHANGED <<lock, generation>>
    /\ UNCHANGED <<fileVars, loadVars>>

Finish(j) == To(j, "done") /\ lock' = NoRequest

Loadable(m) == file[m] # 0 /\ file[m] = sidecar[m]

\* Rows are fetched and a model is fitted; the regime model is loaded back for
\* the other one.  Too few rows or any other exception is logged, and the lock
\* is released whatever happened.
Fit(j) ==
    /\ train[j].step = "fit"
    /\ \/ /\ train[j].model = "meta" => Loadable("regime")
          /\ To(j, "dump")
          /\ UNCHANGED lock
       \/ Finish(j)
    /\ UNCHANGED <<fileVars, generation, loadVars>>

\* joblib.dump opens the file in place, and writes it.
Dump(j) ==
    /\ train[j].step = "dump"
    /\ file' = [file EXCEPT ![train[j].model] = Torn]
    /\ raced' = (raced \/ loading = <<"read", train[j].model>>)
    /\ To(j, "end")
    /\ UNCHANGED <<sidecar, lock, generation, loading, checked, bundle>>

DumpEnds(j) ==
    /\ train[j].step = "end"
    /\ file' = [file EXCEPT ![train[j].model] = train[j].gen]
    /\ To(j, "sidecar")
    /\ UNCHANGED <<sidecar, lock, generation, loadVars>>

WriteSidecar(j) ==
    /\ train[j].step = "sidecar"
    /\ sidecar' = [sidecar EXCEPT ![train[j].model] = file[train[j].model]]
    /\ IF train[j].model = "regime"
       THEN /\ train' = [train EXCEPT ![j] = [@ EXCEPT !.step = "fit", !.model = "meta"]]
            /\ UNCHANGED lock
       ELSE Finish(j)
    /\ UNCHANGED <<file, generation, loadVars>>

Train(j) == Acquire(j) \/ Fit(j) \/ Dump(j) \/ DumpEnds(j) \/ WriteSidecar(j)

-----------------------------------------------------------------------------
(* The worker's _load_models                                                *)

NotLoaded == \E m \in Models : bundle[m] = 0

LoadFails == loading' = Idle /\ checked' = 0 /\ UNCHANGED raced

\* Mutant: a sidecar is enough, the digest is not computed.
Verify_Exists(m) ==
    /\ loading = <<"verify", m>>
    /\ IF file[m] # 0 /\ sidecar[m] # 0
       THEN loading' = <<"read", m>> /\ checked' = sidecar[m] /\ raced' = FALSE
       ELSE LoadFails
    /\ UNCHANGED <<fileVars, trainVars, bundle>>

\* verify_artifact: anything wrong ends the attempt.
Verify(m) ==
    /\ loading = <<"verify", m>>
    /\ IF Loadable(m)
       THEN loading' = <<"read", m>> /\ checked' = sidecar[m] /\ raced' = FALSE
       ELSE LoadFails
    /\ UNCHANGED <<fileVars, trainVars, bundle>>

\* joblib.load opens the file again: it may have been written since, and one
\* that is being written cannot be read.
Read(m) ==
    /\ loading = <<"read", m>>
    /\ IF file[m] = Torn
       THEN LoadFails /\ UNCHANGED bundle
       ELSE /\ bundle' = [bundle EXCEPT ![m] = file[m]]
            /\ loading' = IF m = "regime" THEN <<"verify", "meta">> ELSE Idle
            /\ checked' = 0
            /\ UNCHANGED raced
    /\ UNCHANGED <<fileVars, trainVars>>

Load == \E m \in Models : Verify(m) \/ Read(m)

-----------------------------------------------------------------------------
\* "Only ONE training pipeline may run at a time" (routes.py:42): whatever is
\* queued and skipped meanwhile, one job at most writes the files.
TrainersExclusive ==
    \A i, j \in Requests :
      train[i].step \in Working /\ train[j].step \in Working => i = j

\* Loading fails closed (artifacts.py:7): what a killed job left without its
\* sidecar is never loaded, and a model the worker did not verify is one that was
\* written between its two reads of the file.
UnverifiedOnlyByRace ==
    [][\A m \in Models : bundle'[m] \notin {bundle[m], 0} =>
          bundle'[m] = checked \/ raced]_storeVars
=============================================================================
