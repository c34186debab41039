--------------------------- MODULE ModelLifecycle ---------------------------
(***************************************************************************)
(* Training runs and the active model: the API process, its training       *)
(* handler and goroutine, and the MongoDB collections "models" and         *)
(* "training_runs" that outlive it.                                        *)
(*                                                                         *)
(* Each database call is one action.  It succeeds, or it returns an error  *)
(* with or without having taken effect (the answer may be lost, and a      *)
(* request's context may be cancelled).  The process may die between any   *)
(* two actions: a SIGTERM does not wait for the training goroutine either. *)
(* Errors and crashes are bounded by MaxFaults.                            *)
(***************************************************************************)
EXTENDS Naturals, FiniteSets

CONSTANTS
    Runs,           \* the training runs that may be asked for
    Initial,        \* the model of the model file; its version never changes
    Legacy,         \* an active model with another target, from an older release
    None,
    MaxFaults       \* bound on database errors and crashes

ASSUME DistinctAssumption ==
    /\ Initial # Legacy /\ None \notin {Initial, Legacy}
    /\ Runs \cap {Initial, Legacy, None} = {}
ASSUME MaxFaultsAssumption == MaxFaults \in Nat

\* The model that run r trains is named r: its version and its _id are new.
Models == {Initial, Legacy} \cup Runs

VARIABLES
    docs,       \* the models stored; unique by model.version
    active,     \* those stored with active = true
    runs,       \* the status of each document of training_runs
    process,    \* the API process: "down", a step of the boot, "serving" or "refused"
    memory,     \* Server.activeModel
    training,   \* Server.training
    job,        \* where the request of each run is: createTraining, then runTraining
    advertised, \* the ModelVersion of the nodes
    faults      \* how many database errors and crashes there have been

vars == <<docs, active, runs, process, memory, training, job, advertised, faults>>

Steps == {"create", "start", "train", "insert", "deactivate", "activate", "complete", "swap",
          "fail", "release"}

TypeOK ==
    /\ docs \subseteq Models
    /\ active \subseteq docs
    /\ runs \in [Runs -> {"none", "queued", "running", "completed", "failed"}]
    /\ process \in {"down", "finding", "demoting", "seeding", "serving", "refused"}
    /\ memory \in Models \cup {None}
    /\ training \in BOOLEAN
    /\ job \in [Runs -> Steps \cup {"none", "ended"}]
    /\ advertised \in Runs \cup {None}
    /\ faults \in 0 .. MaxFaults

Init ==
    /\ docs \in {{}, {Legacy}}
    /\ active = docs
    /\ runs = [r \in Runs |-> "none"]
    /\ process = "down"
    /\ memory = None
    /\ training = FALSE
    /\ job = [r \in Runs |-> "none"]
    /\ advertised = None
    /\ faults = 0

Fault == faults < MaxFaults /\ faults' = faults + 1

-----------------------------------------------------------------------------
(* The boot of the API, up to EnsureInitialModel.  Names ending in _Bug are *)
(* deliberately wrong variants of the definition below them.                *)

Start ==
    /\ process \in {"down", "refused"}
    /\ process' = "finding"
    /\ UNCHANGED <<docs, active, runs, memory, training, job, advertised, faults>>

\* FindOne returns any of the active models.
FindActive ==
    /\ process = "finding"
    /\ \/ \E m \in active \ {Legacy} : process' = "serving" /\ memory' = m
       \/ Legacy \in active /\ process' = "demoting" /\ UNCHANGED memory
       \/ active = {} /\ process' = "seeding" /\ UNCHANGED memory
    /\ UNCHANGED <<docs, active, runs, training, job, advertised, faults>>

FindFails ==
    /\ process = "finding"
    /\ Fault
    /\ process' = "down"
    /\ UNCHANGED <<docs, active, runs, memory, training, job, advertised>>

\* The result of this UpdateMany is ignored.
Demote ==
    /\ process = "demoting"
    /\ \/ active' = {} /\ UNCHANGED faults
       \/ active' = active /\ Fault
    /\ process' = "seeding"
    /\ UNCHANGED <<docs, runs, memory, training, job, advertised>>

Seed ==
    /\ process = "seeding"
    /\ Initial \notin docs
    /\ docs' = docs \cup {Initial}
    /\ active' = active \cup {Initial}
    /\ process' = "serving"
    /\ memory' = Initial
    /\ UNCHANGED <<runs, training, job, advertised, faults>>

SeedFails ==
    /\ process = "seeding"
    /\ Initial \notin docs
    /\ Fault
    /\ \/ docs' = docs \cup {Initial} /\ active' = active \cup {Initial}
       \/ UNCHANGED <<docs, active>>
    /\ process' = "down"
    /\ UNCHANGED <<runs, memory, training, job, advertised>>

\* The unique index on model.version refuses a second document of the initial version.
SeedRefused ==
    /\ process = "seeding"
    /\ Initial \in docs
    /\ process' = "refused"
    /\ UNCHANGED <<docs, active, runs, memory, training, job, advertised, faults>>

Boot == Start \/ FindActive \/ FindFails \/ Demote \/ Seed \/ SeedFails \/ SeedRefused

Crash ==
    /\ process # "down"
    /\ Fault
    /\ process' = "down"
    /\ memory' = None
    /\ training' = FALSE
    /\ job' = [r \in Runs |-> IF job[r] = "none" THEN "none" ELSE "ended"]
    /\ advertised' = None
    /\ UNCHANGED <<docs, active, runs>>

-----------------------------------------------------------------------------
(* createTraining and runTraining.                                          *)

Goto(r, step) == job' = [job EXCEPT ![r] = step]

\* A database call of run r with this effect: it works and the run goes on, or it returns
\* an error, with or without the effect, and the run goes to its error path.
Call(r, from, effect, unchanged, to, onError) ==
    /\ job[r] = from
    /\ \/ effect /\ Goto(r, to) /\ UNCHANGED faults
       \/ (effect \/ unchanged) /\ Goto(r, onError) /\ Fault
    /\ UNCHANGED <<process, memory, advertised>>

SetStatus(r, status) == runs' = [runs EXCEPT ![r] = status]

Free_Bug == TRUE                                     \* the flag is set, not compared
Free == ~training

\* The compare-and-swap; a request that finds the flag set is answered 409.
Accept(r) ==
    /\ process = "serving"
    /\ job[r] = "none"
    /\ Free
    /\ training' = TRUE
    /\ Goto(r, "create")
    /\ UNCHANGED <<docs, active, runs, process, memory, advertised, faults>>

\* The error path of createTraining has its own Store(false) and records no failure.
AfterCreateError_Bug == "ended"                      \* that Store(false) is forgotten
AfterCreateError == "release"

CreateTraining(r) ==
    /\ Call(r, "create", SetStatus(r, "queued"), UNCHANGED runs, "start", AfterCreateError)
    /\ UNCHANGED <<docs, active, training>>

StartTraining(r) ==
    /\ Call(r, "start", SetStatus(r, "running"), UNCHANGED runs, "train", "fail")
    /\ UNCHANGED <<docs, active, training>>

AfterTrainError_Bug == "release"                     \* the failure is not recorded
AfterTrainError == "fail"

\* Coordinator.Train (Training) returns a model, and names it on the nodes, or an error.
Train(r) ==
    /\ job[r] = "train"
    /\ \/ Goto(r, "insert") /\ advertised' = r
       \/ Goto(r, AfterTrainError) /\ UNCHANGED advertised
    /\ UNCHANGED <<docs, active, runs, process, memory, training, faults>>

\* CompleteTraining: four writes, in this order.
Inserted(r) == docs \cup {r}

InsertModel(r) ==
    /\ Call(r, "insert", docs' = Inserted(r), UNCHANGED docs, "deactivate", "fail")
    /\ UNCHANGED <<active, runs, training>>

Deactivated_Bug == active                            \* the old model is left active
Deactivated == {}

DeactivateModels(r) ==
    /\ Call(r, "deactivate", active' = Deactivated, UNCHANGED active, "activate", "fail")
    /\ UNCHANGED <<docs, runs, training>>

Activated_Bug(r) == active                           \* the filter matches no document
Activated(r) == active \cup {r}

ActivateModel(r) ==
    /\ Call(r, "activate", active' = Activated(r), UNCHANGED active, "complete", "fail")
    /\ UNCHANGED <<docs, runs, training>>

CompleteRun(r) ==
    /\ Call(r, "complete", SetStatus(r, "completed"), UNCHANGED runs, "swap", "fail")
    /\ UNCHANGED <<docs, active, training>>

Trained_Bug(r) == memory                             \* the old model is kept in memory
Trained(r) == r

SwapModel(r) ==
    /\ job[r] = "swap"
    /\ memory' = Trained(r)
    /\ Goto(r, "release")
    /\ UNCHANGED <<docs, active, runs, process, training, advertised, faults>>

FailTraining(r) ==
    /\ Call(r, "fail", SetStatus(r, "failed"), UNCHANGED runs, "release", "release")
    /\ UNCHANGED <<docs, active, training>>

Release(r) ==
    /\ job[r] = "release"
    /\ training' = FALSE
    /\ Goto(r, "ended")
    /\ UNCHANGED <<docs, active, runs, process, memory, advertised, faults>>

-----------------------------------------------------------------------------
RunTraining(r) ==
    \/ CreateTraining(r) \/ StartTraining(r) \/ Train(r)
    \/ InsertModel(r) \/ DeactivateModels(r) \/ ActivateModel(r) \/ CompleteRun(r)
    \/ SwapModel(r) \/ FailTraining(r) \/ Release(r)

Next ==
    \/ Boot \/ Crash
    \/ \E r \in Runs : Accept(r) \/ RunTraining(r)

Spec == Init /\ [][Next]_vars

(* A run that has been accepted goes on while the process lives: database   *)
(* calls end and Train returns (TrainReturns of Training).                  *)
FairSpec == Spec /\ \A r \in Runs : WF_vars(RunTraining(r))

-----------------------------------------------------------------------------
(* Properties.                                                              *)

Live(r) == job[r] \in Steps

\* server.go:483-497: whatever fails and whenever, no two training runs are in progress at
\* once, and the flag that says so is set from the request to the end of its goroutine.
OneTrainingAtATime ==
    \A r \in Runs : Live(r) => training /\ \A q \in Runs : Live(q) => q = r

\* mongo.go:262-271, 346-351: no sequence of failed writes and crashes leaves two models of
\* the current target active, between which ActiveModel would pick at random.
OneActiveModel == Cardinality(active \ {Legacy}) <= 1

\* server.go:520-527: the API never predicts with a model that a restart could not bring
\* back: what is in memory is stored.
ServedModelIsStored == process = "serving" => memory \in docs

\* server.go:520-527, mongo.go:339-356: when no run is in progress, the model in memory is
\* the one the database calls active.  One failed call or one crash can break that only for a
\* run that is then not reported as completed; it takes a second one (the last write of
\* CompleteTraining loses its answer and FailTraining is not applied) to hide it.
ServedModelIsActive ==
    process = "serving" /\ ~training =>
        \/ active \ {Legacy} = {memory}
        \/ \E r \in docs \cap Runs : runs[r] # "completed"
        \/ faults > 1

\* mongo.go:341-355: a run is reported completed only once its model is the active one.
CompletedOnceActive ==
    [][\A r \in Runs : runs[r] # "completed" /\ runs'[r] = "completed" => active = {r}]_vars

\* server.go:483-497: the training slot is given back, whichever way a run ends: one run that
\* fails does not answer every later request with 409.
SlotIsReleased == training ~> ~training

\* server.go:496-528: as long as no database call fails and the process lives, a run that was
\* queued is reported completed or failed in the end.
RunsEnd ==
    \A r \in Runs : (runs[r] = "queued") ~> (runs[r] \in {"completed", "failed"} \/ faults > 0)

\* mongo_test.go:23-31: EnsureInitialModel gives the API a model to start with, so that the
\* boot is never refused, whatever was stored before.
BootSucceeds == process # "refused"
=============================================================================
