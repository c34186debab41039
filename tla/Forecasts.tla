------------------------------ MODULE Forecasts ------------------------------
(***************************************************************************)
(* A forecast, from the HTTP request to the stored record: the model that  *)
(* is active when the request reads it, the Redis cache keyed by version   *)
(* and features, the prediction on one of the workers (round robin with    *)
(* failover), and the asynchronous persistence with its queue, its one     *)
(* worker and its overflow goroutines.  Meanwhile trainings swap the       *)
(* active model, entries of the cache expire, clients go away and the API  *)
(* restarts.                                                               *)
(*                                                                         *)
(* A prediction is what it was computed from: model and features.  Only    *)
(* requests whose readings are valid are modelled; the others are refused  *)
(* before anything is read or written.                                     *)
(***************************************************************************)
EXTENDS Integers, Sequences, FiniteSets

CONSTANTS
    Requests,
    Inputs,         \* feature vectors
    MaxModel,       \* bound on trainings: versions are 1, 2, ... MaxModel, in time
    NodeIds,        \* worker names; numbers, because snapshots are sorted by name
    Capacity,       \* of persistQueue
    MaxFaults,      \* bound on failed database calls and restarts
    None

ASSUME MaxModelAssumption == MaxModel \in Nat \ {0}
ASSUME NodeIdsAssumption == NodeIds \subseteq Nat /\ IsFiniteSet(NodeIds)
ASSUME CapacityAssumption == Capacity \in Nat \ {0}
ASSUME MaxFaultsAssumption == MaxFaults \in Nat
ASSUME NoneAssumption == None \notin Requests

Models == 1 .. MaxModel
Inferences == [model : Models, input : Inputs]
ASSUME NoneNotInference == None \notin Inferences

VARIABLES
    steady,         \* the workers that stay healthy and always answer in time
    up,             \* the API process runs
    activeModel,    \* Server.activeModel
    rr,             \* Coordinator.rr
    cache,          \* Redis: key -> inference; it outlives the process
    stage,          \* where the goroutine of each request is
    input,          \* the features of each request
    model,          \* its local copy of the active model
    nodes,          \* Predict's snapshot
    start, attempt, \* Predict's loop
    inference,      \* its inference
    gone,           \* the requests whose client has gone: their contexts are cancelled
    record,         \* what was returned and handed to persistence
    queue,          \* persistQueue
    saving,         \* what persistenceWorker is saving
    overflow,       \* what goroutines of their own are saving
    stored,         \* the collection "forecasts"; it outlives the process
    faults

reqVars == <<stage, input, model, nodes, start, attempt, inference, gone, record>>
persistVars == <<queue, saving, overflow, stored>>
vars == <<steady, up, activeModel, rr, cache, reqVars, persistVars, faults>>

Records == [model : Models, features : Inputs, inference : Inferences]

TypeOK ==
    /\ steady \subseteq NodeIds
    /\ up \in BOOLEAN
    /\ activeModel \in Models
    /\ rr \in Nat
    /\ cache \in [Models \X Inputs -> Inferences \cup {None}]
    /\ stage \in [Requests -> {"none", "model", "cache", "snapshot", "predict", "set", "enqueue",
                               "answered", "refused", "cut"}]
    /\ input \in [Requests -> Inputs \cup {None}]
    /\ model \in [Requests -> Models \cup {None}]
    /\ nodes \in [Requests -> Seq(NodeIds)]
    /\ start \in [Requests -> Nat]
    /\ attempt \in [Requests -> Nat]
    /\ inference \in [Requests -> Inferences \cup {None}]
    /\ gone \subseteq Requests
    /\ record \in [Requests -> Records \cup {None}]
    /\ queue \in Seq(Requests) /\ Len(queue) <= Capacity
    /\ saving \in Requests \cup {None}
    /\ overflow \subseteq Requests
    /\ stored \subseteq Requests
    /\ faults \in 0 .. MaxFaults

Init ==
    /\ steady \in SUBSET NodeIds
    /\ up = TRUE
    /\ activeModel = 1
    /\ rr = 0
    /\ cache = [key \in Models \X Inputs |-> None]
    /\ stage = [r \in Requests |-> "none"]
    /\ input = [r \in Requests |-> None]
    /\ model = [r \in Requests |-> None]
    /\ nodes = [r \in Requests |-> <<>>]
    /\ start = [r \in Requests |-> 0]
    /\ attempt = [r \in Requests |-> 0]
    /\ inference = [r \in Requests |-> None]
    /\ gone = {}
    /\ record = [r \in Requests |-> None]
    /\ queue = <<>>
    /\ saving = None
    /\ overflow = {}
    /\ stored = {}
    /\ faults = 0

Fault == faults < MaxFaults /\ faults' = faults + 1
InProgress(r) == stage[r] \notin {"none", "answered", "refused", "cut"}
Goto(r, to) == stage' = [stage EXCEPT ![r] = to]

\* The locals of Predict, and those of forecast, go out of scope.
PredictReturns(R) ==
    /\ nodes' = [r \in Requests |-> IF r \in R THEN <<>> ELSE nodes[r]]
    /\ start' = [r \in Requests |-> IF r \in R THEN 0 ELSE start[r]]
    /\ attempt' = [r \in Requests |-> IF r \in R THEN 0 ELSE attempt[r]]
ForecastReturns(R) ==
    /\ input' = [r \in Requests |-> IF r \in R THEN None ELSE input[r]]
    /\ model' = [r \in Requests |-> IF r \in R THEN None ELSE model[r]]
    /\ inference' = [r \in Requests |-> IF r \in R THEN None ELSE inference[r]]

-----------------------------------------------------------------------------
(* The handler.  Names ending in _Bug are deliberately wrong variants of    *)
(* the definition below them.                                               *)

\* The request has been decoded and its features built.
Arrive(r) ==
    /\ up
    /\ stage[r] = "none"
    /\ \E x \in Inputs : input' = [input EXCEPT ![r] = x]
    /\ Goto(r, "model")
    /\ UNCHANGED <<steady, up, activeModel, rr, cache, model, nodes, start, attempt, inference,
                   gone, record, persistVars, faults>>

ReadModel(r) ==
    /\ stage[r] = "model"
    /\ model' = [model EXCEPT ![r] = activeModel]
    /\ Goto(r, "cache")
    /\ UNCHANGED <<steady, up, activeModel, rr, cache, input, nodes, start, attempt, inference,
                   gone, record, persistVars, faults>>

Key_Bug(r) == <<1, input[r]>>                   \* the key leaves the version out
Key(r) == <<model[r], input[r]>>

CacheHit(r) ==
    /\ stage[r] = "cache"
    /\ cache[Key(r)] # None
    /\ inference' = [inference EXCEPT ![r] = cache[Key(r)]]
    /\ Goto(r, "enqueue")
    /\ UNCHANGED <<steady, up, activeModel, rr, cache, input, model, nodes, start, attempt,
                   gone, record, persistVars, faults>>

\* Also a read that fails: the error is logged and the cluster asked.
CacheMiss(r) ==
    /\ stage[r] = "cache"
    /\ Goto(r, "snapshot")
    /\ UNCHANGED <<steady, up, activeModel, rr, cache, input, model, nodes, start, attempt,
                   inference, gone, record, persistVars, faults>>

\* What healthyNodes may return: a set of nodes, sorted by name.
Snapshots ==
    {s \in UNION {[1 .. Cardinality(H) -> H] : H \in SUBSET NodeIds} :
        /\ \A j, k \in DOMAIN s : j < k => s[j] < s[k]
        /\ \A n \in steady : \E k \in DOMAIN s : s[k] = n}

NoNodes(r) ==
    /\ stage[r] = "snapshot"
    /\ <<>> \in Snapshots
    /\ Goto(r, "refused")
    /\ ForecastReturns({r})
    /\ UNCHANGED <<steady, up, activeModel, rr, cache, nodes, start, attempt, gone, record,
                   persistVars, faults>>

PickStart(r) ==
    /\ stage[r] = "snapshot"
    /\ \E s \in Snapshots \ {<<>>} :
          /\ nodes' = [nodes EXCEPT ![r] = s]
          /\ start' = [start EXCEPT ![r] = rr % Len(s)]
    /\ rr' = rr + 1
    /\ Goto(r, "predict")
    /\ UNCHANGED <<steady, up, activeModel, cache, input, model, attempt, inference,
                   gone, record, persistVars, faults>>

Asked_Bug(r) == nodes[r][start[r] + 1]          \* the same node again and again
Asked(r) == nodes[r][((start[r] + attempt[r]) % Len(nodes[r])) + 1]

NodeAnswers(r) ==
    /\ stage[r] = "predict"
    /\ inference' = [inference EXCEPT ![r] = [model |-> model[r], input |-> input[r]]]
    /\ Goto(r, "set")
    /\ PredictReturns({r})
    /\ UNCHANGED <<steady, up, activeModel, rr, cache, input, model, gone, record, persistVars,
                   faults>>

Another_Bug(r) == (attempt[r] + 1) % Len(nodes[r])   \* goes round and round
Another(r) == attempt[r] + 1

\* The node does not answer in time, or the request's context is cancelled.
NodeFails(r) ==
    /\ stage[r] = "predict"
    /\ Asked(r) \notin steady \/ r \in gone
    /\ \/ /\ Another(r) < Len(nodes[r])
          /\ attempt' = [attempt EXCEPT ![r] = Another(r)]
          /\ UNCHANGED <<stage, input, model, nodes, start, inference>>
       \/ /\ Another(r) = Len(nodes[r])
          /\ Goto(r, "refused")
          /\ PredictReturns({r})
          /\ ForecastReturns({r})
    /\ UNCHANGED <<steady, up, activeModel, rr, cache, gone, record, persistVars, faults>>

\* Errors of the write are ignored.
CacheSet(r) ==
    /\ stage[r] = "set"
    /\ \/ cache' = [cache EXCEPT ![Key(r)] = inference[r]]
       \/ UNCHANGED cache
    /\ Goto(r, "enqueue")
    /\ UNCHANGED <<steady, up, activeModel, rr, input, model, nodes, start, attempt, inference,
                   gone, record, persistVars, faults>>

HasRoom == Len(queue) < Capacity

Overflowing_Bug(r) == overflow                  \* a full queue drops the record
Overflowing(r) == overflow \cup {r}

Named_Bug(r) == activeModel                     \* read again, after the prediction
Named(r) == model[r]

\* The record is built, handed to persistence without waiting, and returned.
Enqueue(r) ==
    /\ stage[r] = "enqueue"
    /\ record' = [record EXCEPT ![r] = [model |-> Named(r), features |-> input[r],
                                        inference |-> inference[r]]]
    /\ \/ HasRoom /\ queue' = Append(queue, r) /\ UNCHANGED overflow
       \/ ~HasRoom /\ overflow' = Overflowing(r) /\ UNCHANGED queue
    /\ Goto(r, "answered")
    /\ ForecastReturns({r})
    /\ UNCHANGED <<steady, up, activeModel, rr, cache, nodes, start, attempt, gone, saving,
                   stored, faults>>

Handle(r) ==
    \/ ReadModel(r) \/ CacheHit(r) \/ CacheMiss(r) \/ NoNodes(r) \/ PickStart(r)
    \/ NodeAnswers(r) \/ NodeFails(r) \/ CacheSet(r) \/ Enqueue(r)

-----------------------------------------------------------------------------
(* Persistence.  An insertion fails with or without having taken effect.    *)

PersistTake ==
    /\ up
    /\ saving = None
    /\ queue # <<>>
    /\ saving' = Head(queue)
    /\ queue' = Tail(queue)
    /\ UNCHANGED <<steady, up, activeModel, rr, cache, reqVars, overflow, stored, faults>>

Save(r) ==
    \/ stored' = stored \cup {r} /\ UNCHANGED faults
    \/ stored' \in {stored, stored \cup {r}} /\ Fault

PersistSave ==
    /\ saving # None
    /\ Save(saving)
    /\ saving' = None
    /\ UNCHANGED <<steady, up, activeModel, rr, cache, reqVars, queue, overflow>>

OverflowSave(r) ==
    /\ r \in overflow
    /\ Save(r)
    /\ overflow' = overflow \ {r}
    /\ UNCHANGED <<steady, up, activeModel, rr, cache, reqVars, queue, saving>>

-----------------------------------------------------------------------------
(* The rest of the system.                                                  *)

\* runTraining ends; every trained model has a version of its own.
SwapModel ==
    /\ up
    /\ activeModel < MaxModel
    /\ activeModel' = activeModel + 1
    /\ UNCHANGED <<steady, up, rr, cache, reqVars, persistVars, faults>>

Expire(key) ==
    /\ cache[key] # None
    /\ cache' = [cache EXCEPT ![key] = None]
    /\ UNCHANGED <<steady, up, activeModel, rr, reqVars, persistVars, faults>>

ClientLeaves(r) ==
    /\ InProgress(r)
    /\ r \notin gone
    /\ gone' = gone \cup {r}
    /\ UNCHANGED <<steady, up, activeModel, rr, cache, stage, input, model, nodes, start, attempt,
                   inference, record, persistVars, faults>>

\* The process ends: main does not wait for persistQueue, and for requests only so long.
Stop ==
    /\ up
    /\ Fault
    /\ up' = FALSE
    /\ stage' = [r \in Requests |-> IF InProgress(r) THEN "cut" ELSE stage[r]]
    /\ queue' = <<>>
    /\ saving' = None
    /\ overflow' = {}
    /\ stored' \in {stored \cup W : W \in SUBSET ((overflow \cup {saving}) \ {None})}
    /\ rr' = 0
    /\ PredictReturns(Requests)
    /\ ForecastReturns(Requests)
    /\ UNCHANGED <<steady, activeModel, cache, gone, record>>

\* The boot may find a newer model active than the one that was served (ModelLifecycle).
Restart ==
    /\ ~up
    /\ up' = TRUE
    /\ activeModel' \in activeModel .. MaxModel
    /\ UNCHANGED <<steady, rr, cache, reqVars, persistVars, faults>>

-----------------------------------------------------------------------------
Next ==
    \/ \E r \in Requests : Arrive(r) \/ Handle(r) \/ OverflowSave(r) \/ ClientLeaves(r)
    \/ PersistTake \/ PersistSave
    \/ SwapModel \/ Stop \/ Restart
    \/ \E key \in Models \X Inputs : Expire(key)

Spec == Init /\ [][Next]_vars

(* Goroutines run, calls to workers end (CallReturns of NodeRpc) and so do  *)
(* calls to Redis and MongoDB.                                              *)
FairSpec ==
    /\ Spec
    /\ \A r \in Requests : WF_vars(Handle(r)) /\ WF_vars(OverflowSave(r))
    /\ WF_vars(PersistTake) /\ WF_vars(PersistSave)

-----------------------------------------------------------------------------
(* Properties.                                                              *)

\* server.go:229-259: a forecast names the model that computed its probability, on its own
\* readings, also when the model is swapped meanwhile and when the probability comes from
\* the cache, where another request, or the process before a restart, put it.
RecordNamesItsModel ==
    \A r \in Requests : stage[r] = "answered" =>
        record[r].inference = [model |-> record[r].model, input |-> record[r].features]

\* coordinator.go:257-285: a forecast is refused only when no worker could have answered,
\* wherever the round robin starts and however the snapshot differs from the one before.
SteadyNodeServes ==
    \A r \in Requests : stage[r] = "refused" => steady = {} \/ r \in gone

\* server.go:404-421: between the answer and the database a record is in exactly one place:
\* none is dropped by a full queue, none is saved twice.  Without a failed call or the end
\* of the process, an answered record is always in one of them.
Places(r) ==
    (IF \E k \in DOMAIN queue : queue[k] = r THEN {"queue"} ELSE {})
        \cup (IF saving = r THEN {"worker"} ELSE {})
        \cup (IF r \in overflow THEN {"overflow"} ELSE {})
        \cup (IF r \in stored THEN {"stored"} ELSE {})
RecordInOnePlace ==
    \A r \in Requests :
        /\ Cardinality(Places(r)) <= 1
        /\ Places(r) # {} => stage[r] = "answered"
        /\ stage[r] = "answered" /\ faults = 0 => Places(r) # {}

\* server.go:216-264: a request is answered or refused in the end, unless the process stops;
\* it never waits for the database.
RequestReturns ==
    \A r \in Requests : InProgress(r) ~> ~InProgress(r)

\* server.go:404-421: an answered forecast is stored in the end, unless a call to the
\* database fails or the process stops.
AnsweredIsStored ==
    \A r \in Requests : (stage[r] = "answered") ~> (r \in stored \/ faults > 0)
=============================================================================
