-------------------------- MODULE Forecasts_proofs ---------------------------
(***************************************************************************)
(* For any number of requests, models and workers: a record names the      *)
(* model that computed its probability, which depends on every entry of    *)
(* the cache, also one left by a request that is long gone, being a        *)
(* prediction of the model and features in its key; a request is refused   *)
(* only if no worker would have answered it; and a record is in at most    *)
(* one place on its way to the collection.                                 *)
(***************************************************************************)
EXTENDS Forecasts, FiniteSetTheorems, SequenceTheorems, TLAPS

USE MaxModelAssumption, NodeIdsAssumption, CapacityAssumption, MaxFaultsAssumption,
    NoneAssumption, NoneNotInference

\* A request's locals are set before they are used, and what it found is a prediction of its
\* model on its features.
LocalsInv ==
    \A r \in Requests :
        /\ InProgress(r) => input[r] \in Inputs
        /\ InProgress(r) /\ stage[r] # "model" => model[r] \in Models
        /\ stage[r] \in {"set", "enqueue"} => inference[r] = [model |-> model[r], input |-> input[r]]

\* So is every entry of the cache, of the model and the features of its key.
CacheInv ==
    \A m \in Models, x \in Inputs : cache[<<m, x>>] \in {None, [model |-> m, input |-> x]}

IInv == TypeOK /\ LocalsInv /\ CacheInv /\ RecordNamesItsModel

-----------------------------------------------------------------------------
(* Types.                                                                   *)

\* What healthyNodes returns is a sequence of nodes.
LEMMA SnapshotFacts ==
    ASSUME NEW s \in Snapshots
    PROVE  s \in Seq(NodeIds) /\ (s # <<>> => Len(s) \in Nat \ {0})
<1>1. PICK H \in SUBSET NodeIds : s \in [1 .. Cardinality(H) -> H]
    BY DEF Snapshots
<1>2. Cardinality(H) \in Nat
    BY FS_Subset, FS_CardinalityType
<1>3. s \in [1 .. Cardinality(H) -> NodeIds]
    BY <1>1
<1>4. s \in Seq(NodeIds)
    BY <1>2, <1>3, IsASeq
<1> QED
    BY <1>4, EmptySeq

\* A request moves on: what stage, and the locals that end, become.
LEMMA LocalsTyped ==
    ASSUME TypeOK, NEW R \in SUBSET Requests
    PROVE  /\ PredictReturns(R) => /\ nodes' \in [Requests -> Seq(NodeIds)]
                                   /\ start' \in [Requests -> Nat]
                                   /\ attempt' \in [Requests -> Nat]
           /\ ForecastReturns(R) => /\ input' \in [Requests -> Inputs \cup {None}]
                                    /\ model' \in [Requests -> Models \cup {None}]
                                    /\ inference' \in [Requests -> Inferences \cup {None}]
<1>1. <<>> \in Seq(NodeIds)
    BY EmptySeq
<1>2. PredictReturns(R) => nodes' \in [Requests -> Seq(NodeIds)]
    BY <1>1 DEF TypeOK, PredictReturns
<1>3. PredictReturns(R) => start' \in [Requests -> Nat] /\ attempt' \in [Requests -> Nat]
    BY DEF TypeOK, PredictReturns
<1>4. ForecastReturns(R) => /\ input' \in [Requests -> Inputs \cup {None}]
                            /\ model' \in [Requests -> Models \cup {None}]
    BY DEF TypeOK, ForecastReturns
<1>5. ForecastReturns(R) => inference' \in [Requests -> Inferences \cup {None}]
    BY DEF TypeOK, ForecastReturns
<1> QED
    BY <1>2, <1>3, <1>4, <1>5

\* Types hold at the start.
LEMMA TypeInitially == Init => TypeOK
<1> SUFFICES ASSUME Init PROVE TypeOK
    OBVIOUS
<1>1. activeModel \in Models /\ rr \in Nat /\ faults \in 0 .. MaxFaults
    BY DEF Init, Models
<1>2. nodes \in [Requests -> Seq(NodeIds)] /\ queue \in Seq(Requests) /\ Len(queue) = 0
    BY EmptySeq DEF Init
<1>3. /\ input \in [Requests -> Inputs \cup {None}]
      /\ model \in [Requests -> Models \cup {None}]
      /\ inference \in [Requests -> Inferences \cup {None}]
      /\ record \in [Requests -> Records \cup {None}]
    BY DEF Init
<1>4. cache \in [Models \X Inputs -> Inferences \cup {None}]
    BY DEF Init
<1>5. start \in [Requests -> Nat] /\ attempt \in [Requests -> Nat]
    BY DEF Init
<1>6. stage \in [Requests -> {"none", "model", "cache", "snapshot", "predict", "set", "enqueue",
                              "answered", "refused", "cut"}]
    BY DEF Init
<1>7. steady \subseteq NodeIds /\ up \in BOOLEAN
    BY DEF Init
<1>8. /\ gone \subseteq Requests /\ overflow \subseteq Requests /\ stored \subseteq Requests
      /\ saving \in Requests \cup {None} /\ Len(queue) <= Capacity
    BY <1>2 DEF Init
<1> QED
    BY <1>1, <1>2, <1>3, <1>4, <1>5, <1>6, <1>7, <1>8 DEF TypeOK

\* server.go:216-264: the steps of a request keep them.
LEMMA HandlePreservesType == ASSUME IInv, NEW r \in Requests, Handle(r) PROVE TypeOK'
<1> USE DEF IInv, TypeOK, Goto, reqVars, persistVars
<1>1. CASE ReadModel(r)
    BY <1>1 DEF ReadModel
<1>2. CASE CacheHit(r)
    <2>1. cache[Key(r)] \in Inferences \cup {None}
        BY <1>2 DEF CacheHit, Key, LocalsInv, InProgress
    <2> QED
        BY <1>2, <2>1 DEF CacheHit
<1>3. CASE CacheMiss(r)
    BY <1>3 DEF CacheMiss
<1>4. CASE NoNodes(r)
    BY <1>4, LocalsTyped DEF NoNodes
<1>5. CASE PickStart(r)
    BY <1>5, SnapshotFacts DEF PickStart
<1>6. CASE NodeAnswers(r)
    <2>1. [model |-> model[r], input |-> input[r]] \in Inferences
        BY <1>6 DEF NodeAnswers, LocalsInv, InProgress, Inferences
    <2>2. PredictReturns({r})
        BY <1>6 DEF NodeAnswers
    <2>3. /\ nodes' \in [Requests -> Seq(NodeIds)]
          /\ start' \in [Requests -> Nat]
          /\ attempt' \in [Requests -> Nat]
        BY <2>2, LocalsTyped
    <2>4. inference' \in [Requests -> Inferences \cup {None}]
        BY <1>6, <2>1 DEF NodeAnswers
    <2> QED
        BY <1>6, <2>3, <2>4 DEF NodeAnswers
<1>7. CASE NodeFails(r)
    <2>1. CASE Another(r) < Len(nodes[r]) /\ UNCHANGED <<stage, input, model, nodes, start, inference>>
               /\ attempt' = [attempt EXCEPT ![r] = Another(r)]
        BY <1>7, <2>1 DEF NodeFails, Another
    <2>2. CASE Goto(r, "refused") /\ PredictReturns({r}) /\ ForecastReturns({r})
        <3>1. /\ nodes' \in [Requests -> Seq(NodeIds)]
              /\ start' \in [Requests -> Nat]
              /\ attempt' \in [Requests -> Nat]
              /\ input' \in [Requests -> Inputs \cup {None}]
              /\ model' \in [Requests -> Models \cup {None}]
              /\ inference' \in [Requests -> Inferences \cup {None}]
            BY <2>2, LocalsTyped
        <3> QED
            BY <1>7, <2>2, <3>1 DEF NodeFails
    <2> QED
        BY <1>7, <2>1, <2>2 DEF NodeFails
<1>8. CASE CacheSet(r)
    BY <1>8 DEF CacheSet, Key
<1>9. CASE Enqueue(r)
    <2>1. [model |-> model[r], features |-> input[r], inference |-> inference[r]] \in Records
        <3>1. model[r] \in Models /\ input[r] \in Inputs
            BY <1>9 DEF Enqueue, LocalsInv, InProgress
        <3>2. inference[r] \in Inferences
            BY <1>9, <3>1 DEF Enqueue, LocalsInv, Inferences
        <3> QED
            BY <3>1, <3>2 DEF Records
    <2>2. record' \in [Requests -> Records \cup {None}]
        BY <1>9, <2>1 DEF Enqueue, Named
    <2>3. /\ input' \in [Requests -> Inputs \cup {None}]
          /\ model' \in [Requests -> Models \cup {None}]
          /\ inference' \in [Requests -> Inferences \cup {None}]
        BY <1>9, LocalsTyped DEF Enqueue
    <2>4. queue' \in Seq(Requests) /\ Len(queue') <= Capacity /\ overflow' \subseteq Requests
        <3>1. CASE HasRoom /\ queue' = Append(queue, r) /\ UNCHANGED overflow
            <4>1. Append(queue, r) \in Seq(Requests) /\ Len(Append(queue, r)) = Len(queue) + 1
                BY AppendProperties
            <4>2. Len(queue) \in Nat
                BY LenProperties
            <4> QED
                BY <3>1, <4>1, <4>2 DEF HasRoom
        <3>2. CASE overflow' = Overflowing(r) /\ UNCHANGED queue
            BY <3>2 DEF Overflowing
        <3> QED
            BY <1>9, <3>1, <3>2 DEF Enqueue
    <2>5. stage' \in [Requests -> {"none", "model", "cache", "snapshot", "predict", "set",
                                   "enqueue", "answered", "refused", "cut"}]
        BY <1>9 DEF Enqueue
    <2> QED
        BY <1>9, <2>2, <2>3, <2>4, <2>5 DEF Enqueue
<1> QED
    BY <1>1, <1>2, <1>3, <1>4, <1>5, <1>6, <1>7, <1>8, <1>9 DEF Handle

\* So do persistence, trainings, expiry, clients and restarts.
LEMMA RestPreservesType ==
    ASSUME IInv,
           \/ \E r \in Requests : Arrive(r) \/ OverflowSave(r) \/ ClientLeaves(r)
           \/ PersistTake \/ PersistSave \/ SwapModel \/ Stop \/ Restart
           \/ \E key \in Models \X Inputs : Expire(key)
    PROVE  TypeOK'
<1> USE DEF IInv, TypeOK, Goto, reqVars, persistVars, Fault
<1>1. ASSUME NEW r \in Requests, Arrive(r) PROVE TypeOK'
    BY <1>1 DEF Arrive
<1>2. ASSUME NEW r \in Requests, OverflowSave(r) PROVE TypeOK'
    <2>1. /\ stored' \subseteq Requests /\ overflow' \subseteq Requests /\ faults' \in 0 .. MaxFaults
          /\ UNCHANGED <<steady, up, activeModel, rr, cache, stage, input, model, nodes, start,
                         attempt, inference, gone, record, queue, saving>>
        BY <1>2 DEF OverflowSave, Save
    <2> QED
        BY <2>1
<1>3. ASSUME NEW r \in Requests, ClientLeaves(r) PROVE TypeOK'
    BY <1>3 DEF ClientLeaves
<1>4. CASE PersistTake
    <2>1. /\ Head(queue) \in Requests /\ Tail(queue) \in Seq(Requests)
          /\ Len(Tail(queue)) = Len(queue) - 1
        BY <1>4, HeadTailProperties, EmptySeq DEF PersistTake
    <2>2. Len(queue) \in Nat
        BY LenProperties
    <2> QED
        BY <1>4, <2>1, <2>2 DEF PersistTake
<1>5. CASE PersistSave
    <2>1. /\ stored' \subseteq Requests /\ saving' = None /\ faults' \in 0 .. MaxFaults
          /\ UNCHANGED <<steady, up, activeModel, rr, cache, stage, input, model, nodes, start,
                         attempt, inference, gone, record, queue, overflow>>
        <3>1. saving \in Requests
            BY <1>5 DEF PersistSave
        <3>2. stored' \subseteq Requests /\ faults' \in 0 .. MaxFaults
            BY <1>5, <3>1 DEF PersistSave, Save
        <3> QED
            BY <1>5, <3>2 DEF PersistSave
    <2> QED
        BY <2>1
<1>6. CASE SwapModel
    <2>1. /\ activeModel' \in Models
          /\ UNCHANGED <<steady, up, rr, cache, stage, input, model, nodes, start, attempt,
                         inference, gone, record, queue, saving, overflow, stored, faults>>
        BY <1>6 DEF SwapModel, Models
    <2> QED
        BY <2>1
<1>7. CASE Stop
    <2>1. /\ nodes' \in [Requests -> Seq(NodeIds)]
          /\ start' \in [Requests -> Nat]
          /\ attempt' \in [Requests -> Nat]
          /\ input' \in [Requests -> Inputs \cup {None}]
          /\ model' \in [Requests -> Models \cup {None}]
          /\ inference' \in [Requests -> Inferences \cup {None}]
        BY <1>7, LocalsTyped DEF Stop
    <2>2. stage' \in [Requests -> {"none", "model", "cache", "snapshot", "predict", "set",
                                   "enqueue", "answered", "refused", "cut"}]
        BY <1>7 DEF Stop
    <2>3. queue' \in Seq(Requests) /\ Len(queue') = 0 /\ stored' \subseteq Requests
        BY <1>7, EmptySeq DEF Stop
    <2>4. Len(queue') <= Capacity
        BY <2>3
    <2>5. /\ saving' = None /\ overflow' = {} /\ up' = FALSE /\ rr' = 0 /\ faults' \in 0 .. MaxFaults
          /\ UNCHANGED <<steady, activeModel, cache, gone, record>>
        BY <1>7 DEF Stop
    <2> QED
        BY <2>1, <2>2, <2>3, <2>4, <2>5
<1>8. CASE Restart
    BY <1>8 DEF Restart, Models
<1>9. ASSUME NEW key \in Models \X Inputs, Expire(key) PROVE TypeOK'
    BY <1>9 DEF Expire
<1> QED
    BY <1>1, <1>2, <1>3, <1>4, <1>5, <1>6, <1>7, <1>8, <1>9

\* So every step does.
LEMMA TypePreserved == IInv /\ [Next]_vars => TypeOK'
<1> SUFFICES ASSUME IInv, [Next]_vars PROVE TypeOK'
    OBVIOUS
<1>1. CASE UNCHANGED vars
    BY <1>1 DEF IInv, TypeOK, vars, reqVars, persistVars
<1>2. CASE Next
    <2>1. CASE \E r \in Requests : Handle(r)
        BY <2>1, HandlePreservesType
    <2> QED
        BY <1>2, <2>1, RestPreservesType DEF Next
<1> QED
    BY <1>1, <1>2

-----------------------------------------------------------------------------
(* What a step does to the locals, the cache and the records.               *)

\* Steps that neither move a request nor touch the cache disturb nothing.
LEMMA OthersPreserve ==
    ASSUME IInv, UNCHANGED <<cache, stage, input, model, inference, record>>
    PROVE  LocalsInv' /\ CacheInv' /\ RecordNamesItsModel'
BY DEF IInv, LocalsInv, CacheInv, RecordNamesItsModel, InProgress

\* A finished call has no locals left to speak of.
LEMMA HandlePreservesLocals ==
    ASSUME IInv, NEW r \in Requests, Handle(r) \/ Arrive(r)
    PROVE  LocalsInv'
<1> USE DEF IInv, TypeOK, LocalsInv, InProgress, Goto
<1>1. CASE ReadModel(r)
    BY <1>1 DEF ReadModel
<1>2. CASE CacheHit(r)
    <2>1. model[r] \in Models /\ input[r] \in Inputs
        BY <1>2 DEF CacheHit
    <2>2. cache[Key(r)] = [model |-> model[r], input |-> input[r]]
        BY <1>2, <2>1 DEF CacheHit, Key, CacheInv
    <2> QED
        BY <1>2, <2>1, <2>2 DEF CacheHit
<1>3. CASE CacheMiss(r)
    BY <1>3 DEF CacheMiss
<1>4. CASE NoNodes(r)
    BY <1>4 DEF NoNodes, ForecastReturns
<1>5. CASE PickStart(r)
    BY <1>5 DEF PickStart
<1>6. CASE NodeAnswers(r)
    BY <1>6 DEF NodeAnswers
<1>7. CASE NodeFails(r)
    <2>1. CASE UNCHANGED <<stage, input, model, nodes, start, inference>>
        BY <2>1
    <2>2. CASE Goto(r, "refused") /\ ForecastReturns({r})
        BY <1>7, <2>2 DEF ForecastReturns
    <2> QED
        BY <1>7, <2>1, <2>2 DEF NodeFails
<1>8. CASE CacheSet(r)
    BY <1>8 DEF CacheSet
<1>9. CASE Enqueue(r)
    BY <1>9 DEF Enqueue, ForecastReturns
<1>10. CASE Arrive(r)
    BY <1>10 DEF Arrive
<1> QED
    BY <1>1, <1>2, <1>3, <1>4, <1>5, <1>6, <1>7, <1>8, <1>9, <1>10 DEF Handle

\* Only CacheSet writes an entry, and it writes what it predicted under the key it predicted for.
LEMMA HandlePreservesCache ==
    ASSUME IInv, NEW r \in Requests, Handle(r) \/ Arrive(r)
    PROVE  CacheInv'
<1> USE DEF IInv, TypeOK, CacheInv
<1>1. CASE CacheSet(r)
    <2>1. /\ model[r] \in Models /\ input[r] \in Inputs
          /\ inference[r] = [model |-> model[r], input |-> input[r]]
        BY <1>1 DEF CacheSet, LocalsInv, InProgress
    <2>2. CASE cache' = [cache EXCEPT ![Key(r)] = inference[r]]
        <3> SUFFICES ASSUME NEW m \in Models, NEW x \in Inputs
                     PROVE  cache'[<<m, x>>] \in {None, [model |-> m, input |-> x]}
            OBVIOUS
        <3>1. <<m, x>> \in Models \X Inputs
            OBVIOUS
        <3>2. CASE m = model[r] /\ x = input[r]
            BY <2>1, <2>2, <3>1, <3>2 DEF Key
        <3>3. CASE <<m, x>> # Key(r)
            BY <2>2, <3>1, <3>3
        <3> QED
            BY <3>2, <3>3 DEF Key
    <2>3. CASE UNCHANGED cache
        BY <2>3
    <2> QED
        BY <1>1, <2>2, <2>3 DEF CacheSet
<1>2. CASE UNCHANGED cache
    BY <1>2
<1>3. CacheSet(r) \/ UNCHANGED cache
    BY DEF Handle, ReadModel, CacheHit, CacheMiss, NoNodes, PickStart, NodeAnswers, NodeFails,
           Enqueue, Arrive
<1> QED
    BY <1>1, <1>2, <1>3

\* Only Enqueue writes a record.
LEMMA HandlePreservesRecords ==
    ASSUME IInv, NEW r \in Requests, Handle(r) \/ Arrive(r)
    PROVE  RecordNamesItsModel'
<1> USE DEF IInv, TypeOK, RecordNamesItsModel, Goto
<1>1. CASE Enqueue(r)
    <2>1. inference[r] = [model |-> model[r], input |-> input[r]]
        BY <1>1 DEF Enqueue, LocalsInv
    <2>2. record'[r] = [model |-> model[r], features |-> input[r], inference |-> inference[r]]
        BY <1>1 DEF Enqueue, Named
    <2>3. \A q \in Requests \ {r} : stage'[q] = stage[q] /\ record'[q] = record[q]
        BY <1>1 DEF Enqueue
    <2>4. ASSUME NEW q \in Requests, stage'[q] = "answered"
          PROVE  record'[q].inference = [model |-> record'[q].model, input |-> record'[q].features]
        <3>1. CASE q = r
            BY <2>1, <2>2, <3>1
        <3>2. CASE q # r
            BY <2>3, <2>4, <3>2
        <3> QED
            BY <3>1, <3>2
    <2> QED
        BY <2>4
<1>2. CASE UNCHANGED record /\ (\A q \in Requests : stage'[q] = "answered" => stage[q] = "answered")
    BY <1>2
<1>3. Enqueue(r) \/ UNCHANGED record
    BY DEF Handle, ReadModel, CacheHit, CacheMiss, NoNodes, PickStart, NodeAnswers, NodeFails,
           CacheSet, Arrive
<1>4. Enqueue(r) \/ \A q \in Requests : stage'[q] = "answered" => stage[q] = "answered"
    BY DEF Handle, ReadModel, CacheHit, CacheMiss, NoNodes, PickStart, NodeAnswers, NodeFails,
           CacheSet, Arrive
<1> QED
    BY <1>1, <1>2, <1>3, <1>4

\* Stopping the process loses requests; what is answered, and the cache, stay as they were.
LEMMA StopPreserves ==
    ASSUME IInv, Stop
    PROVE  LocalsInv' /\ CacheInv' /\ RecordNamesItsModel'
<1>1. /\ \A r \in Requests : stage'[r] \in {"none", "answered", "refused", "cut"}
      /\ \A r \in Requests : stage'[r] = "answered" => stage[r] = "answered"
      /\ UNCHANGED <<cache, record>>
    BY DEF Stop, InProgress
<1> QED
    BY <1>1 DEF IInv, LocalsInv, CacheInv, RecordNamesItsModel, InProgress

-----------------------------------------------------------------------------
(* The round of the workers.                                                *)

\* A request that asks the workers has a node of its snapshot to ask, and those it has asked
\* before were not steady, unless its client is gone.
AskedAt(r, a) == nodes[r][((start[r] + a) % Len(nodes[r])) + 1]
RoundInv ==
    \A r \in Requests :
        /\ stage[r] = "predict" =>
              /\ nodes[r] \in Snapshots /\ start[r] < Len(nodes[r]) /\ attempt[r] < Len(nodes[r])
              /\ r \in gone \/ \A a \in 0 .. attempt[r] - 1 : AskedAt(r, a) \notin steady
        /\ stage[r] # "predict" => attempt[r] = 0
        /\ stage[r] = "refused" => steady = {} \/ r \in gone

\* What remains of a number below n, and of n more than that.
LEMMA SmallRemainder ==
    ASSUME NEW n \in Nat \ {0}, NEW k \in 0 .. n - 1
    PROVE  k % n = k /\ (n + k) % n = k
<1>1. \A x \in Nat : x % n \in 0 .. n - 1 /\ x \div n \in Int /\ x = n * (x \div n) + (x % n)
    BY SMT
<1>2. \A x \in Nat, q \in Int : x = n * q + (x % n) /\ x < n => q = 0
    <2> SUFFICES ASSUME NEW x \in Nat, NEW q \in Int, x = n * q + (x % n), x < n
                 PROVE  q = 0
        OBVIOUS
    <2>1. x % n \in 0 .. n - 1
        BY <1>1
    <2>2. CASE q >= 1
        <3>1. n * q >= n
            BY <2>2
        <3> QED
            BY <2>1, <3>1
    <2>3. CASE q <= -1
        <3>1. n * q <= -n
            BY <2>3
        <3> QED
            BY <2>1, <3>1
    <2> QED
        BY <2>2, <2>3
<1>3. k % n = k
    BY <1>1, <1>2
<1>4. (n + k) \div n = 1
    <2> DEFINE q == (n + k) \div n
    <2>1. n + k = n * q + ((n + k) % n) /\ (n + k) % n \in 0 .. n - 1 /\ q \in Int
        BY <1>1
    <2> HIDE DEF q
    <2>2. CASE q >= 2
        <3>1. n * q >= 2 * n
            BY <2>1, <2>2
        <3> QED
            BY <2>1, <3>1
    <2>3. CASE q <= 0
        <3>1. n * q <= 0
            BY <2>1, <2>3
        <3> QED
            BY <2>1, <3>1
    <2> QED
        BY <2>1, <2>2, <2>3 DEF q
<1>5. (n + k) % n = k
    BY <1>1, <1>4
<1> QED
    BY <1>3, <1>5
\* The round robin comes to every place of a list of n, wherever it starts.
LEMMA RoundIsComplete ==
    ASSUME NEW n \in Nat \ {0}, NEW s \in 0 .. n - 1, NEW k \in 1 .. n
    PROVE  \E a \in 0 .. n - 1 : ((s + a) % n) + 1 = k
<1> DEFINE a == IF s < k THEN k - 1 - s ELSE k - 1 - s + n
<1>1. a \in 0 .. n - 1 /\ (s + a = k - 1 \/ s + a = n + (k - 1)) /\ k - 1 \in 0 .. n - 1
    OBVIOUS
<1> HIDE DEF a
<1>2. (s + a) % n = k - 1
    BY <1>1, SmallRemainder
<1>3. ((s + a) % n) + 1 = k
    BY <1>2
<1> QED
    BY <1>1, <1>3, Zenon

\* When every node of a snapshot has been asked and none was steady, there is no steady node.
LEMMA NobodySteady ==
    ASSUME NEW q \in Snapshots, q # <<>>, NEW s \in 0 .. Len(q) - 1,
           \A a \in 0 .. Len(q) - 1 : q[((s + a) % Len(q)) + 1] \notin steady
    PROVE  steady = {}
<1>1. q \in Seq(NodeIds) /\ Len(q) \in Nat \ {0} /\ DOMAIN q = 1 .. Len(q)
    BY SnapshotFacts, LenProperties
<1>2. ASSUME NEW n \in steady PROVE FALSE
    <2>1. PICK k \in DOMAIN q : q[k] = n
        BY DEF Snapshots
    <2>2. PICK a \in 0 .. Len(q) - 1 : ((s + a) % Len(q)) + 1 = k
        BY <1>1, RoundIsComplete
    <2> QED
        BY <2>1, <2>2
<1> QED
    BY <1>2

\* What the steps of one request do to it; the others stay where they are.
LEMMA HandlePreservesRound ==
    ASSUME IInv, RoundInv, NEW r \in Requests, Handle(r) \/ Arrive(r)
    PROVE  RoundInv'
<1> USE DEF IInv, TypeOK, Goto
<1>1. steady' = steady /\ gone' = gone
    BY DEF Handle, ReadModel, CacheHit, CacheMiss, NoNodes, PickStart, NodeAnswers, NodeFails,
           CacheSet, Enqueue, Arrive
<1>2. \A q \in Requests \ {r} : /\ stage'[q] = stage[q] /\ nodes'[q] = nodes[q]
                                /\ start'[q] = start[q] /\ attempt'[q] = attempt[q]
    BY DEF Handle, ReadModel, CacheHit, CacheMiss, NoNodes, PickStart, NodeAnswers, NodeFails,
           CacheSet, Enqueue, Arrive, PredictReturns
<1>3. Snapshots' = Snapshots
    BY <1>1 DEF Snapshots
<1> DEFINE Round(q) ==
        /\ stage[q] = "predict" =>
              /\ nodes[q] \in Snapshots /\ start[q] < Len(nodes[q]) /\ attempt[q] < Len(nodes[q])
              /\ q \in gone \/ \A a \in 0 .. attempt[q] - 1 : AskedAt(q, a) \notin steady
        /\ stage[q] # "predict" => attempt[q] = 0
        /\ stage[q] = "refused" => steady = {} \/ q \in gone
<1>4. Round(r)
    BY DEF RoundInv
<1>5. Round(r)'
    <2>1. CASE UNCHANGED attempt /\ stage[r] # "predict" /\ stage'[r] \notin {"predict", "refused"}
        BY <2>1, <1>4
    <2>2. CASE NoNodes(r)
        <3>1. steady = {}
            BY <2>2 DEF NoNodes, Snapshots
        <3> QED
            BY <2>2, <3>1, <1>1, <1>4 DEF NoNodes
    <2>3. CASE PickStart(r)
        <3>1. PICK s \in Snapshots \ {<<>>} : nodes' = [nodes EXCEPT ![r] = s]
                                              /\ start' = [start EXCEPT ![r] = rr % Len(s)]
            BY <2>3 DEF PickStart
        <3>2. Len(s) \in Nat \ {0}
            BY SnapshotFacts
        <3>3. rr % Len(s) < Len(s)
            BY <3>2, SMT
        <3>4. attempt'[r] = 0 /\ stage'[r] = "predict"
            BY <2>3, <1>4 DEF PickStart
        <3> QED
            BY <1>3, <3>1, <3>2, <3>3, <3>4
    <2>4. CASE NodeAnswers(r)
        BY <2>4 DEF NodeAnswers, PredictReturns
    <2>5. CASE NodeFails(r)
        <3>1. /\ stage[r] = "predict" /\ nodes[r] \in Snapshots
              /\ start[r] < Len(nodes[r]) /\ attempt[r] < Len(nodes[r])
              /\ r \in gone \/ \A a \in 0 .. attempt[r] - 1 : AskedAt(r, a) \notin steady
            BY <2>5, <1>4 DEF NodeFails
        <3>2. r \in gone \/ \A a \in 0 .. attempt[r] : AskedAt(r, a) \notin steady
            BY <2>5, <3>1 DEF NodeFails, Asked, AskedAt
        <3>3. CASE /\ attempt[r] + 1 < Len(nodes[r])
                   /\ attempt' = [attempt EXCEPT ![r] = attempt[r] + 1]
                   /\ UNCHANGED <<stage, nodes, start>>
            BY <1>1, <1>3, <3>1, <3>2, <3>3 DEF AskedAt
        <3>4. CASE /\ attempt[r] + 1 = Len(nodes[r])
                   /\ Goto(r, "refused") /\ PredictReturns({r})
            <4>1. r \in gone \/ steady = {}
                <5>1. start[r] \in 0 .. Len(nodes[r]) - 1 /\ nodes[r] # <<>>
                    BY <3>1, <3>4, SnapshotFacts, EmptySeq
                <5>2. CASE \A a \in 0 .. Len(nodes[r]) - 1 : AskedAt(r, a) \notin steady
                    BY <3>1, <5>1, <5>2, NobodySteady DEF AskedAt
                <5> QED
                    BY <3>2, <3>4, <5>2
            <4> QED
                BY <1>1, <3>4, <4>1 DEF PredictReturns
        <3> QED
            BY <2>5, <3>3, <3>4 DEF NodeFails, Another
    <2> QED
        BY <2>1, <2>2, <2>3, <2>4, <2>5
           DEF Handle, ReadModel, CacheHit, CacheMiss, CacheSet, Enqueue, Arrive
<1>6. ASSUME NEW q \in Requests, q # r PROVE Round(q)'
    <2>1. Round(q)
        BY DEF RoundInv
    <2> QED
        BY <1>1, <1>2, <1>3, <1>6, <2>1 DEF AskedAt
<1> QED
    BY <1>5, <1>6 DEF RoundInv

\* The rest of the system does not ask workers; a client that goes excuses its request.
LEMMA RoundPreserved == IInv /\ RoundInv /\ [Next]_vars => RoundInv'
<1> SUFFICES ASSUME IInv, RoundInv, [Next]_vars PROVE RoundInv'
    OBVIOUS
<1>1. ASSUME NEW r \in Requests, Handle(r) \/ Arrive(r) PROVE RoundInv'
    BY <1>1, HandlePreservesRound
<1>2. CASE UNCHANGED <<steady, stage, nodes, start, attempt>> /\ gone \subseteq gone'
    <2>1. Snapshots' = Snapshots
        BY <1>2 DEF Snapshots
    <2> QED
        BY <1>2, <2>1 DEF RoundInv, AskedAt
<1>3. CASE Stop
    <2>1. \A r \in Requests : /\ stage'[r] # "predict" /\ attempt'[r] = 0
                              /\ stage'[r] = "refused" => stage[r] = "refused"
        BY <1>3 DEF Stop, PredictReturns, InProgress
    <2> QED
        BY <1>3, <2>1 DEF Stop, RoundInv
<1> QED
    BY <1>1, <1>2, <1>3 DEF Next, vars, reqVars, OverflowSave, ClientLeaves, PersistTake,
       PersistSave, SwapModel, Restart, Expire

-----------------------------------------------------------------------------
(* The places of a record.                                                  *)

\* The places of a record exclude one another, and so do those of the queue.
InQueue(r) == \E k \in DOMAIN queue : queue[k] = r
PlaceInv ==
    /\ \A j, k \in DOMAIN queue : queue[j] = queue[k] => j = k
    /\ \A r \in Requests :
        /\ InQueue(r) => saving # r /\ r \notin overflow /\ r \notin stored
        /\ saving = r => r \notin overflow /\ r \notin stored
        /\ r \in overflow => r \notin stored
        /\ InQueue(r) \/ saving = r \/ r \in overflow \/ r \in stored => stage[r] = "answered"
        /\ stage[r] = "answered" /\ faults = 0 =>
              InQueue(r) \/ saving = r \/ r \in overflow \/ r \in stored

\* The queue holds what it held, and the record that was appended to it.
LEMMA Appended ==
    ASSUME TypeOK, NEW r \in Requests, queue' = Append(queue, r)
    PROVE  /\ \A q \in Requests : InQueue(q)' <=> InQueue(q) \/ q = r
           /\ (\A j, k \in DOMAIN queue : queue[j] = queue[k] => j = k) /\ ~InQueue(r)
                => \A j, k \in DOMAIN queue' : queue'[j] = queue'[k] => j = k
<1>1. queue \in Seq(Requests) /\ Len(queue) \in Nat /\ DOMAIN queue = 1 .. Len(queue)
    BY DEF TypeOK
<1>2. /\ DOMAIN queue' = 1 .. (Len(queue) + 1)
      /\ queue'[Len(queue) + 1] = r
      /\ \A k \in 1 .. Len(queue) : queue'[k] = queue[k]
    BY <1>1
<1>3. \A k : k \in DOMAIN queue' <=> k \in DOMAIN queue \/ k = Len(queue) + 1
    BY <1>1, <1>2
<1>4. Len(queue) + 1 \notin DOMAIN queue
    BY <1>1
<1>5. \A q \in Requests : InQueue(q)' <=> InQueue(q) \/ q = r
    BY <1>1, <1>2, <1>3, Zenon DEF InQueue
<1>6. ASSUME \A j, k \in DOMAIN queue : queue[j] = queue[k] => j = k, ~InQueue(r),
             NEW j \in DOMAIN queue', NEW k \in DOMAIN queue', queue'[j] = queue'[k]
      PROVE  j = k
    <2>1. \A i \in DOMAIN queue : queue'[i] = queue[i] /\ queue[i] # r
        BY <1>1, <1>2, <1>6, Zenon DEF InQueue
    <2> QED
        BY <1>2, <1>3, <1>6, <2>1, Zenon
<1> QED
    BY <1>5, <1>6

\* What is taken from the queue is no longer in it.
LEMMA Taken ==
    ASSUME TypeOK, queue # <<>>, queue' = Tail(queue), NEW h, h = Head(queue),
           \A j, k \in DOMAIN queue : queue[j] = queue[k] => j = k
    PROVE  /\ h \in Requests /\ InQueue(h) /\ ~InQueue(h)'
           /\ \A q \in Requests : q # h => (InQueue(q)' <=> InQueue(q))
           /\ \A j, k \in DOMAIN queue' : queue'[j] = queue'[k] => j = k
<1>1. /\ queue \in Seq(Requests) /\ Len(queue) \in Nat \ {0} /\ DOMAIN queue = 1 .. Len(queue)
      /\ h = queue[1] /\ h \in Requests
      /\ DOMAIN queue' = 1 .. (Len(queue) - 1)
      /\ \A k \in 1 .. (Len(queue) - 1) : queue'[k] = queue[k + 1]
    BY DEF TypeOK
<1>2. 1 \in DOMAIN queue
    BY <1>1
<1>3. \A k \in DOMAIN queue' : k + 1 \in DOMAIN queue /\ k + 1 # 1 /\ queue'[k] = queue[k + 1]
    BY <1>1
<1>4. \A k \in DOMAIN queue : k = 1 \/ (k - 1 \in DOMAIN queue' /\ queue'[k - 1] = queue[k])
    BY <1>1
<1>5. ~InQueue(h)'
    BY <1>1, <1>2, <1>3, Zenon DEF InQueue
<1>6. \A q \in Requests : q # h => (InQueue(q)' <=> InQueue(q))
    <2>1. ASSUME NEW q, InQueue(q)' PROVE InQueue(q)
        <3>1. PICK k \in DOMAIN queue' : queue'[k] = q
            BY <2>1 DEF InQueue
        <3>2. k + 1 \in DOMAIN queue /\ queue[k + 1] = q
            BY <1>3, <3>1, Zenon
        <3> QED
            BY <3>2, Zenon DEF InQueue
    <2>2. ASSUME NEW q, q # h, InQueue(q) PROVE InQueue(q)'
        <3>1. PICK k \in DOMAIN queue : queue[k] = q
            BY <2>2 DEF InQueue
        <3>2. k # 1
            BY <3>1, <2>2, <1>1, Zenon
        <3> QED
            BY <3>1, <3>2, <1>4, Zenon DEF InQueue
    <2> QED
        BY <2>1, <2>2
<1>7. \A j, k \in DOMAIN queue' : queue'[j] = queue'[k] => j = k
    BY <1>1, <1>3
<1> QED
    BY <1>1, <1>2, <1>5, <1>6, <1>7 DEF InQueue

\* A save puts the record it is of into the collection, or fails.
LEMMA SaveFacts ==
    ASSUME TypeOK, NEW r \in Requests, Save(r)
    PROVE  /\ stored' \subseteq stored \cup {r} /\ stored \subseteq stored'
           /\ faults' = 0 => faults = 0 /\ r \in stored'
BY MaxFaultsAssumption DEF Save, Fault, TypeOK

\* Steps of the handler keep the records where they are, but for the last one.
LEMMA EnqueuePreservesPlaces ==
    ASSUME IInv, PlaceInv, NEW r \in Requests, Enqueue(r)
    PROVE  PlaceInv'
<1>1. TypeOK /\ stage[r] = "enqueue" /\ stage' = [stage EXCEPT ![r] = "answered"]
      /\ saving' = saving /\ stored' = stored /\ faults' = faults
    BY DEF Enqueue, Goto, IInv
<1>2. \A q \in Requests : stage'[q] = IF q = r THEN "answered" ELSE stage[q]
    BY <1>1 DEF TypeOK
<1>3. ~InQueue(r) /\ saving # r /\ r \notin overflow /\ r \notin stored
    BY <1>1 DEF PlaceInv
<1>4. CASE queue' = Append(queue, r) /\ UNCHANGED overflow
    <2>1. \A q \in Requests : InQueue(q)' <=> InQueue(q) \/ q = r
        BY <1>1, <1>4, Appended
    <2>2. \A j, k \in DOMAIN queue' : queue'[j] = queue'[k] => j = k
        BY <1>1, <1>3, <1>4, Appended DEF PlaceInv
    <2> QED
        BY <1>1, <1>2, <1>3, <1>4, <2>1, <2>2, Zenon DEF PlaceInv
<1>5. CASE overflow' = overflow \cup {r} /\ UNCHANGED queue
    <2>1. \A q \in Requests : InQueue(q)' <=> InQueue(q)
        BY <1>5 DEF InQueue
    <2> QED
        BY <1>1, <1>2, <1>3, <1>5, <2>1 DEF PlaceInv
<1> QED
    BY <1>4, <1>5 DEF Enqueue, Overflowing

LEMMA HandlePreservesPlaces ==
    ASSUME IInv, PlaceInv, NEW r \in Requests, Handle(r) \/ Arrive(r) \/ ClientLeaves(r)
    PROVE  PlaceInv'
<1>1. CASE Enqueue(r)
    BY <1>1, EnqueuePreservesPlaces
<1>2. CASE ~Enqueue(r)
    <2>1. /\ UNCHANGED <<persistVars, faults>>
          /\ \A q \in Requests \ {r} : stage'[q] = stage[q]
          /\ stage'[r] = "answered" <=> stage[r] = "answered"
        <3> USE <1>2 DEF IInv, TypeOK, Goto, persistVars
        <3>1. CASE Arrive(r) \/ ReadModel(r) \/ CacheHit(r) \/ CacheMiss(r) \/ NoNodes(r)
                \/ PickStart(r) \/ CacheSet(r) \/ NodeAnswers(r)
            BY <3>1 DEF Arrive, ReadModel, CacheHit, CacheMiss, NoNodes, PickStart, CacheSet,
                        NodeAnswers
        <3>2. CASE NodeFails(r)
            BY <3>2 DEF NodeFails
        <3>3. CASE ClientLeaves(r)
            BY <3>3 DEF ClientLeaves
        <3> QED
            BY <3>1, <3>2, <3>3 DEF Handle
    <2>2. \A q \in Requests : /\ InQueue(q)' <=> InQueue(q)
                              /\ stage'[q] = "answered" <=> stage[q] = "answered"
        BY <2>1 DEF InQueue, persistVars
    <2> QED
        BY <2>1, <2>2 DEF PlaceInv, persistVars
<1> QED
    BY <1>1, <1>2

\* A record goes from the queue to the worker, from there or from a goroutine of its own to
\* the collection.
LEMMA SavesPreservePlaces ==
    ASSUME IInv, PlaceInv,
           PersistTake \/ PersistSave \/ \E r \in Requests : OverflowSave(r)
    PROVE  PlaceInv'
<1> USE DEF IInv
<1>1. CASE PersistTake
    <2>1. PICK taken : taken = Head(queue)
        OBVIOUS
    <2>2. /\ taken \in Requests /\ InQueue(taken) /\ ~InQueue(taken)'
          /\ \A q \in Requests : q # taken => (InQueue(q)' <=> InQueue(q))
          /\ \A j, k \in DOMAIN queue' : queue'[j] = queue'[k] => j = k
        BY <1>1, <2>1, Taken DEF PersistTake, PlaceInv
    <2>3. saving = None /\ saving' = taken
          /\ UNCHANGED <<overflow, stored, faults, stage>>
        BY <1>1, <2>1 DEF PersistTake, reqVars
    <2> QED
        BY <2>2, <2>3, NoneAssumption DEF PlaceInv
<1>2. CASE PersistSave
    <2>1. saving \in Requests /\ saving' = None /\ Save(saving)
          /\ UNCHANGED <<queue, overflow, stage>>
        BY <1>2 DEF PersistSave, reqVars, TypeOK
    <2>2. \A q \in Requests : InQueue(q)' <=> InQueue(q)
        BY <2>1 DEF InQueue
    <2>3. /\ stored' \subseteq stored \cup {saving} /\ stored \subseteq stored'
          /\ faults' = 0 => faults = 0 /\ saving \in stored'
        BY <2>1, SaveFacts
    <2> QED
        BY <2>1, <2>2, <2>3, NoneAssumption DEF PlaceInv
<1>3. ASSUME NEW r \in Requests, OverflowSave(r)
      PROVE  PlaceInv'
    <2>1. r \in overflow /\ overflow' = overflow \ {r} /\ Save(r)
          /\ UNCHANGED <<queue, saving, stage>>
        BY <1>3 DEF OverflowSave, reqVars
    <2>2. \A q \in Requests : InQueue(q)' <=> InQueue(q)
        BY <2>1 DEF InQueue
    <2>3. /\ stored' \subseteq stored \cup {r} /\ stored \subseteq stored'
          /\ faults' = 0 => faults = 0 /\ r \in stored'
        BY <2>1, SaveFacts
    <2> QED
        BY <2>1, <2>2, <2>3 DEF PlaceInv
<1> QED
    BY <1>1, <1>2, <1>3

\* The end of the process empties the queue and ends the goroutines: what they were saving is
\* stored or lost, the rest of the queue is lost.
LEMMA StopPreservesPlaces == ASSUME IInv, PlaceInv, Stop PROVE PlaceInv'
<1>1. /\ queue' = <<>> /\ saving' = None /\ overflow' = {}
      /\ stage' = [r \in Requests |-> IF InProgress(r) THEN "cut" ELSE stage[r]]
      /\ stored' \subseteq stored \cup ((overflow \cup {saving}) \ {None})
      /\ faults' # 0
    BY MaxFaultsAssumption DEF Stop, Fault, IInv, TypeOK
<1>2. \A r \in Requests : ~InQueue(r)'
    BY <1>1 DEF InQueue
<1>3. \A r \in Requests : stage[r] = "answered" <=> stage'[r] = "answered"
    BY <1>1 DEF InProgress
<1>4. DOMAIN queue' = {}
    BY <1>1
<1>5. \A r \in Requests : r \in stored' => stage[r] = "answered"
    BY <1>1, NoneAssumption DEF PlaceInv
<1> QED
    BY <1>1, <1>2, <1>3, <1>4, <1>5, NoneAssumption DEF PlaceInv

\* Every step keeps the places apart.
LEMMA PlacesPreserved == IInv /\ PlaceInv /\ [Next]_vars => PlaceInv'
<1> SUFFICES ASSUME IInv, PlaceInv, [Next]_vars PROVE PlaceInv'
    OBVIOUS
<1>1. ASSUME NEW r \in Requests, Arrive(r) \/ Handle(r) \/ ClientLeaves(r)
      PROVE  PlaceInv'
    BY <1>1, HandlePreservesPlaces
<1>2. ASSUME PersistTake \/ PersistSave \/ \E r \in Requests : OverflowSave(r)
      PROVE  PlaceInv'
    BY <1>2, SavesPreservePlaces
<1>3. CASE Stop
    BY <1>3, StopPreservesPlaces
<1>4. ASSUME SwapModel \/ Restart \/ UNCHANGED vars \/ \E key \in Models \X Inputs : Expire(key)
      PROVE  PlaceInv'
    <2>1. UNCHANGED <<persistVars, faults, stage>>
        BY <1>4 DEF SwapModel, Restart, Expire, vars, reqVars
    <2> QED
        BY <2>1 DEF PlaceInv, InQueue, persistVars
<1> QED
    BY <1>1, <1>2, <1>3, <1>4 DEF Next

\* The places of a record are none or one.
LEMMA PlacesCounted == IInv /\ PlaceInv => RecordInOnePlace
<1> SUFFICES ASSUME IInv, PlaceInv, NEW r \in Requests
             PROVE  /\ Cardinality(Places(r)) <= 1
                    /\ Places(r) # {} => stage[r] = "answered"
                    /\ stage[r] = "answered" /\ faults = 0 => Places(r) # {}
    BY DEF RecordInOnePlace
<1>1. Places(r) \in {{}, {"queue"}, {"worker"}, {"overflow"}, {"stored"}}
    BY DEF Places, PlaceInv, InQueue
<1>2. \A x : Cardinality({x}) = 1
    BY FS_Singleton
<1>3. Cardinality({}) = 0
    BY FS_EmptySet
<1>4. Cardinality(Places(r)) <= 1
    <2>1. Cardinality(Places(r)) \in {0, 1}
        BY <1>1, <1>2, <1>3, Zenon
    <2> QED
        BY <2>1
<1>5. Places(r) # {} <=> InQueue(r) \/ saving = r \/ r \in overflow \/ r \in stored
    BY DEF Places, InQueue
<1> QED
    BY <1>4, <1>5 DEF PlaceInv

-----------------------------------------------------------------------------
(* The theorems.                                                            *)

\* The invariant holds at the start.
LEMMA Initially == Init => IInv
<1>1. Init => LocalsInv /\ CacheInv /\ RecordNamesItsModel
    BY DEF Init, LocalsInv, CacheInv, RecordNamesItsModel, InProgress
<1> QED
    BY <1>1, TypeInitially DEF IInv

\* Every step preserves it.
LEMMA Inductive == IInv /\ [Next]_vars => IInv'
<1> SUFFICES ASSUME IInv, [Next]_vars PROVE IInv'
    OBVIOUS
<1>1. TypeOK'
    BY TypePreserved
<1>2. LocalsInv' /\ CacheInv' /\ RecordNamesItsModel'
    <2>1. ASSUME NEW r \in Requests, Handle(r) \/ Arrive(r)
          PROVE  LocalsInv' /\ CacheInv' /\ RecordNamesItsModel'
        BY <2>1, HandlePreservesLocals, HandlePreservesCache, HandlePreservesRecords
    <2>2. ASSUME NEW r \in Requests, OverflowSave(r) \/ ClientLeaves(r)
          PROVE  LocalsInv' /\ CacheInv' /\ RecordNamesItsModel'
        BY <2>2, OthersPreserve DEF OverflowSave, ClientLeaves, reqVars
    <2>3. CASE PersistTake \/ PersistSave \/ SwapModel \/ Restart \/ UNCHANGED vars
        BY <2>3, OthersPreserve DEF PersistTake, PersistSave, SwapModel, Restart, vars, reqVars
    <2>4. CASE Stop
        BY <2>4, StopPreserves
    <2>5. ASSUME NEW key \in Models \X Inputs, Expire(key)
          PROVE  LocalsInv' /\ CacheInv' /\ RecordNamesItsModel'
        <3>1. CacheInv'
            BY <2>5 DEF Expire, IInv, TypeOK, CacheInv
        <3> QED
            BY <2>5, <3>1 DEF Expire, reqVars, IInv, LocalsInv, RecordNamesItsModel, InProgress
    <2> QED
        BY <2>1, <2>2, <2>3, <2>4, <2>5 DEF Next
<1> QED
    BY <1>1, <1>2 DEF IInv

\* server.go:216-264, cache/redis.go:25-42: IInv holds in every reachable state: what a request
\* found, and what the cache holds, was computed by the model and on the features it stands for.
THEOREM Invariance == Spec => []IInv
BY Initially, Inductive, PTL DEF Spec

\* Every variable keeps its type: the queue never holds more than its capacity, a record is
\* complete (server.go:404-421).
THEOREM TypeCorrect == Spec => []TypeOK
<1>1. IInv => TypeOK
    BY DEF IInv
<1> QED
    BY <1>1, Invariance, PTL

\* server.go:229-259: a forecast names the model that computed its probability, on its own
\* readings, for any number of requests, trainings, restarts and expired entries.
THEOREM RecordNamesItsModelHolds == Spec => []RecordNamesItsModel
<1>1. IInv => RecordNamesItsModel
    BY DEF IInv
<1> QED
    BY <1>1, Invariance, PTL

\* coordinator.go:257-285: for any number of workers, wherever the round robin starts and
\* whoever leaves, a request is refused only if no worker was steady or its client has gone.
THEOREM SteadyNodeServesHolds == Spec => []SteadyNodeServes
<1>1. Init => RoundInv
    BY DEF Init, RoundInv
<1>2. IInv /\ RoundInv /\ [Next]_vars => RoundInv'
    BY RoundPreserved
<1>3. RoundInv => SteadyNodeServes
    BY DEF RoundInv, SteadyNodeServes
<1> QED
    BY <1>1, <1>2, <1>3, Invariance, PTL DEF Spec

\* server.go:404-421: for any number of requests and any capacity, a record is in at most one
\* of the queue, the worker, a goroutine of its own and the collection; it is in one of them
\* as long as no call has failed and no process has ended.
THEOREM RecordInOnePlaceHolds == Spec => []RecordInOnePlace
<1>1. Init => PlaceInv
    BY NoneAssumption DEF Init, PlaceInv, InQueue
<1>2. IInv /\ PlaceInv /\ [Next]_vars => PlaceInv'
    BY PlacesPreserved
<1>3. IInv /\ PlaceInv => RecordInOnePlace
    BY PlacesCounted
<1> QED
    BY <1>1, <1>2, <1>3, Invariance, PTL DEF Spec
=============================================================================
