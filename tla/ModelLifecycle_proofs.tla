------------------------ MODULE ModelLifecycle_proofs ------------------------
(***************************************************************************)
(* For any number of training runs and of faults: one training at a time,  *)
(* at most one active model, a served model that is stored and, unless     *)
(* two faults hide it or a document tells, the active one, and no run      *)
(* completed before its model is active.  The steps of CompleteTraining    *)
(* are separate writes; what makes them safe is that no other writer of    *)
(* "models" is alive meanwhile (Alone), neither a run nor a boot.          *)
(***************************************************************************)
EXTENDS ModelLifecycle, FiniteSetTheorems, TLAPS

USE DistinctAssumption, MaxFaultsAssumption

\* A run in progress holds the slot, and the process that runs it is up.
Alone ==
    \A r \in Runs : Live(r) =>
        training /\ process = "serving" /\ \A q \in Runs : Live(q) => q = r

\* The initial model is stored before any other of its target and before the API serves.
Seeded ==
    /\ Initial \notin docs => docs \subseteq {Legacy}
    /\ process = "serving" => Initial \in docs /\ memory \in docs

\* How far CompleteTraining is, for the run that is in it.
Switching ==
    \A r \in Runs :
        /\ job[r] \in {"deactivate", "activate", "complete", "swap"} => r \in docs
        /\ job[r] = "activate" => active = {}
        /\ job[r] = "complete" => active = {r}

Unambiguous == \A m, n \in active \ {Legacy} : m = n

IInv == TypeOK /\ Alone /\ Seeded /\ Switching /\ Unambiguous

LEMMA Initially == Init => IInv
<1> SUFFICES ASSUME Init PROVE IInv
    OBVIOUS
<1>1. TypeOK
    <2>1. docs \subseteq Models /\ active \subseteq docs
        BY DEF Init, Models
    <2>2. runs \in [Runs -> {"none", "queued", "running", "completed", "failed"}]
        BY DEF Init
    <2>3. job \in [Runs -> Steps \cup {"none", "ended"}]
        BY DEF Init
    <2>4. memory \in Models \cup {None} /\ advertised \in Runs \cup {None}
        BY DEF Init
    <2>5. training \in BOOLEAN
        BY DEF Init
    <2>6. faults \in 0 .. MaxFaults
        BY DEF Init
    <2>7. process \in {"down", "finding", "demoting", "seeding", "serving", "refused"}
        BY DEF Init
    <2> QED
        BY <2>1, <2>2, <2>3, <2>4, <2>5, <2>6, <2>7 DEF TypeOK
<1>2. Alone /\ Switching
    BY DEF Init, Alone, Switching, Live, Steps
<1>3. Seeded /\ Unambiguous
    BY DEF Init, Seeded, Unambiguous
<1> QED
    BY <1>1, <1>2, <1>3 DEF IInv

-----------------------------------------------------------------------------
(* The boot and a crash.                                                    *)

\* While the process is not serving, no run is in progress; what then holds of the database
\* and of the process is enough.
LEMMA BootKeepsRuns ==
    ASSUME IInv, process # "serving", UNCHANGED <<runs, training, job, advertised>>,
           Seeded', Unambiguous'
    PROVE  Alone' /\ Switching'
<1>1. \A r \in Runs : job[r] \notin Steps
    BY DEF IInv, Alone, Live
<1> QED
    BY <1>1 DEF Alone, Live, Switching, Steps

LEMMA BootPreserves == IInv /\ Boot => IInv'
<1> SUFFICES ASSUME IInv, Boot PROVE IInv'
    OBVIOUS
<1> USE DEF IInv, TypeOK, Models
<1>1. UNCHANGED <<runs, training, job, advertised>> /\ process # "serving"
    BY DEF Boot, Start, FindActive, FindFails, Demote, Seed, SeedFails, SeedRefused
<1>2. TypeOK'
    BY DEF Boot, Start, FindActive, FindFails, Demote, Seed, SeedFails, SeedRefused, Fault
<1>3. Seeded'
    BY DEF Boot, Start, FindActive, FindFails, Demote, Seed, SeedFails, SeedRefused, Seeded
<1>4. Unambiguous'
    BY DEF Boot, Start, FindActive, FindFails, Demote, Seed, SeedFails, SeedRefused, Seeded,
           Unambiguous
<1> QED
    BY <1>1, <1>2, <1>3, <1>4, BootKeepsRuns

LEMMA CrashPreserves == IInv /\ Crash => IInv'
<1> SUFFICES ASSUME IInv, Crash PROVE IInv'
    OBVIOUS
<1>1. job' \in [Runs -> {"none", "ended"}]
    BY DEF Crash
<1>2. TypeOK'
    <2>1. job' \in [Runs -> Steps \cup {"none", "ended"}]
        BY <1>1
    <2>2. faults' \in 0 .. MaxFaults
        BY DEF IInv, TypeOK, Crash, Fault
    <2> QED
        BY <2>1, <2>2 DEF IInv, TypeOK, Crash
<1>3. \A r \in Runs : job'[r] \notin Steps
    BY <1>1 DEF Steps
<1>4. Alone' /\ Switching'
    BY <1>3 DEF Alone, Switching, Live, Steps
<1>5. Seeded' /\ Unambiguous'
    BY DEF IInv, Crash, Seeded, Unambiguous
<1> QED
    BY <1>2, <1>4, <1>5 DEF IInv

-----------------------------------------------------------------------------
(* A run.                                                                   *)

LEMMA AcceptPreserves == ASSUME NEW r \in Runs, IInv, Accept(r) PROVE IInv'
<1> USE DEF Accept, Goto
<1>1. TypeOK'
    BY DEF IInv, TypeOK, Steps
<1>2. \A q \in Runs : ~ Live(q)
    BY DEF IInv, Alone, Free
<1>3. \A q \in Runs : q # r => job'[q] = job[q]
    BY DEF IInv, TypeOK
<1>4. job'[r] = "create"
    BY DEF IInv, TypeOK
<1>5. Alone'
    BY <1>2, <1>3 DEF Alone, Live
<1>6. Seeded' /\ Switching' /\ Unambiguous'
    BY <1>3, <1>4 DEF IInv, Seeded, Switching, Unambiguous
<1> QED
    BY <1>1, <1>5, <1>6 DEF IInv

\* The next step of a run that is in progress leaves every other run idle.
LEMMA RunIsAlone ==
    ASSUME NEW r \in Runs, IInv, Live(r), NEW step \in Steps, Goto(r, step),
           UNCHANGED <<process, training>>
    PROVE  /\ Alone'
           /\ process = "serving"
           /\ job' \in [Runs -> Steps \cup {"none", "ended"}]
           /\ job'[r] = step
           /\ \A q \in Runs : q # r => job'[q] = job[q] /\ job[q] \notin Steps
<1>1. /\ job' \in [Runs -> Steps \cup {"none", "ended"}]
      /\ job'[r] = step
      /\ \A q \in Runs : q # r => job'[q] = job[q]
    BY DEF IInv, TypeOK, Goto
<1>2. training /\ process = "serving" /\ \A q \in Runs : q # r => job[q] \notin Steps
    BY DEF IInv, Alone, Live
<1> QED
    BY <1>1, <1>2 DEF Alone, Live

\* An action of a run that leaves the models alone.
LEMMA ModelsUntouched ==
    ASSUME NEW r \in Runs, IInv, Live(r), NEW step \in Steps, Goto(r, step),
           UNCHANGED <<docs, active, process, memory, training>>, TypeOK',
           step \notin {"deactivate", "activate", "complete", "swap"}
               \/ (job[r] = "complete" /\ step = "swap")
    PROVE  IInv'
<1>1. Alone' /\ job'[r] = step /\ \A q \in Runs : q # r => job'[q] = job[q]
    BY RunIsAlone
<1>2. Seeded' /\ Switching' /\ Unambiguous'
    BY <1>1 DEF IInv, Seeded, Switching, Unambiguous
<1> QED
    BY <1>1, <1>2 DEF IInv

LEMMA RunPreserves == ASSUME NEW r \in Runs, IInv, RunTraining(r) PROVE IInv'
<1> USE DEF Call, SetStatus
<1>1. CASE CreateTraining(r)
    <2>1. PICK step \in {"start", "release"} : Goto(r, step)
        BY <1>1 DEF CreateTraining, AfterCreateError
    <2>2. /\ Live(r) /\ step \in Steps /\ job[r] = "create"
          /\ UNCHANGED <<docs, active, process, memory, training>>
        BY <1>1 DEF CreateTraining, Live, Steps
    <2>3. TypeOK'
        BY <1>1, <2>1, <2>2, RunIsAlone DEF CreateTraining, Fault, IInv, TypeOK
    <2> QED
        BY <2>1, <2>2, <2>3, ModelsUntouched
<1>2. CASE StartTraining(r)
    <2>1. PICK step \in {"train", "fail"} : Goto(r, step)
        BY <1>2 DEF StartTraining
    <2>2. /\ Live(r) /\ step \in Steps /\ job[r] = "start"
          /\ UNCHANGED <<docs, active, process, memory, training>>
        BY <1>2 DEF StartTraining, Live, Steps
    <2>3. TypeOK'
        BY <1>2, <2>1, <2>2, RunIsAlone DEF StartTraining, Fault, IInv, TypeOK
    <2> QED
        BY <2>1, <2>2, <2>3, ModelsUntouched
<1>3. CASE Train(r)
    <2>1. PICK step \in {"insert", "fail"} : Goto(r, step)
        BY <1>3 DEF Train, AfterTrainError
    <2>2. /\ Live(r) /\ step \in Steps /\ job[r] = "train"
          /\ UNCHANGED <<docs, active, process, memory, training>>
        BY <1>3 DEF Train, Live, Steps
    <2>3. TypeOK'
        BY <1>3, <2>1, <2>2, RunIsAlone DEF Train, IInv, TypeOK
    <2> QED
        BY <2>1, <2>2, <2>3, ModelsUntouched
<1>4. CASE InsertModel(r)
    <2>1. PICK step \in {"deactivate", "fail"} :
              Goto(r, step) /\ (step = "deactivate" => docs' = docs \cup {r})
        BY <1>4 DEF InsertModel, Inserted
    <2>2. /\ Live(r) /\ step \in Steps
          /\ UNCHANGED <<active, process, memory, training>>
          /\ docs' \in {docs, docs \cup {r}}
        BY <1>4 DEF InsertModel, Inserted, Live, Steps
    <2>3. TypeOK'
        BY <1>4, <2>1, <2>2, RunIsAlone DEF InsertModel, Fault, IInv, TypeOK, Models
    <2>4. /\ Alone' /\ process = "serving" /\ job'[r] = step
          /\ \A q \in Runs : q # r => job'[q] = job[q] /\ job[q] \notin Steps
        BY <2>1, <2>2, RunIsAlone
    <2>5. Seeded' /\ Unambiguous'
        BY <2>2, <2>4 DEF IInv, Seeded, Unambiguous
    <2>6. Switching'
        BY <2>1, <2>2, <2>4 DEF IInv, Switching
    <2> QED
        BY <2>3, <2>4, <2>5, <2>6 DEF IInv
<1>5. CASE DeactivateModels(r)
    <2>1. PICK step \in {"activate", "fail"} :
              Goto(r, step) /\ (step = "activate" => active' = {})
        BY <1>5 DEF DeactivateModels, Deactivated
    <2>2. /\ Live(r) /\ step \in Steps /\ job[r] = "deactivate"
          /\ UNCHANGED <<docs, process, memory, training>>
          /\ active' \in {active, {}}
        BY <1>5 DEF DeactivateModels, Deactivated, Live, Steps
    <2>3. TypeOK'
        BY <1>5, <2>1, <2>2, RunIsAlone DEF DeactivateModels, Fault, IInv, TypeOK
    <2>4. /\ Alone' /\ job'[r] = step
          /\ \A q \in Runs : q # r => job'[q] = job[q] /\ job[q] \notin Steps
        BY <2>1, <2>2, RunIsAlone
    <2>5. Seeded' /\ Unambiguous'
        BY <2>2, <2>4 DEF IInv, Seeded, Unambiguous
    <2>6. Switching'
        BY <2>1, <2>2, <2>4 DEF IInv, Switching, Steps
    <2> QED
        BY <2>3, <2>4, <2>5, <2>6 DEF IInv
<1>6. CASE ActivateModel(r)
    <2>1. PICK step \in {"complete", "fail"} :
              Goto(r, step) /\ (step = "complete" => active' = active \cup {r})
        BY <1>6 DEF ActivateModel, Activated
    <2>2. /\ Live(r) /\ step \in Steps /\ job[r] = "activate"
          /\ UNCHANGED <<docs, process, memory, training>>
          /\ active' \in {active, active \cup {r}}
        BY <1>6 DEF ActivateModel, Activated, Live, Steps
    <2>3. active = {} /\ r \in docs
        BY <2>2 DEF IInv, Switching
    <2>4. TypeOK'
        BY <1>6, <2>1, <2>2, <2>3, RunIsAlone DEF ActivateModel, Fault, IInv, TypeOK
    <2>5. /\ Alone' /\ job'[r] = step
          /\ \A q \in Runs : q # r => job'[q] = job[q] /\ job[q] \notin Steps
        BY <2>1, <2>2, RunIsAlone
    <2>6. Seeded' /\ Unambiguous'
        BY <2>2, <2>3, <2>5 DEF IInv, Seeded, Unambiguous
    <2>7. Switching'
        BY <2>1, <2>2, <2>3, <2>5 DEF IInv, Switching, Steps
    <2> QED
        BY <2>4, <2>5, <2>6, <2>7 DEF IInv
<1>7. CASE CompleteRun(r)
    <2>1. PICK step \in {"swap", "fail"} : Goto(r, step)
        BY <1>7 DEF CompleteRun
    <2>2. /\ Live(r) /\ step \in Steps /\ job[r] = "complete"
          /\ UNCHANGED <<docs, active, process, memory, training>>
        BY <1>7 DEF CompleteRun, Live, Steps
    <2>3. TypeOK'
        BY <1>7, <2>1, <2>2, RunIsAlone DEF CompleteRun, Fault, IInv, TypeOK
    <2> QED
        BY <2>1, <2>2, <2>3, ModelsUntouched
<1>8. CASE SwapModel(r)
    <2>1. /\ Goto(r, "release") /\ Live(r) /\ "release" \in Steps /\ job[r] = "swap"
          /\ UNCHANGED <<docs, active, process, training>> /\ memory' = r
        BY <1>8 DEF SwapModel, Trained, Live, Steps
    <2>2. TypeOK'
        BY <1>8, <2>1, RunIsAlone DEF SwapModel, IInv, TypeOK, Models
    <2>3. /\ Alone' /\ job'[r] = "release"
          /\ \A q \in Runs : q # r => job'[q] = job[q] /\ job[q] \notin Steps
        BY <2>1, RunIsAlone
    <2>4. r \in docs
        BY <2>1 DEF IInv, Switching
    <2>5. Seeded' /\ Unambiguous' /\ Switching'
        BY <2>1, <2>3, <2>4 DEF IInv, Seeded, Unambiguous, Switching
    <2> QED
        BY <2>2, <2>3, <2>5 DEF IInv
<1>9. CASE FailTraining(r)
    <2>1. /\ Goto(r, "release") /\ Live(r) /\ "release" \in Steps /\ job[r] = "fail"
          /\ UNCHANGED <<docs, active, process, memory, training>>
        BY <1>9 DEF FailTraining, Live, Steps
    <2>2. TypeOK'
        BY <1>9, <2>1, RunIsAlone DEF FailTraining, Fault, IInv, TypeOK
    <2> QED
        BY <2>1, <2>2, ModelsUntouched
<1>10. CASE Release(r)
    <2>1. Goto(r, "ended") /\ Live(r) /\ UNCHANGED <<docs, active, runs, process, memory>>
        BY <1>10 DEF Release, Live, Steps
    <2>2. /\ job'[r] = "ended"
          /\ \A q \in Runs : q # r => job'[q] = job[q]
        BY <2>1 DEF Goto, IInv, TypeOK
    <2>3. \A q \in Runs : job'[q] \notin Steps
        BY <2>1, <2>2 DEF IInv, Alone, Live, Steps
    <2>4. TypeOK'
        BY <1>10 DEF Release, Goto, IInv, TypeOK
    <2>5. Alone' /\ Switching'
        BY <2>3 DEF Alone, Live, Switching, Steps
    <2>6. Seeded' /\ Unambiguous'
        BY <2>1 DEF IInv, Seeded, Unambiguous
    <2> QED
        BY <2>4, <2>5, <2>6 DEF IInv
<1> QED
    BY <1>1, <1>2, <1>3, <1>4, <1>5, <1>6, <1>7, <1>8, <1>9, <1>10 DEF RunTraining

LEMMA Preserved == IInv /\ [Next]_vars => IInv'
<1>1. IInv /\ UNCHANGED vars => IInv'
    BY DEF vars, IInv, TypeOK, Alone, Live, Seeded, Switching, Unambiguous
<1> QED
    BY <1>1, BootPreserves, CrashPreserves, AcceptPreserves, RunPreserves DEF Next

\* No step, failed call or crash leads out of the invariant (mongo.go:262-271, 339-356).
THEOREM Invariance == Spec => []IInv
    BY Initially, Preserved, PTL DEF Spec

-----------------------------------------------------------------------------
(* The model in memory and the active one.                                  *)

\* What a run in progress knows of its own document, of the active model and of the faults.
Progress ==
    \A r \in Runs :
        /\ job[r] = "start" => runs[r] = "queued"
        /\ job[r] \in {"train", "insert", "deactivate", "activate", "complete"} => runs[r] = "running"
        /\ job[r] = "swap" => active = {r}
        /\ job[r] = "fail" /\ runs[r] = "completed" => r \in docs /\ faults > 0

\* The model in memory is the active one, or the database shows that it may not be, except
\* between the last write of CompleteTraining and the swap, or the record of its failure.
Agreed ==
    \/ active \ {Legacy} = {memory}
    \/ \E r \in docs \cap Runs : runs[r] # "completed"
    \/ faults > 1
Swapping(r) == job[r] = "swap" \/ (job[r] = "fail" /\ runs[r] = "completed")
AgreedInv == process = "serving" => Agreed \/ \E r \in Runs : Swapping(r)

\* What is known before a step of a run that is not in one of those two places.
LEMMA AgreedBefore ==
    ASSUME NEW r \in Runs, IInv, AgreedInv, Live(r), ~Swapping(r)
    PROVE  Agreed
<1>1. process = "serving" /\ \A q \in Runs : Live(q) => q = r
    BY DEF IInv, Alone
<1>2. \A q \in Runs : Swapping(q) => Live(q)
    BY DEF Swapping, Live, Steps
<1> QED
    BY <1>1, <1>2 DEF AgreedInv

\* A run that is known not to be completed keeps the disagreement visible.
LEMMA DoubtIsAgreed ==
    ASSUME NEW r \in Runs, r \in docs', runs'[r] # "completed"
    PROVE  Agreed'
BY DEF Agreed

\* Steps that do not touch the active models, and complete no run, keep the agreement.
LEMMA AgreedKept ==
    ASSUME TypeOK, Agreed, UNCHANGED <<active, memory>>, docs \subseteq docs',
           faults' \in {faults, faults + 1},
           \A q \in Runs : runs[q] # "completed" => runs'[q] # "completed"
    PROVE  Agreed'
<1>1. faults > 1 => faults' > 1
    BY DEF TypeOK
<1> QED
    BY <1>1 DEF Agreed

\* What a step of run r leaves to say about the progress of the runs.
LEMMA ProgressOfOne ==
    ASSUME NEW r \in Runs, IInv, Live(r), NEW step \in Steps, Goto(r, step),
           UNCHANGED <<process, training>>,
           step = "start" => runs'[r] = "queued",
           step \in {"train", "insert", "deactivate", "activate", "complete"} => runs'[r] = "running",
           step = "swap" => active' = {r},
           step = "fail" /\ runs'[r] = "completed" => r \in docs' /\ faults' > 0
    PROVE  Progress'
<1>1. job'[r] = step /\ \A q \in Runs : q # r => job'[q] = job[q] /\ job[q] \notin Steps
    BY RunIsAlone
<1>2. \A q \in Runs : q # r => job'[q] \notin Steps
    BY <1>1
<1> QED
    BY <1>1, <1>2 DEF Progress, Steps

\* The boot serves the active model that it found, or the one that it stored.
LEMMA BootAgrees == IInv /\ Progress /\ AgreedInv /\ Boot => Progress' /\ AgreedInv'
<1> SUFFICES ASSUME IInv, Progress, AgreedInv, Boot PROVE Progress' /\ AgreedInv'
    OBVIOUS
<1>1. UNCHANGED <<runs, training, job, advertised>> /\ process # "serving"
    BY DEF Boot, Start, FindActive, FindFails, Demote, Seed, SeedFails, SeedRefused
<1>2. \A r \in Runs : job'[r] \notin Steps
    BY <1>1 DEF IInv, Alone, Live
<1>3. Progress'
    BY <1>2 DEF Progress, Steps
<1>4. ASSUME process' = "serving" PROVE active' \ {Legacy} = {memory'}
    <2>1. CASE FindActive
        <3>1. UNCHANGED active /\ memory' \in active \ {Legacy}
            BY <1>4, <2>1 DEF FindActive
        <3> QED
            BY <3>1 DEF IInv, Unambiguous
    <2>2. CASE Seed
        <3>1. active' = active \cup {Initial} /\ memory' = Initial /\ Initial \notin docs
            BY <2>2 DEF Seed
        <3>2. active \subseteq {Legacy}
            BY <3>1 DEF IInv, TypeOK, Seeded
        <3> QED
            BY <3>1, <3>2
    <2> QED
        BY <1>4, <2>1, <2>2 DEF Boot, Start, FindFails, Demote, SeedFails, SeedRefused
<1> QED
    BY <1>3, <1>4 DEF AgreedInv, Agreed

\* A process that has died serves nothing.
LEMMA CrashAgrees == IInv /\ Crash => Progress' /\ AgreedInv'
<1> SUFFICES ASSUME IInv, Crash PROVE Progress' /\ AgreedInv'
    OBVIOUS
<1>1. process' = "down" /\ \A r \in Runs : job'[r] \in {"none", "ended"}
    BY DEF Crash
<1> QED
    BY <1>1 DEF Progress, AgreedInv

\* A run is accepted only when none is in progress.
LEMMA AcceptAgrees ==
    ASSUME NEW r \in Runs, IInv, Progress, AgreedInv, Accept(r)
    PROVE  Progress' /\ AgreedInv'
<1>1. /\ process = "serving" /\ ~training
      /\ UNCHANGED <<docs, active, runs, memory, faults>>
      /\ \A q \in Runs : job'[q] = IF q = r THEN "create" ELSE job[q]
    BY DEF Accept, Free, Goto, IInv, TypeOK
<1>2. \A q \in Runs : job[q] \notin Steps
    BY <1>1 DEF IInv, Alone, Live
<1>3. Agreed
    BY <1>1, <1>2 DEF AgreedInv, Swapping, Steps
<1>4. Agreed'
    BY <1>1, <1>3 DEF Agreed
<1>5. Progress'
    BY <1>1, <1>2 DEF Progress, Steps
<1> QED
    BY <1>4, <1>5 DEF AgreedInv

\* The steps of a run up to the insertion of its model.
LEMMA TrainingAgrees ==
    ASSUME NEW r \in Runs, IInv, Progress, AgreedInv,
           CreateTraining(r) \/ StartTraining(r) \/ Train(r) \/ InsertModel(r)
    PROVE  Progress' /\ AgreedInv'
<1>1. /\ Live(r) /\ ~Swapping(r)
      /\ UNCHANGED <<active, memory, process, training>>
    BY DEF CreateTraining, StartTraining, Train, InsertModel, Call, Live, Steps, Swapping
<1>2. Agreed
    BY <1>1, AgreedBefore
<1>3. CASE CreateTraining(r)
    <2>1. PICK step \in {"start", "release"} :
              Goto(r, step) /\ (step = "start" => SetStatus(r, "queued"))
        BY <1>3 DEF CreateTraining, Call, AfterCreateError
    <2>2. /\ docs' = docs /\ faults' \in {faults, faults + 1}
          /\ runs' = runs \/ SetStatus(r, "queued")
        BY <1>3 DEF CreateTraining, Call, Fault
    <2>3. Agreed'
        BY <1>1, <1>2, <2>2, AgreedKept DEF SetStatus, IInv, TypeOK
    <2>4. Progress'
        BY <1>1, <2>1, ProgressOfOne DEF SetStatus, IInv, TypeOK, Steps
    <2> QED
        BY <2>3, <2>4 DEF AgreedInv
<1>4. CASE StartTraining(r)
    <2>1. PICK step \in {"train", "fail"} :
              Goto(r, step) /\ (step = "train" => SetStatus(r, "running"))
        BY <1>4 DEF StartTraining, Call
    <2>2. /\ docs' = docs /\ faults' \in {faults, faults + 1} /\ runs[r] = "queued"
          /\ runs' = runs \/ SetStatus(r, "running")
        BY <1>4 DEF StartTraining, Call, Fault, Progress
    <2>3. runs'[r] # "completed" /\ (SetStatus(r, "running") => runs'[r] = "running")
        BY <2>2 DEF SetStatus, IInv, TypeOK
    <2>4. Agreed'
        BY <1>1, <1>2, <2>2, AgreedKept DEF SetStatus, IInv, TypeOK
    <2>5. Progress'
        BY <1>1, <2>1, <2>3, ProgressOfOne DEF Steps
    <2> QED
        BY <2>4, <2>5 DEF AgreedInv
<1>5. CASE Train(r)
    <2>1. PICK step \in {"insert", "fail"} : Goto(r, step)
        BY <1>5 DEF Train, AfterTrainError
    <2>2. UNCHANGED <<docs, runs, faults>> /\ runs[r] = "running"
        BY <1>5 DEF Train, Progress
    <2>3. Agreed'
        BY <1>1, <1>2, <2>2, AgreedKept DEF IInv
    <2>4. Progress'
        BY <1>1, <2>1, <2>2, ProgressOfOne DEF Steps
    <2> QED
        BY <2>3, <2>4 DEF AgreedInv
<1>6. CASE InsertModel(r)
    <2>1. PICK step \in {"deactivate", "fail"} : Goto(r, step)
        BY <1>6 DEF InsertModel, Call
    <2>2. /\ docs \subseteq docs' /\ faults' \in {faults, faults + 1} /\ runs' = runs
          /\ runs[r] = "running"
        BY <1>6 DEF InsertModel, Inserted, Call, Fault, Progress
    <2>3. Agreed'
        BY <1>1, <1>2, <2>2, AgreedKept DEF IInv
    <2>4. Progress'
        BY <1>1, <2>1, <2>2, ProgressOfOne DEF Steps
    <2> QED
        BY <2>3, <2>4 DEF AgreedInv
<1> QED
    BY <1>3, <1>4, <1>5, <1>6

\* While the models are switched, the run's own document, which is not completed, shows it.
LEMMA SwitchingAgrees ==
    ASSUME NEW r \in Runs, IInv, Progress, DeactivateModels(r) \/ ActivateModel(r)
    PROVE  Progress' /\ AgreedInv'
<1>1. /\ Live(r) /\ runs[r] = "running" /\ r \in docs
      /\ UNCHANGED <<docs, runs, process, training>>
    BY DEF DeactivateModels, ActivateModel, Call, Live, Steps, Progress, IInv, Switching
<1>2. PICK step \in {"activate", "complete", "fail"} : Goto(r, step)
    BY DEF DeactivateModels, ActivateModel, Call
<1>3. Progress'
    BY <1>1, <1>2, ProgressOfOne DEF Steps
<1> QED
    BY <1>1, <1>3, DoubtIsAgreed DEF AgreedInv

\* The last write of CompleteTraining, and what follows it.
LEMMA CompletionAgrees ==
    ASSUME NEW r \in Runs, IInv, Progress, AgreedInv,
           CompleteRun(r) \/ SwapModel(r) \/ FailTraining(r) \/ Release(r)
    PROVE  Progress' /\ AgreedInv'
<1>1. Live(r)
    BY DEF CompleteRun, SwapModel, FailTraining, Release, Call, Live, Steps
<1>2. CASE CompleteRun(r)
    <2>1. /\ r \in docs /\ active = {r} /\ runs[r] = "running"
          /\ UNCHANGED <<docs, active, process, training>>
        BY <1>2 DEF CompleteRun, Call, Progress, IInv, Switching
    <2>2. PICK step \in {"swap", "fail"} : Goto(r, step) /\ (step = "fail" => faults' = faults + 1)
        BY <1>2 DEF CompleteRun, Call, Fault
    <2>3. runs' = runs \/ SetStatus(r, "completed")
        BY <1>2 DEF CompleteRun, Call
    <2>4. job'[r] = step
        BY <1>1, <2>1, <2>2, RunIsAlone DEF Steps
    <2>5. step = "fail" => faults' > 0
        BY <2>2 DEF IInv, TypeOK
    <2>6. Progress'
        BY <1>1, <2>1, <2>2, <2>5, ProgressOfOne DEF Steps
    <2>7. Swapping(r)' \/ Agreed'
        BY <2>1, <2>2, <2>3, <2>4 DEF Swapping, Agreed
    <2> QED
        BY <2>6, <2>7 DEF AgreedInv
<1>3. CASE SwapModel(r)
    <2>1. active' = {r} /\ memory' = r /\ Goto(r, "release") /\ UNCHANGED <<process, training>>
        BY <1>3 DEF SwapModel, Trained, Progress
    <2>2. Agreed'
        BY <2>1 DEF Agreed
    <2>3. Progress'
        BY <1>1, <2>1, ProgressOfOne DEF Steps
    <2> QED
        BY <2>2, <2>3 DEF AgreedInv
<1>4. CASE FailTraining(r)
    <2>1. /\ Goto(r, "release") /\ UNCHANGED <<docs, active, process, training, memory>>
          /\ faults' \in {faults, faults + 1}
          /\ SetStatus(r, "failed") \/ (runs' = runs /\ faults' = faults + 1)
        BY <1>4 DEF FailTraining, Call, Fault
    <2>2. Progress'
        BY <1>1, <2>1, ProgressOfOne DEF Steps
    <2>3. Agreed'
        <3>1. CASE Swapping(r)
            <4>1. r \in docs /\ faults > 0
                BY <1>4, <3>1 DEF FailTraining, Call, Swapping, Progress
            <4>2. CASE SetStatus(r, "failed")
                BY <2>1, <4>1, <4>2, DoubtIsAgreed DEF SetStatus, IInv, TypeOK
            <4>3. CASE faults' = faults + 1
                BY <4>1, <4>3 DEF Agreed, IInv, TypeOK
            <4> QED
                BY <2>1, <4>2, <4>3
        <3>2. CASE ~Swapping(r)
            BY <1>1, <2>1, <3>2, AgreedBefore, AgreedKept DEF SetStatus, IInv, TypeOK
        <3> QED
            BY <3>1, <3>2
    <2> QED
        BY <2>2, <2>3 DEF AgreedInv
<1>5. CASE Release(r)
    <2>1. /\ ~Swapping(r) /\ UNCHANGED <<docs, active, runs, process, memory, faults>>
          /\ \A q \in Runs : job'[q] = IF q = r THEN "ended" ELSE job[q]
        BY <1>5 DEF Release, Swapping, Goto, IInv, TypeOK
    <2>2. Agreed'
        BY <1>1, <2>1, AgreedBefore DEF Agreed
    <2>3. Progress'
        BY <2>1 DEF Progress
    <2> QED
        BY <2>2, <2>3 DEF AgreedInv
<1> QED
    BY <1>2, <1>3, <1>4, <1>5

\* Every step preserves what memory and the database agree on.
LEMMA AgreementPreserved ==
    IInv /\ Progress /\ AgreedInv /\ [Next]_vars => Progress' /\ AgreedInv'
<1> SUFFICES ASSUME IInv, Progress, AgreedInv, [Next]_vars PROVE Progress' /\ AgreedInv'
    OBVIOUS
<1>1. ASSUME NEW r \in Runs, RunTraining(r) PROVE Progress' /\ AgreedInv'
    BY <1>1, TrainingAgrees, SwitchingAgrees, CompletionAgrees DEF RunTraining
<1>2. CASE UNCHANGED vars
    BY <1>2 DEF vars, Progress, AgreedInv, Agreed, Swapping
<1> QED
    BY <1>1, <1>2, BootAgrees, CrashAgrees, AcceptAgrees DEF Next

-----------------------------------------------------------------------------
(* The theorems.                                                            *)

\* Every variable keeps its type; above all, an active model is a stored one.
THEOREM TypeCorrect == Spec => []TypeOK
<1>1. IInv => TypeOK
    BY DEF IInv
<1> QED
    BY <1>1, Invariance, PTL

\* server.go:483-497: two training runs are never in progress at once.
THEOREM OneTrainingAtATimeHolds == Spec => []OneTrainingAtATime
<1>1. IInv => OneTrainingAtATime
    BY DEF IInv, Alone, OneTrainingAtATime
<1> QED
    BY <1>1, Invariance, PTL

\* mongo.go:262-271, 346-351: at most one model of the current target is active, whatever
\* writes failed and wherever the process died.
THEOREM OneActiveModelHolds == Spec => []OneActiveModel
<1>1. IInv => OneActiveModel
    <2> SUFFICES ASSUME IInv PROVE Cardinality(active \ {Legacy}) <= 1
        BY DEF OneActiveModel
    <2>1. CASE active \ {Legacy} = {}
        BY <2>1, FS_EmptySet
    <2>2. CASE active \ {Legacy} # {}
        <3>1. PICK m : active \ {Legacy} = {m}
            BY <2>2 DEF IInv, Unambiguous
        <3> QED
            BY <3>1, FS_Singleton
    <2> QED
        BY <2>1, <2>2
<1> QED
    BY <1>1, Invariance, PTL

\* server.go:520-527: the model that the API predicts with is stored.
THEOREM ServedModelIsStoredHolds == Spec => []ServedModelIsStored
<1>1. IInv => ServedModelIsStored
    BY DEF IInv, Seeded, ServedModelIsStored
<1> QED
    BY <1>1, Invariance, PTL

\* mongo.go:341-355: a run is reported completed only once its model is the active one.
THEOREM CompletedOnceActiveHolds == Spec => CompletedOnceActive
<1> DEFINE A == \A r \in Runs :
                    runs[r] # "completed" /\ runs'[r] = "completed" => active = {r}
<1>1. IInv /\ [Next]_vars => A
    <2> SUFFICES ASSUME IInv, [Next]_vars, NEW r \in Runs,
                        runs[r] # "completed", runs'[r] = "completed"
                 PROVE  active = {r}
        OBVIOUS
    <2>1. runs' # runs
        OBVIOUS
    <2>2. PICK q \in Runs : Accept(q) \/ RunTraining(q)
        BY <2>1 DEF Next, vars, Boot, Start, FindActive, FindFails, Demote, Seed, SeedFails,
                    SeedRefused, Crash
    <2>3. PICK status : status \in {"queued", "running", "failed", "completed"}
                        /\ SetStatus(q, status)
                        /\ (status = "completed" => job[q] = "complete")
        BY <2>1, <2>2
        DEF Accept, RunTraining, CreateTraining, StartTraining, Train, InsertModel,
            DeactivateModels, ActivateModel, CompleteRun, SwapModel, FailTraining, Release, Call
    <2>4. q = r /\ status = "completed"
        BY <2>3 DEF SetStatus, IInv, TypeOK
    <2> QED
        BY <2>3, <2>4 DEF IInv, Switching
<1>2. CompletedOnceActive <=> [][A]_vars
    BY DEF CompletedOnceActive
<1> HIDE DEF A
<1>3. IInv /\ [Next]_vars => [A]_vars
    BY <1>1
<1> QED
    BY <1>2, <1>3, Invariance, PTL DEF Spec

\* server.go:520-527, mongo.go:339-356: when no run is in progress, the model in memory is
\* the active one; for any number of runs it takes two faults to hide that it is not.
THEOREM ServedModelIsActiveHolds == Spec => []ServedModelIsActive
<1>1. Init => Progress /\ AgreedInv
    BY DEF Init, Progress, AgreedInv
<1>2. IInv /\ Progress /\ AgreedInv /\ [Next]_vars => Progress' /\ AgreedInv'
    BY AgreementPreserved
<1>3. IInv /\ AgreedInv => ServedModelIsActive
    <2> SUFFICES ASSUME IInv, AgreedInv, process = "serving", ~training
                 PROVE  Agreed
        BY DEF ServedModelIsActive, Agreed
    <2>1. \A r \in Runs : ~Live(r)
        BY DEF IInv, Alone
    <2> QED
        BY <2>1 DEF AgreedInv, Swapping, Live, Steps
<1> QED
    BY <1>1, <1>2, <1>3, Invariance, PTL DEF Spec
=============================================================================
