---------------------------- MODULE Files_proofs -----------------------------
(***************************************************************************)
(* What goes through files.                                                *)
(*                                                                         *)
(* For any number of runs of the ETL: the model on disk is never ahead of  *)
(* its windows, and the metrics of a run stand for a complete set of       *)
(* files.  Both follow from the order of the outputs: what comes earlier   *)
(* is never of an earlier run than what comes later.                       *)
(*                                                                         *)
(* For a raw file of any size and content and any number of workers:       *)
(* whatever order they run in and whichever of them fail, the rows that    *)
(* are loaded are exactly the clean lines of the ranges that could be      *)
(* read, once each and in file order, and the figures count every line.    *)
(* A range is in one place at a time, and what is known of its rows        *)
(* follows it there.                                                       *)
(***************************************************************************)
EXTENDS Publish, Ingest, SequenceTheorems, FiniteSetTheorems, WellFoundedInduction, TLAPS

Last == 7
Order == 1 .. Last

\* Outputs are of runs that have begun, and the earlier ones are never behind the later ones.
OrderInv ==
    /\ \A k \in Order : RunOf(Outputs[k]) <= run
    /\ \A j, k \in Order : j < k => RunOf(Outputs[k]) <= RunOf(Outputs[j])

\* A run has completed what comes before its current output and not touched what comes after.
ProgressInv ==
    Running => /\ run > 0
               /\ \A k \in Order : k < next => Whole(Outputs[k]) /\ RunOf(Outputs[k]) = run
               /\ \A k \in Order : k > next => RunOf(Outputs[k]) < run
               /\ Whole("pipeline_metrics") => RunOf("pipeline_metrics") < run

\* The metrics of the latest run, read without a name for the outputs.
CompleteInv ==
    Whole("pipeline_metrics") /\ RunOf("pipeline_metrics") = run
        => \A k \in Order : Whole(Outputs[k]) /\ RunOf(Outputs[k]) = run

IInv == TypeOK /\ OrderInv /\ ProgressInv /\ CompleteInv

-----------------------------------------------------------------------------
(* The list of the outputs.                                                 *)

\* There are seven, all different.
LEMMA OutputFacts ==
    /\ Len(Outputs) = Last /\ DOMAIN Outputs = Order
    /\ \A j, k \in Order : Outputs[j] = Outputs[k] => j = k
    /\ Outputs[4] = "forecast_training" /\ Outputs[5] = "forecast_test"
    /\ Outputs[6] = "forecast_model" /\ Outputs[7] = "pipeline_metrics"
    /\ \A k \in Order : Outputs[k] \in Names
    /\ \A name \in Names : \E k \in Order : name = Outputs[k]
<1>1. Len(Outputs) = Last /\ DOMAIN Outputs = Order
  BY DEF Outputs, Last, Order
<1>2. \A j, k \in Order : Outputs[j] = Outputs[k] => j = k
  BY DEF Outputs, Order, Last
<1>3. /\ Outputs[4] = "forecast_training" /\ Outputs[5] = "forecast_test"
      /\ Outputs[6] = "forecast_model" /\ Outputs[7] = "pipeline_metrics"
  BY DEF Outputs
<1> QED
  BY <1>1, <1>2, <1>3 DEF Names

-----------------------------------------------------------------------------
(* The inductive invariant.                                                 *)

\* What is written is of the current run; the other outputs stay as they are.
LEMMA WriteFacts ==
    ASSUME TypeOK, ProgressInv, Running, NEW part \in {"torn", "short", "whole"}, Written(part)
    PROVE  /\ next \in Order /\ run \in 1 .. MaxRuns
           /\ disk' \in [Names -> Contents \cup {None}]
           /\ disk'[Outputs[next]] = [run |-> run, part |-> part]
           /\ disk'[Outputs[next]] # None
           /\ \A k \in Order : k # next => disk'[Outputs[k]] = disk[Outputs[k]]
<1>1. next \in Order /\ run \in 1 .. MaxRuns
  BY OutputFacts DEF TypeOK, ProgressInv, Running, Order, Last
<1>2. Outputs[next] \in Names
  BY <1>1, OutputFacts
<1>3. [run |-> run, part |-> part] \in Contents
  BY <1>1 DEF Contents
<1>4. disk' = [disk EXCEPT ![Outputs[next]] = [run |-> run, part |-> part]]
  BY DEF Written, Current
<1>5. disk' \in [Names -> Contents \cup {None}]
  BY <1>2, <1>3, <1>4 DEF TypeOK
<1>6. disk'[Outputs[next]] = [run |-> run, part |-> part]
  BY <1>2, <1>4 DEF TypeOK
<1>7. \A k \in Order : k # next => disk'[Outputs[k]] = disk[Outputs[k]]
  BY <1>1, <1>4, OutputFacts DEF TypeOK
<1> QED
  BY <1>1, <1>3, <1>5, <1>6, <1>7, NoneAssumption

\* The same in terms of runs.
LEMMA WriteRuns ==
    ASSUME TypeOK, ProgressInv, Running, NEW part \in {"torn", "short", "whole"}, Written(part),
           NEW k \in Order
    PROVE  /\ k = next => RunOf(Outputs[k])' = run /\ (Whole(Outputs[k])' <=> part = "whole")
           /\ k # next => /\ RunOf(Outputs[k])' = RunOf(Outputs[k])
                          /\ Whole(Outputs[k])' <=> Whole(Outputs[k])
<1> QED
  BY WriteFacts DEF RunOf, Whole

\* The run of an output is a number, of a run that has begun.
LEMMA RunOfType ==
    ASSUME TypeOK, NEW k \in Order
    PROVE  RunOf(Outputs[k]) \in 0 .. MaxRuns /\ (Whole(Outputs[k]) => RunOf(Outputs[k]) > 0)
<1>1. disk[Outputs[k]] \in Contents \cup {None}
  BY OutputFacts DEF TypeOK
<1> QED
  BY <1>1, MaxRunsAssumption DEF RunOf, Whole, Contents

-----------------------------------------------------------------------------
(* Types.                                                                   *)

\* There is nothing on disk yet.
LEMMA TypeInitially == Init => TypeOK
<1> SUFFICES ASSUME Init PROVE TypeOK
  OBVIOUS
<1>1. next \in 0 .. Len(Outputs)
  BY OutputFacts DEF Init, Last
<1> QED
  BY <1>1, MaxRunsAssumption, NoneAssumption DEF Init, TypeOK

\* Every step keeps the types; a run that writes has a number.
LEMMA TypePreserved == IInv /\ [Next]_vars => TypeOK'
<1> SUFFICES ASSUME TypeOK, ProgressInv, [Next]_vars PROVE TypeOK'
  BY DEF IInv
<1> USE DEF TypeOK
<1>len. Len(Outputs) = 7 /\ next \in 0 .. 7
  BY OutputFacts DEF Last
<1>1. CASE StartRun
  BY <1>1, <1>len, MaxRunsAssumption DEF StartRun
<1>2. CASE Create
  BY <1>2, WriteFacts DEF Create
<1>3. CASE WriteSome
  BY <1>3, WriteFacts DEF WriteSome
<1>4. CASE Finish
  <2>1. disk' \in [Names -> Contents \cup {None}]
    BY <1>4, WriteFacts DEF Finish
  <2>2. next' \in 0 .. 7
    BY <1>4, <1>len DEF Finish, Running
  <2> QED
    BY <1>4, <1>len, <2>1, <2>2 DEF Finish
<1>5. CASE Abort
  BY <1>5, <1>len DEF Abort
<1>6. CASE Boot \/ ReadReport
  <2>1. Whole("sustainability_report") => disk["sustainability_report"].run \in 1 .. MaxRuns
    <3>1. "sustainability_report" \in Names
      BY DEF Names, Outputs
    <3> QED
      BY <3>1 DEF Whole, Contents
  <2> QED
    BY <1>6, <2>1, MaxRunsAssumption DEF Boot, ReadReport, Decodes
<1>7. CASE LoadRows
  <2>1. "forecast_training" \in Names
    BY DEF Names, Outputs
  <2> QED
    BY <1>7, <2>1 DEF LoadRows
<1>8. CASE Stop \/ AnswerReport \/ Expire \/ Reconnect \/ UNCHANGED vars
  BY <1>8 DEF Stop, AnswerReport, Expire, Reconnect, vars
<1> QED
  BY <1>1, <1>2, <1>3, <1>4, <1>5, <1>6, <1>7, <1>8 DEF Next

-----------------------------------------------------------------------------
(* The order of the outputs.                                                *)

\* A step that writes puts the current run, which nothing exceeds, at its output, after
\* outputs that are of this run already.
LEMMA WriteKeepsOrder ==
    ASSUME IInv, Running, NEW part \in {"torn", "short", "whole"}, Written(part), run' = run
    PROVE  OrderInv'
<1> USE DEF IInv
<1>1. next \in Order /\ run \in 1 .. MaxRuns
  BY WriteFacts
<1>2. ASSUME NEW k \in Order PROVE RunOf(Outputs[k])' <= run'
  BY <1>1, <1>2, WriteRuns DEF OrderInv
<1>3. ASSUME NEW j \in Order, NEW k \in Order, j < k
      PROVE  RunOf(Outputs[k])' <= RunOf(Outputs[j])'
  <2>1. CASE j = next
    BY <1>1, <1>3, <2>1, WriteRuns DEF OrderInv
  <2>2. CASE k = next
    <3>1. RunOf(Outputs[j]) = run /\ RunOf(Outputs[j])' = RunOf(Outputs[j])
      BY <1>3, <2>2, WriteRuns DEF ProgressInv, Order
    <3> QED
      BY <1>1, <2>2, <3>1, WriteRuns
  <2>3. CASE j # next /\ k # next
    BY <1>3, <2>3, WriteRuns DEF OrderInv
  <2> QED
    BY <2>1, <2>2, <2>3
<1> QED
  BY <1>2, <1>3 DEF OrderInv

\* While a file is not complete its run has not progressed, and the metrics are not complete.
LEMMA PartKeepsProgress ==
    ASSUME IInv, Running, NEW part \in {"torn", "short"}, Written(part),
           run' = run, next' = next
    PROVE  ProgressInv' /\ CompleteInv'
<1> USE DEF IInv
<1>1. next \in Order /\ run \in 1 .. MaxRuns
  BY WriteFacts
<1>2. \A k \in Order : k < next => Whole(Outputs[k])' /\ RunOf(Outputs[k])' = run
  BY WriteRuns DEF ProgressInv, Order
<1>3. \A k \in Order : k > next => RunOf(Outputs[k])' < run
  BY WriteRuns DEF ProgressInv, Order
<1>4. Whole("pipeline_metrics")' => RunOf("pipeline_metrics")' < run
  <2>1. 7 \in Order /\ Outputs[7] = "pipeline_metrics"
    BY OutputFacts DEF Order, Last
  <2> QED
    BY <2>1, WriteRuns DEF ProgressInv
<1>5. ProgressInv'
  BY <1>1, <1>2, <1>3, <1>4 DEF ProgressInv
<1>6. CompleteInv'
  <2>1. 7 \in Order /\ Outputs[7] = "pipeline_metrics"
    BY OutputFacts DEF Order, Last
  <2>2. RunOf("pipeline_metrics")' \in Int
    BY <2>1, <1>1, RunOfType, WriteRuns
  <2> QED
    BY <1>1, <1>4, <2>2 DEF CompleteInv
<1> QED
  BY <1>5, <1>6

\* A completed file is of the current run, and so are all before it; the last one makes the
\* set complete.
LEMMA FinishKeepsProgress ==
    ASSUME IInv, Finish
    PROVE  ProgressInv' /\ CompleteInv'
<1> USE DEF IInv
<1>1. /\ Running /\ Written("whole") /\ run' = run
      /\ next \in Order /\ run \in 1 .. MaxRuns
  BY WriteFacts DEF Finish
<1>2. \A k \in Order : k <= next => Whole(Outputs[k])' /\ RunOf(Outputs[k])' = run
  BY <1>1, WriteRuns DEF ProgressInv, Order
<1>3. \A k \in Order : k > next => RunOf(Outputs[k])' < run
  BY <1>1, WriteRuns DEF ProgressInv, Order
<1>4. 7 \in Order /\ Outputs[7] = "pipeline_metrics" /\ Len(Outputs) = 7
  BY OutputFacts DEF Order, Last
<1>5. CASE next = 7
  <2>1. ~Running'
    BY <1>4, <1>5 DEF Finish, Running
  <2>2. \A k \in Order : Whole(Outputs[k])' /\ RunOf(Outputs[k])' = run
    BY <1>2, <1>5 DEF Order, Last
  <2> QED
    BY <1>1, <2>1, <2>2 DEF ProgressInv, CompleteInv
<1>6. CASE next # 7
  <2>1. next' = next + 1 /\ 7 > next
    BY <1>1, <1>4, <1>6 DEF Finish, Order, Last
  <2>2. RunOf("pipeline_metrics")' < run /\ RunOf("pipeline_metrics")' # run
    <3>1. RunOf(Outputs[7])' < run
      BY <1>3, <1>4, <2>1
    <3>2. RunOf(Outputs[7])' = RunOf(Outputs[7]) /\ RunOf(Outputs[7]) \in Int
      BY <1>1, <1>4, <1>6, WriteRuns, RunOfType
    <3> QED
      BY <1>1, <1>4, <3>1, <3>2
  <2>3. ProgressInv'
    BY <1>1, <1>2, <1>3, <2>1, <2>2 DEF ProgressInv, Order, Last
  <2> QED
    BY <1>1, <2>2, <2>3 DEF CompleteInv
<1> QED
  BY <1>5, <1>6

\* When a run starts everything on disk is of an earlier one.
LEMMA StartKeepsOrder ==
    ASSUME IInv, StartRun
    PROVE  OrderInv' /\ ProgressInv' /\ CompleteInv'
<1> USE DEF IInv
<1>1. run' = run + 1 /\ next' = 1 /\ disk' = disk /\ run \in 0 .. MaxRuns
  BY DEF StartRun, TypeOK
<1>2. ASSUME NEW k \in Order
      PROVE  /\ RunOf(Outputs[k])' = RunOf(Outputs[k])
             /\ RunOf(Outputs[k]) \in Int /\ RunOf(Outputs[k]) < run'
  BY <1>1, RunOfType DEF OrderInv, RunOf
<1>3. 7 \in Order /\ Outputs[7] = "pipeline_metrics"
  BY OutputFacts DEF Order, Last
<1>4. OrderInv'
  BY <1>1, <1>2 DEF OrderInv
<1>5. ProgressInv'
  BY <1>1, <1>2, <1>3 DEF ProgressInv, Order
<1>6. CompleteInv'
  BY <1>1, <1>2, <1>3 DEF CompleteInv
<1> QED
  BY <1>4, <1>5, <1>6

\* Readers do not write files, and a run that stops leaves them as they are.
LEMMA OthersKeepOrder ==
    ASSUME IInv, UNCHANGED <<disk, run>>, next' \in {next, 0}
    PROVE  OrderInv' /\ ProgressInv' /\ CompleteInv'
<1>1. \A name : RunOf(name)' = RunOf(name) /\ (Whole(name)' <=> Whole(name))
  BY DEF RunOf, Whole
<1>2. OrderInv'
  BY <1>1 DEF IInv, OrderInv
<1>3. ProgressInv'
  BY <1>1 DEF IInv, ProgressInv, Running
<1>4. CompleteInv'
  BY <1>1 DEF IInv, CompleteInv
<1> QED
  BY <1>2, <1>3, <1>4

-----------------------------------------------------------------------------
(* Theorems.                                                                *)

(* The invariant from which the rest follows.                               *)
THEOREM Invariance == Spec => []IInv
<1>1. Init => IInv
  <2> SUFFICES ASSUME Init PROVE IInv
    OBVIOUS
  <2>1. \A name \in Names : disk[name] = None
    BY DEF Init
  <2>2. \A k \in Order : RunOf(Outputs[k]) = 0 /\ ~Whole(Outputs[k])
    BY <2>1, OutputFacts DEF RunOf, Whole
  <2>3. 7 \in Order /\ Outputs[7] = "pipeline_metrics"
    BY OutputFacts DEF Order, Last
  <2> QED
    BY <2>2, <2>3, TypeInitially DEF IInv, OrderInv, ProgressInv, CompleteInv, Init, Running
<1>2. IInv /\ [Next]_vars => IInv'
  <2> SUFFICES ASSUME IInv, [Next]_vars PROVE OrderInv' /\ ProgressInv' /\ CompleteInv'
    BY TypePreserved DEF IInv
  <2>1. CASE StartRun
    BY <2>1, StartKeepsOrder
  <2>2. CASE Create
    BY <2>2, WriteKeepsOrder, PartKeepsProgress DEF Create
  <2>3. CASE WriteSome
    BY <2>3, WriteKeepsOrder, PartKeepsProgress DEF WriteSome
  <2>4. CASE Finish
    BY <2>4, WriteKeepsOrder, FinishKeepsProgress DEF Finish
  <2>5. CASE Abort
    BY <2>5, OthersKeepOrder DEF Abort
  <2>6. CASE \/ Boot \/ Stop \/ ReadReport \/ AnswerReport \/ Expire \/ LoadRows \/ Reconnect
             \/ UNCHANGED vars
    BY <2>6, OthersKeepOrder
       DEF Boot, Stop, ReadReport, AnswerReport, Expire, LoadRows, Reconnect, vars
  <2> QED
    BY <2>1, <2>2, <2>3, <2>4, <2>5, <2>6 DEF Next
<1> QED
  BY <1>1, <1>2, PTL DEF Spec

(* Every variable keeps its type.                                           *)
THEOREM TypeCorrect == Spec => []TypeOK
<1>1. IInv => TypeOK
  BY DEF IInv
<1> QED
  BY <1>1, Invariance, PTL

(* The model on disk is never of a later run than its windows.              *)
THEOREM DataNotBehindModelHolds == Spec => []DataNotBehindModel
<1>1. IInv => DataNotBehindModel
  BY OutputFacts DEF IInv, OrderInv, Order, Last, DataNotBehindModel
<1> QED
  BY <1>1, Invariance, PTL

(* The metrics of the latest run stand for a complete set of its files.     *)
THEOREM MetricsMeanCompleteHolds == Spec => []MetricsMeanComplete
<1>1. IInv => MetricsMeanComplete
  BY OutputFacts DEF IInv, CompleteInv, MetricsMeanComplete
<1> QED
  BY <1>1, Invariance, PTL

-----------------------------------------------------------------------------
(* Ingest: the inductive invariant of the pool.                             *)

Elements(seq) == {seq[k] : k \in DOMAIN seq}
Distinct(seq) == \A j, k \in DOMAIN seq : seq[j] = seq[k] => j = k

\* A line starts here, or the file ends.
Boundary(p) == p \in 1 .. size /\ (p = size \/ Byte(p - 1) = "newline")

\* The lines that start in range k, by what becomes of them: all of them, those before q, and
\* those of several ranges.
LinesIn(k) == {p \in Lines : Start(k) <= p /\ p < End(k)}
Share(k) == [kind \in Kinds |-> {p \in LinesIn(k) : Kind(p) = kind}]
Read(k, q) == [kind \in Kinds |-> {p \in LinesIn(k) : p < q /\ Kind(p) = kind}]
Shares(ranges) == [kind \in Kinds |-> UNION {Share(k)[kind] : k \in ranges}]

\* The rows and the figures of lines so divided.
Rows(clean, lines) ==
    /\ clean \in Seq(Nat)
    /\ \A j, k \in DOMAIN clean : j < k => clean[j] < clean[k]
    /\ Elements(clean) = lines["clean"]
Figures(figures, lines) ==
    /\ figures \in [Kinds -> Nat]
    /\ \A kind \in Kinds : figures[kind] = Cardinality(lines[kind])

\* Where a range is: in the channel, with a worker, in the other channel, failed, or collected.
Waiting == Elements(jobs)
Busy == {doing[w] : w \in Pool} \ {Idle}
Delivered == {results[k].index : k \in DOMAIN results}
Collected == Pool \ (Waiting \cup Busy \cup Delivered \cup failed)

FileInv == file \in Seq(Bytes) /\ workers \in Nat \ {0}

PlaceInv ==
    /\ jobs \in Seq(Pool) /\ Distinct(jobs)
    /\ doing \in [Pool -> Pool \cup {Idle}]
    /\ \A v, w \in Pool : doing[v] = doing[w] /\ doing[v] # Idle => v = w
    /\ results \in Seq([index : Pool, rows : Seq(Nat), stats : [Kinds -> Nat]])
    /\ \A j, k \in DOMAIN results : results[j].index = results[k].index => j = k
    /\ failed \subseteq Pool
    /\ Waiting \cap (Busy \cup Delivered \cup failed) = {}
    /\ Busy \cap (Delivered \cup failed) = {}
    /\ Delivered \cap failed = {}

WorkerInv ==
    /\ position \in [Pool -> 0 .. size]
    /\ DOMAIN chunk = Pool /\ DOMAIN counts = Pool
    /\ \A w, k \in Pool, q \in 0 .. size :
            doing[w] = k /\ position[w] = q =>
                /\ size # 0 => Boundary(q) /\ Start(k) <= q
                /\ Rows(chunk[w], Read(k, q)) /\ Figures(counts[w], Read(k, q))

ResultInv ==
    \A j \in DOMAIN results, k \in Pool :
        results[j].index = k => /\ Rows(results[j].rows, Share(k))
                                /\ Figures(results[j].stats, Share(k))

CollectedInv ==
    /\ DOMAIN ordered = Pool
    /\ \A k \in Pool : IF k \in Collected THEN Rows(ordered[k], Share(k)) ELSE ordered[k] = <<>>
    /\ \A ranges \in SUBSET Pool : ranges = Collected => Figures(stats, Shares(ranges))

MergeInv ==
    /\ merged \in 0 .. workers
    /\ merged > 0 => PoolDone
    /\ \A ranges \in SUBSET Pool :
            ranges = {k \in Collected : k < merged} => Rows(cleanData, Shares(ranges))

LoadInv == FileInv /\ PlaceInv /\ WorkerInv /\ ResultInv /\ CollectedInv /\ MergeInv

-----------------------------------------------------------------------------
(* Ranges and lines.                                                        *)

LessThan == {ss \in Nat \X Nat : ss[1] < ss[2]}

\* The numbers are well-founded.
LEMMA LessWF == IsWellFoundedOn(LessThan, Nat)
  BY NatLessThanWellFounded DEF OpToRel, LessThan

\* The ranges divide the bytes among them, in order.
LEMMA RangeFacts ==
    ASSUME FileInv
    PROVE  /\ size \in Nat
           /\ \A k \in Pool : /\ Start(k) \in 0 .. size /\ End(k) \in Start(k) .. size
                              /\ size # 0 => Start(k) < size
           /\ \A j, k \in Pool : j < k => End(j) <= Start(k)
           /\ \A p \in 0 .. size - 1 : \E k \in Pool : Start(k) <= p /\ p < End(k)
<1> DEFINE b == size \div workers
           m == size % workers
<1>1. size \in Nat /\ workers \in Nat \ {0}
  BY LenProperties DEF FileInv, size
<1>2. b \in Int /\ m \in 0 .. workers - 1
  BY <1>1, SMT
<1>3. size = workers * b + m
  BY <1>1, <1>2, SMT
<1>4. b \in Nat
  <2> HIDE DEF b, m
  <2> SUFFICES ASSUME b <= -1 PROVE FALSE
    BY <1>2
  <2>1. workers * b <= workers * (-1)
    BY <1>1, <1>2
  <2> QED
    BY <1>1, <1>2, <1>3, <2>1
<1>5. \A k : Start(k) = k * b
  BY DEF Start
<1> HIDE DEF b, m
<1>6. \A k \in Pool : /\ k * b \in Nat /\ (k + 1) * b = k * b + b
                      /\ (k + 1) * b <= workers * b /\ workers * b \in Nat /\ workers * b <= size
  <2> SUFFICES ASSUME NEW k \in Pool
               PROVE  /\ k * b \in Nat /\ (k + 1) * b = k * b + b
                      /\ (k + 1) * b <= workers * b /\ workers * b \in Nat /\ workers * b <= size
    OBVIOUS
  <2>1. k \in Nat /\ k + 1 <= workers
    BY <1>1 DEF Pool
  <2>2. k * b \in Nat /\ (k + 1) * b = k * b + b /\ workers * b \in Nat /\ (k + 1) * b \in Nat
    BY <1>1, <1>4, <2>1
  <2>3. (workers - (k + 1)) * b >= 0
    BY <1>1, <1>4, <2>1
  <2>4. (workers - (k + 1)) * b = workers * b - (k + 1) * b
    BY <1>1, <1>4, <2>1
  <2>5. workers * b <= size
    BY <1>1, <1>2, <1>3, <2>2
  <2> QED
    BY <2>2, <2>3, <2>4, <2>5
<1>7. ASSUME NEW k \in Pool
      PROVE  /\ Start(k) \in 0 .. size /\ End(k) \in Start(k) .. size
             /\ size # 0 => Start(k) < size
  <2>1. /\ k * b \in Nat /\ (k + 1) * b = k * b + b
        /\ (k + 1) * b <= workers * b /\ workers * b \in Nat /\ workers * b <= size
    BY <1>6
  <2>2. End(k) = IF k = workers - 1 THEN size ELSE k * b + b
    BY <1>5 DEF End, b
  <2>3. k * b <= size /\ k * b + b <= size
    BY <1>1, <1>4, <2>1
  <2>4. size # 0 => k * b < size
    <3>1. CASE b = 0
      <4>1. k * b = 0
        BY <3>1 DEF Pool
      <4> QED
        BY <1>1, <4>1
    <3>2. CASE b # 0
      BY <1>1, <1>4, <2>1, <2>3, <3>2
    <3> QED
      BY <3>1, <3>2
  <2> QED
    BY <1>1, <1>4, <1>5, <2>1, <2>2, <2>3, <2>4
<1>8. ASSUME NEW j \in Pool, NEW k \in Pool, j < k PROVE End(j) <= Start(k)
  <2>1. j \in Nat /\ k \in Nat /\ j + 1 <= k /\ j # workers - 1
    BY <1>1, <1>8 DEF Pool
  <2>2. End(j) = j * b + b
    BY <1>5, <2>1 DEF End, b
  <2>3. (k - (j + 1)) * b >= 0
    BY <1>4, <2>1
  <2>4. (k - (j + 1)) * b = k * b - (j * b + b)
    BY <1>4, <2>1
  <2>5. j * b + b \in Int /\ k * b \in Int
    BY <1>4, <2>1
  <2> QED
    BY <1>5, <2>2, <2>3, <2>4, <2>5
<1>9. ASSUME NEW p \in 0 .. size - 1 PROVE \E k \in Pool : Start(k) <= p /\ p < End(k)
  <2> DEFINE last == workers - 1
  <2>1. last \in Pool /\ End(last) = size
    BY <1>1 DEF Pool, End
  <2>2. CASE Start(last) <= p
    BY <1>1, <2>1, <2>2
  <2>3. CASE p < Start(last)
    <3>1. p < last * b /\ last \in Nat
      BY <1>1, <1>5, <2>3
    <3>2. b # 0
      BY <1>1, <1>4, <3>1
    <3>3. PICK k \in Int, r \in 0 .. b - 1 : p = b * k + r
      <4> DEFINE d == p \div b
                 e == p % b
      <4>1. b \in Nat \ {0} /\ p \in Nat
        BY <1>1, <1>4, <3>2
      <4>2. d \in Int /\ e \in 0 .. b - 1
        BY <4>1, SMT
      <4>3. p = b * d + e
        BY <4>1, <4>2, SMT
      <4> HIDE DEF d, e
      <4> QED
        BY <4>2, <4>3
    <3>4. k >= 0
      <4> SUFFICES ASSUME k <= -1 PROVE FALSE
        BY <3>3
      <4>1. b * k <= b * (-1)
        BY <1>4, <3>3
      <4> QED
        BY <1>4, <3>3, <4>1
    <3>5. k < last
      <4> SUFFICES ASSUME k >= last PROVE FALSE
        BY <1>1, <3>3
      <4>1. b * k >= b * last
        BY <1>1, <1>4, <3>3
      <4>2. b * last = last * b /\ b * last \in Int /\ b * k \in Int
        BY <1>1, <1>4, <3>3
      <4> QED
        BY <1>1, <3>1, <3>3, <4>1, <4>2
    <3>6. k \in Pool /\ k # workers - 1
      BY <1>1, <3>3, <3>4, <3>5 DEF Pool
    <3>7. Start(k) = k * b /\ End(k) = k * b + b
      BY <1>5, <3>6 DEF End, b
    <3>8. k * b = b * k /\ b * k \in Int
      BY <1>4, <3>3
    <3> QED
      BY <1>1, <1>4, <3>3, <3>6, <3>7, <3>8
  <2> QED
    BY <1>1, <1>5, <1>7, <2>1, <2>2, <2>3
<1> QED
  BY <1>1, <1>7, <1>8, <1>9

\* The next line starts where the line of p ends, and none before.
LEMMA AfterFacts ==
    ASSUME FileInv, NEW p \in 0 .. size - 1
    PROVE  /\ After(p) \in p + 1 .. size /\ Boundary(After(p))
           /\ \A r \in p + 1 .. After(p) - 1 : ~Boundary(r)
<1>1. size \in Nat
  BY RangeFacts
<1> DEFINE Ends == {q \in p + 1 .. size : q = size \/ Byte(q - 1) = "newline"}
           Is(q) == q \in p + 1 .. size /\ (q = size \/ Byte(q - 1) = "newline")
                       /\ \A r \in p + 1 .. q - 1 : Byte(r - 1) # "newline"
<1>2. Ends \subseteq Nat /\ size \in Ends
  BY <1>1
<1>3. PICK q \in Ends : \A r \in Ends : ~(<<r, q>> \in LessThan)
  BY <1>2, LessWF, WFMin
<1>4. Is(q)
  <2>1. ASSUME NEW r \in p + 1 .. q - 1 PROVE Byte(r - 1) # "newline"
    <3>1. r \in p + 1 .. size /\ <<r, q>> \in LessThan
      BY <1>1, <1>3 DEF LessThan
    <3>2. r \notin Ends
      <4> HIDE DEF Ends
      <4> QED
        BY <1>3, <3>1
    <3> QED
      BY <3>1, <3>2
  <2> QED
    BY <1>3, <2>1
<1>5. After(p) = CHOOSE x \in p + 1 .. size :
                     /\ x = size \/ Byte(x - 1) = "newline"
                     /\ \A r \in p + 1 .. x - 1 : Byte(r - 1) # "newline"
  BY DEF After
<1>6. Is(After(p))
  BY <1>4, <1>5, Zenon
<1>7. Boundary(After(p))
  BY <1>1, <1>6 DEF Boundary
<1>8. ASSUME NEW r \in p + 1 .. After(p) - 1 PROVE ~Boundary(r)
  BY <1>1, <1>6 DEF Boundary
<1> QED
  BY <1>6, <1>7, <1>8

\* A worker begins with the first line of its range, or past its end.
LEMMA BeginFacts ==
    ASSUME FileInv, size # 0, NEW k \in Pool
    PROVE  /\ Boundary(Begin(k)) /\ Start(k) <= Begin(k)
           /\ \A r \in Start(k) .. Begin(k) - 1 : ~Boundary(r)
<1>1. size \in Nat /\ Start(k) \in 0 .. size - 1
  BY RangeFacts
<1>2. /\ After(Start(k)) \in Start(k) + 1 .. size /\ Boundary(After(Start(k)))
      /\ \A r \in Start(k) + 1 .. After(Start(k)) - 1 : ~Boundary(r)
  BY <1>1, AfterFacts
<1>3. CASE Start(k) = 0 \/ Byte(Start(k) - 1) # "newline"
  <2>1. Begin(k) = After(Start(k))
    BY <1>3 DEF Begin
  <2>2. ~Boundary(Start(k))
    BY <1>1, <1>3 DEF Boundary
  <2>3. \A r \in Start(k) .. Begin(k) - 1 :
            r = Start(k) \/ r \in Start(k) + 1 .. After(Start(k)) - 1
    BY <1>1, <1>2, <2>1
  <2> QED
    BY <1>1, <1>2, <2>1, <2>2, <2>3
<1>4. CASE ~(Start(k) = 0 \/ Byte(Start(k) - 1) # "newline")
  BY <1>1, <1>4 DEF Begin, Boundary
<1> QED
  BY <1>3, <1>4

\* Lines start at boundaries, and belong to one range each.
LEMMA LineFacts ==
    ASSUME FileInv
    PROVE  /\ Lines \subseteq Nat /\ IsFiniteSet(Lines)
           /\ \A p \in Lines : Boundary(p) /\ p < size
           /\ \A p \in Nat : Boundary(p) /\ p < size /\ Text(p) # {} => p \in Lines
           /\ \A p \in Nat : Text(p) = {} => p \notin Lines
           /\ \A p \in Lines : \E k \in Pool : p \in LinesIn(k)
           /\ \A j, k \in Pool : j # k => LinesIn(j) \cap LinesIn(k) = {}
           /\ \A j, k \in Pool : j < k => \A p \in LinesIn(j), q \in LinesIn(k) : p < q
<1>1. /\ size \in Nat
      /\ \A k \in Pool : Start(k) \in Nat /\ End(k) \in Nat
      /\ \A j, k \in Pool : j < k => End(j) <= Start(k)
      /\ \A p \in 0 .. size - 1 : \E k \in Pool : Start(k) <= p /\ p < End(k)
  BY RangeFacts
<1>2. Lines \subseteq 1 .. size - 1 /\ Lines \subseteq Nat
  BY <1>1 DEF Lines
<1>3. IsFiniteSet(Lines)
  <2>1. IsFiniteSet(1 .. size - 1)
    BY <1>1, FS_Interval
  <2> QED
    BY <1>2, <2>1, FS_Subset
<1>4. \A p \in Lines : Boundary(p) /\ p < size
  BY <1>1 DEF Lines, Boundary
<1>5. \A p \in Nat : Boundary(p) /\ p < size /\ Text(p) # {} => p \in Lines
  BY <1>1 DEF Lines, Boundary
<1>6. \A p \in Nat : Text(p) = {} => p \notin Lines
  BY DEF Lines
<1>7. ASSUME NEW p \in Lines PROVE \E k \in Pool : p \in LinesIn(k)
  <2>1. p \in 0 .. size - 1
    BY <1>1, <1>2
  <2> QED
    BY <1>1, <2>1 DEF LinesIn
<1>8. ASSUME NEW j \in Pool, NEW k \in Pool, j < k, NEW p \in LinesIn(j), NEW q \in LinesIn(k)
      PROVE  p < q
  <2>1. p \in Nat /\ q \in Nat /\ p < End(j) /\ Start(k) <= q
    BY <1>2 DEF LinesIn
  <2>2. End(j) <= Start(k) /\ End(j) \in Nat /\ Start(k) \in Nat
    BY <1>1, <1>8
  <2> QED
    BY <2>1, <2>2
<1>9. ASSUME NEW j \in Pool, NEW k \in Pool, j # k PROVE LinesIn(j) \cap LinesIn(k) = {}
  <2>1. j < k \/ k < j
    BY <1>9 DEF Pool, FileInv
  <2>2. \A p \in LinesIn(j) : p \in Nat
    BY <1>2 DEF LinesIn
  <2> QED
    BY <1>8, <2>1, <2>2
<1> QED
  BY <1>2, <1>3, <1>4, <1>5, <1>6, <1>7, <1>8, <1>9

-----------------------------------------------------------------------------
(* Rows and figures.                                                        *)

\* Nothing has been read of no line.
LEMMA Nothing ==
    ASSUME NEW lines, \A kind \in Kinds : lines[kind] = {}
    PROVE  Rows(<<>>, lines) /\ Figures(Zero, lines)
<1>1. <<>> \in Seq(Nat) /\ Len(<<>>) = 0 /\ DOMAIN <<>> = {}
  BY EmptySeq
<1>2. lines["clean"] = {}
  BY DEF Kinds
<1>3. Cardinality({}) = 0
  BY FS_EmptySet
<1> QED
  BY <1>1, <1>2, <1>3 DEF Rows, Figures, Elements, Zero

\* One line more, after all the others.
LEMMA RowsAppend ==
    ASSUME NEW clean, NEW old, Rows(clean, old), NEW new, NEW p \in Nat,
           \A q \in old["clean"] : q < p, new["clean"] = old["clean"] \cup {p}
    PROVE  Rows(Append(clean, p), new)
<1> DEFINE n == Len(clean)
           s == Append(clean, p)
<1>1. clean \in Seq(Nat) /\ n \in Nat /\ DOMAIN clean = 1 .. n
  BY LenProperties DEF Rows
<1>2. /\ s \in Seq(Nat) /\ DOMAIN s = 1 .. n + 1
      /\ \A k \in 1 .. n : s[k] = clean[k]
      /\ s[n + 1] = p
  BY <1>1, AppendProperties, LenProperties
<1> HIDE DEF n, s
<1>3. \A k \in 1 .. n : clean[k] \in Nat /\ clean[k] < p
  <2> SUFFICES ASSUME NEW k \in 1 .. n PROVE clean[k] \in Nat /\ clean[k] < p
    OBVIOUS
  <2>1. clean[k] \in Elements(clean)
    BY <1>1 DEF Elements
  <2>2. clean[k] \in Nat
    BY <1>1, ElementOfSeq DEF n
  <2> QED
    BY <2>1, <2>2 DEF Rows
<1>4. \A k \in 1 .. n + 1 : k \in 1 .. n \/ k = n + 1
  BY <1>1
<1>5. \A j, k \in DOMAIN s : j < k => s[j] < s[k]
  <2> SUFFICES ASSUME NEW j \in 1 .. n + 1, NEW k \in 1 .. n + 1, j < k PROVE s[j] < s[k]
    BY <1>2
  <2>1. j \in 1 .. n
    BY <1>1
  <2>2. CASE k \in 1 .. n
    BY <1>1, <1>2, <2>1, <2>2 DEF Rows
  <2>3. CASE k = n + 1
    BY <1>2, <1>3, <2>1, <2>3
  <2> QED
    BY <1>4, <2>2, <2>3
<1>6. Elements(s) = Elements(clean) \cup {p}
  <2>1. \A k \in DOMAIN s : s[k] \in Elements(clean) \cup {p}
    BY <1>1, <1>2, <1>4 DEF Elements
  <2>2. \A k \in DOMAIN clean : clean[k] \in Elements(s)
    <3>1. \A k \in 1 .. n : k \in 1 .. n + 1
      BY <1>1
    <3> QED
      BY <1>1, <1>2, <3>1 DEF Elements
  <2>3. p \in Elements(s)
    <3>1. n + 1 \in 1 .. n + 1
      BY <1>1
    <3> QED
      BY <1>2, <3>1 DEF Elements
  <2>4. \A x \in Elements(s) : x \in Elements(clean) \cup {p}
    BY <2>1 DEF Elements
  <2>5. \A x \in Elements(clean) : x \in Elements(s)
    BY <2>2 DEF Elements
  <2> QED
    BY <2>3, <2>4, <2>5
<1> QED
  BY <1>2, <1>5, <1>6 DEF Rows, s

\* Rows followed by rows of later lines.
LEMMA RowsJoined ==
    ASSUME NEW s, NEW before, Rows(s, before), NEW t, NEW after, Rows(t, after),
           \A p \in before["clean"], q \in after["clean"] : p < q,
           NEW both, both["clean"] = before["clean"] \cup after["clean"]
    PROVE  Rows(s \o t, both)
<1> DEFINE u == s \o t
           m == Len(s)
           n == Len(t)
<1>1. /\ s \in Seq(Nat) /\ t \in Seq(Nat) /\ m \in Nat /\ n \in Nat
      /\ DOMAIN s = 1 .. m /\ DOMAIN t = 1 .. n
  BY LenProperties DEF Rows
<1>2. /\ u \in Seq(Nat) /\ DOMAIN u = 1 .. m + n
      /\ \A k \in 1 .. m + n : u[k] = IF k <= m THEN s[k] ELSE t[k - m]
  BY <1>1, ConcatProperties, LenProperties
<1> HIDE DEF u, m, n
<1>3. /\ \A k \in 1 .. m + n : k \in 1 .. m \/ (k - m \in 1 .. n /\ k > m)
      /\ \A k \in 1 .. m : k \in Nat /\ k <= m /\ u[k] = s[k]
      /\ \A k \in 1 .. m + n : k \in Nat /\ (k > m => u[k] = t[k - m])
  BY <1>1, <1>2
<1>4. \A j \in 1 .. m, k \in 1 .. n : s[j] < t[k]
  <2> SUFFICES ASSUME NEW j \in 1 .. m, NEW k \in 1 .. n PROVE s[j] < t[k]
    OBVIOUS
  <2>1. s[j] \in Elements(s) /\ t[k] \in Elements(t)
    BY <1>1 DEF Elements
  <2> QED
    BY <2>1 DEF Rows
<1>5. \A j, k \in DOMAIN u : j < k => u[j] < u[k]
  <2> SUFFICES ASSUME NEW j \in 1 .. m + n, NEW k \in 1 .. m + n, j < k PROVE u[j] < u[k]
    BY <1>2
  <2>1. CASE j \in 1 .. m /\ k \in 1 .. m
    <3>1. u[j] = s[j] /\ u[k] = s[k]
      BY <1>1, <1>3, <2>1
    <3> QED
      BY <1>1, <2>1, <3>1 DEF Rows
  <2>2. CASE j \in 1 .. m /\ k > m /\ k - m \in 1 .. n
    <3>1. u[j] = s[j] /\ u[k] = t[k - m]
      BY <1>1, <1>3, <2>2
    <3> QED
      BY <1>4, <2>2, <3>1
  <2>3. CASE j > m /\ k > m /\ j - m \in 1 .. n /\ k - m \in 1 .. n
    <3>1. u[j] = t[j - m] /\ u[k] = t[k - m] /\ j - m < k - m
      BY <1>1, <1>3, <2>3
    <3> QED
      BY <1>1, <2>3, <3>1 DEF Rows
  <2> QED
    BY <1>1, <1>3, <2>1, <2>2, <2>3
<1>6. Elements(u) = Elements(s) \cup Elements(t)
  <2>1. \A k \in DOMAIN u : u[k] \in Elements(s) \cup Elements(t)
    BY <1>1, <1>2, <1>3 DEF Elements
  <2>2. \A k \in DOMAIN s : s[k] \in Elements(u)
    <3>1. \A k \in 1 .. m : k \in 1 .. m + n /\ u[k] = s[k]
      BY <1>1, <1>2
    <3> QED
      BY <1>1, <1>2, <3>1 DEF Elements
  <2>3. \A k \in DOMAIN t : t[k] \in Elements(u)
    <3>1. \A k \in 1 .. n : k + m \in 1 .. m + n /\ u[k + m] = t[k]
      BY <1>1, <1>2
    <3> QED
      BY <1>1, <1>2, <3>1 DEF Elements
  <2>4. \A x \in Elements(u) : x \in Elements(s) \cup Elements(t)
    BY <2>1 DEF Elements
  <2>5. \A x \in Elements(s) \cup Elements(t) : x \in Elements(u)
    BY <2>2, <2>3 DEF Elements
  <2> QED
    BY <2>4, <2>5
<1> QED
  BY <1>2, <1>5, <1>6 DEF Rows, u

\* Figures of lines that are counted apart.
LEMMA FiguresJoined ==
    ASSUME NEW f, NEW before, Figures(f, before), NEW g, NEW after, Figures(g, after),
           \A kind \in Kinds : /\ IsFiniteSet(before[kind]) /\ IsFiniteSet(after[kind])
                               /\ before[kind] \cap after[kind] = {},
           NEW both, \A kind \in Kinds : both[kind] = before[kind] \cup after[kind]
    PROVE  Figures([kind \in Kinds |-> f[kind] + g[kind]], both)
<1> SUFFICES ASSUME NEW kind \in Kinds
             PROVE  f[kind] + g[kind] \in Nat /\ f[kind] + g[kind] = Cardinality(both[kind])
  BY DEF Figures
<1> DEFINE S == before[kind]
           T == after[kind]
<1>1. f[kind] \in Nat /\ g[kind] \in Nat /\ f[kind] = Cardinality(S) /\ g[kind] = Cardinality(T)
  BY DEF Figures
<1>2. IsFiniteSet(S) /\ IsFiniteSet(T) /\ S \cap T = {} /\ both[kind] = S \cup T
  OBVIOUS
<1> HIDE DEF S, T
<1>3. Cardinality(S \cup T) = Cardinality(S) + Cardinality(T) - Cardinality(S \cap T)
  BY <1>2, FS_Union
<1>4. Cardinality(S \cap T) = 0
  BY <1>2, FS_EmptySet
<1> QED
  BY <1>1, <1>2, <1>3, <1>4

\* One line more of a kind.
LEMMA FiguresAdd ==
    ASSUME NEW f, NEW old, Figures(f, old), NEW k \in Kinds, NEW p,
           IsFiniteSet(old[k]), p \notin old[k],
           NEW new, \A kind \in Kinds : new[kind] = IF kind = k THEN old[kind] \cup {p}
                                                              ELSE old[kind],
           NEW g, g = [f EXCEPT ![k] = @ + 1]
    PROVE  Figures(g, new)
<1>1. f \in [Kinds -> Nat] /\ \A kind \in Kinds : f[kind] = Cardinality(old[kind])
  BY DEF Figures
<1>2. Cardinality(old[k] \cup {p}) = Cardinality(old[k]) + 1
  BY FS_AddElement
<1>3. g \in [Kinds -> Nat]
  BY <1>1
<1> QED
  BY <1>1, <1>2, <1>3 DEF Figures

\* What a sequence loses with its head.
LEMMA HeadTail ==
    ASSUME NEW S, NEW s \in Seq(S), s # <<>>
    PROVE  /\ Head(s) \in S /\ Head(s) = s[1] /\ 1 \in DOMAIN s
           /\ Tail(s) \in Seq(S)
           /\ \A k \in DOMAIN Tail(s) : /\ k \in Nat \ {0} /\ k + 1 \in DOMAIN s
                                         /\ Tail(s)[k] = s[k + 1]
           /\ \A k \in DOMAIN s : k = 1 \/ (k - 1 \in DOMAIN Tail(s) /\ s[k] = Tail(s)[k - 1])
<1>1. /\ Head(s) \in S /\ Tail(s) \in Seq(S) /\ Len(Tail(s)) = Len(s) - 1
      /\ \A k \in 1 .. Len(Tail(s)) : Tail(s)[k] = s[k + 1]
  BY HeadTailProperties
<1>2. /\ Len(s) \in Nat \ {0} /\ DOMAIN s = 1 .. Len(s) /\ DOMAIN Tail(s) = 1 .. Len(Tail(s))
  BY <1>1, LenProperties, EmptySeq
<1>3. Head(s) = s[1] /\ 1 \in DOMAIN s
  BY <1>2
<1> QED
  BY <1>1, <1>2, <1>3

\* The lines depend on the arguments only.
LEMMA SameFile ==
    ASSUME file' = file, workers' = workers
    PROVE  /\ size' = size /\ Pool' = Pool
           /\ \A k : Start(k)' = Start(k) /\ End(k)' = End(k)
           /\ \A p : Boundary(p)' = Boundary(p)
           /\ \A k : Share(k)' = Share(k)
           /\ \A k, q : Read(k, q)' = Read(k, q)
           /\ \A ranges : Shares(ranges)' = Shares(ranges)
<1>1. size' = size /\ Pool' = Pool
  BY DEF size, Pool
<1>2. \A k : Start(k)' = Start(k) /\ End(k)' = End(k)
  BY DEF Start, End, size
<1>3. \A p : Boundary(p)' = Boundary(p)
  BY DEF Boundary, size, Byte
<1>4. \A p : Text(p)' = Text(p)
  BY DEF Text, After, Byte, size
<1>5. \A p : Kind(p)' = Kind(p)
  BY <1>4 DEF Kind
<1>6. Lines' = Lines
  BY <1>1, <1>4 DEF Lines, Byte
<1>7. \A k : LinesIn(k)' = LinesIn(k)
  BY <1>2, <1>6 DEF LinesIn
<1>8. \A k : Share(k)' = Share(k)
  BY <1>5, <1>7 DEF Share
<1>9. \A k, q : Read(k, q)' = Read(k, q)
  BY <1>5, <1>7 DEF Read
<1>10. \A ranges : Shares(ranges)' = Shares(ranges)
  BY <1>8 DEF Shares
<1> QED
  BY <1>1, <1>2, <1>3, <1>8, <1>9, <1>10

\* The kinds of the lines of a range, and of several.
LEMMA ShareFacts ==
    ASSUME FileInv
    PROVE  /\ \A p : Kind(p) \in Kinds
           /\ \A k, kind : kind \in Kinds => /\ Share(k)[kind] \subseteq Nat
                                             /\ IsFiniteSet(Share(k)[kind])
           /\ \A ranges, kind : kind \in Kinds => /\ Shares(ranges)[kind] \subseteq Nat
                                                  /\ IsFiniteSet(Shares(ranges)[kind])
           /\ \A k, q, kind : kind \in Kinds => IsFiniteSet(Read(k, q)[kind])
           /\ \A j, k \in Pool, kind \in Kinds : j # k => Share(j)[kind] \cap Share(k)[kind] = {}
           /\ \A j, k \in Pool, kind \in Kinds :
                j < k => \A p \in Share(j)[kind], q \in Share(k)[kind] : p < q
           /\ \A ranges, k, kind : kind \in Kinds =>
                Shares(ranges \cup {k})[kind] = Shares(ranges)[kind] \cup Share(k)[kind]
           /\ \A kind \in Kinds : Shares({})[kind] = {}
<1>1. \A p : Kind(p) \in Kinds
  BY DEF Kind, Kinds
<1>2. Lines \subseteq Nat /\ IsFiniteSet(Lines)
  BY LineFacts
<1>3. \A k, kind : kind \in Kinds => Share(k)[kind] \subseteq Lines
  BY DEF Share, LinesIn
<1>4. \A k, q, kind : kind \in Kinds => Read(k, q)[kind] \subseteq Lines
  BY DEF Read, LinesIn
<1>5. \A ranges, kind : kind \in Kinds => Shares(ranges)[kind] \subseteq Lines
  BY <1>3 DEF Shares
<1>6. \A S : S \subseteq Lines => S \subseteq Nat /\ IsFiniteSet(S)
  BY <1>2, FS_Subset
<1>7. \A k, kind : kind \in Kinds => Share(k)[kind] \subseteq LinesIn(k)
  BY DEF Share
<1>8. \A j, k \in Pool, kind \in Kinds : j # k => Share(j)[kind] \cap Share(k)[kind] = {}
  <2> SUFFICES ASSUME NEW j \in Pool, NEW k \in Pool, NEW kind \in Kinds, j # k
               PROVE  Share(j)[kind] \cap Share(k)[kind] = {}
    OBVIOUS
  <2>1. LinesIn(j) \cap LinesIn(k) = {}
    BY LineFacts
  <2> QED
    BY <1>7, <2>1
<1>9. \A j, k \in Pool, kind \in Kinds :
        j < k => \A p \in Share(j)[kind], q \in Share(k)[kind] : p < q
  <2> SUFFICES ASSUME NEW j \in Pool, NEW k \in Pool, NEW kind \in Kinds, j < k,
                      NEW p \in Share(j)[kind], NEW q \in Share(k)[kind]
               PROVE  p < q
    OBVIOUS
  <2>1. p \in LinesIn(j) /\ q \in LinesIn(k)
    BY <1>7
  <2> QED
    BY <2>1, LineFacts
<1>10. \A ranges, k, kind : kind \in Kinds =>
        Shares(ranges \cup {k})[kind] = Shares(ranges)[kind] \cup Share(k)[kind]
  BY DEF Shares
<1>11. \A kind \in Kinds : Shares({})[kind] = {}
  BY DEF Shares
<1>12. \A k, kind : kind \in Kinds => Share(k)[kind] \subseteq Nat /\ IsFiniteSet(Share(k)[kind])
  BY <1>3, <1>6
<1>13. \A ranges, kind : kind \in Kinds =>
        Shares(ranges)[kind] \subseteq Nat /\ IsFiniteSet(Shares(ranges)[kind])
  BY <1>5, <1>6
<1>14. \A k, q, kind : kind \in Kinds => IsFiniteSet(Read(k, q)[kind])
  BY <1>4, <1>6
<1> QED
  BY <1>1, <1>8, <1>9, <1>10, <1>11, <1>12, <1>13, <1>14

-----------------------------------------------------------------------------
(* Steps.                                                                   *)

\* Workers have numbers, and Idle is none.
LEMMA PoolFacts ==
    ASSUME FileInv
    PROVE  /\ \A k \in Pool : k \in Nat /\ k # Idle
           /\ IsFiniteSet(Pool)
<1>1. workers \in Nat \ {0} /\ Idle \notin Nat
  BY IngestAssumption DEF FileInv
<1>2. \A k \in Pool : k \in Nat
  BY <1>1 DEF Pool
<1>3. IsFiniteSet(Pool)
  BY <1>1, FS_Interval DEF Pool
<1> QED
  BY <1>1, <1>2, <1>3

\* Nothing that was collected moves, and nothing is merged before the pool is done.
LEMMA Unmoved ==
    ASSUME FileInv, CollectedInv, MergeInv, Collected' = Collected, ~PoolDone,
           UNCHANGED <<file, workers, ordered, stats, merged, cleanData>>
    PROVE  CollectedInv' /\ MergeInv'
<1>1. Pool' = Pool /\ (\A k : Share(k)' = Share(k)) /\ \A ranges : Shares(ranges)' = Shares(ranges)
  BY SameFile
<1>2. CollectedInv'
  BY <1>1 DEF CollectedInv
<1>3. merged = 0
  BY DEF MergeInv, FileInv
<1>4. MergeInv'
  BY <1>1, <1>3 DEF MergeInv
<1> QED
  BY <1>2, <1>4

\* What is on its way stays on its way.
LEMMA StillThere ==
    ASSUME ResultInv, UNCHANGED <<file, workers, results>>
    PROVE  ResultInv'
<1>1. Pool' = Pool /\ (\A k : Share(k)' = Share(k))
  BY SameFile
<1> QED
  BY <1>1 DEF ResultInv

\* A worker that takes a range has read nothing of it and stands before its first line.
LEMMA LoadTakeKeeps ==
    ASSUME LoadInv, NEW w \in Pool, Take(w)
    PROVE  LoadInv'
<1> DEFINE h == Head(jobs)
           begin == IF size = 0 THEN 0 ELSE Begin(h)
<1> USE DEF LoadInv
<1>1. /\ UNCHANGED <<file, workers, results, ordered, stats, merged, cleanData, failed>>
      /\ doing[w] = Idle /\ jobs # <<>> /\ jobs' = Tail(jobs)
      /\ doing' = [doing EXCEPT ![w] = h]
      /\ position' = [position EXCEPT ![w] = begin]
      /\ chunk' = [chunk EXCEPT ![w] = <<>>]
      /\ counts' = [counts EXCEPT ![w] = Zero]
  BY DEF Take
<1>2. /\ size' = size /\ Pool' = Pool
      /\ \A k : Start(k)' = Start(k) /\ End(k)' = End(k)
      /\ \A p : Boundary(p)' = Boundary(p)
      /\ \A k : Share(k)' = Share(k)
      /\ \A k, q : Read(k, q)' = Read(k, q)
      /\ \A ranges : Shares(ranges)' = Shares(ranges)
  BY <1>1, SameFile
<1>3. jobs \in Seq(Pool) /\ Distinct(jobs) /\ doing \in [Pool -> Pool \cup {Idle}]
  BY DEF PlaceInv
<1>4. /\ h \in Pool /\ h = jobs[1] /\ 1 \in DOMAIN jobs /\ jobs' \in Seq(Pool)
      /\ \A k \in DOMAIN jobs' : k \in Nat \ {0} /\ k + 1 \in DOMAIN jobs /\ jobs'[k] = jobs[k + 1]
      /\ \A k \in DOMAIN jobs : k = 1 \/ (k - 1 \in DOMAIN jobs' /\ jobs[k] = jobs'[k - 1])
  BY <1>1, <1>3, HeadTail
<1> HIDE DEF h
<1>5. Waiting = Waiting' \cup {h} /\ h \notin Waiting' /\ Distinct(jobs')
  <2>1. \A k \in DOMAIN jobs : jobs[k] \in Waiting' \cup {h}
    BY <1>4 DEF Waiting, Elements
  <2>2. \A k \in DOMAIN jobs' : jobs'[k] \in Waiting
    BY <1>4 DEF Waiting, Elements
  <2>3. h \in Waiting
    BY <1>4 DEF Waiting, Elements
  <2>4. \A k \in DOMAIN jobs' : jobs'[k] # h
    BY <1>3, <1>4 DEF Distinct
  <2>5. Distinct(jobs')
    BY <1>3, <1>4 DEF Distinct
  <2>6. h \notin Waiting'
    BY <2>4 DEF Waiting, Elements
  <2>7. \A x \in Waiting : x \in Waiting' \cup {h}
    BY <2>1 DEF Waiting, Elements
  <2>8. \A x \in Waiting' : x \in Waiting
    BY <2>2 DEF Waiting, Elements
  <2> QED
    BY <2>3, <2>5, <2>6, <2>7, <2>8
<1>6. h # Idle /\ doing' \in [Pool -> Pool \cup {Idle}]
      /\ doing'[w] = h /\ \A v \in Pool : v # w => doing'[v] = doing[v]
  BY <1>1, <1>3, <1>4, PoolFacts
<1>7. Busy' = Busy \cup {h} /\ h \notin Busy
  <2>1. h \notin Busy
    BY <1>5 DEF PlaceInv
  <2>2. \A v \in Pool : doing'[v] = h \/ doing'[v] = doing[v]
    BY <1>6
  <2>3. \A v \in Pool : doing[v] # Idle => doing'[v] = doing[v]
    BY <1>1, <1>6
  <2> QED
    BY <1>2, <1>6, <2>1, <2>2, <2>3 DEF Busy
<1>8. Delivered' = Delivered /\ failed' = failed
  BY <1>1 DEF Delivered
<1>9. Collected' = Collected
  BY <1>2, <1>5, <1>7, <1>8 DEF Collected
<1>10. PlaceInv'
  <2>1. \A v, u \in Pool : doing'[u] = doing'[v] /\ doing'[u] # Idle => u = v
    <3>1. \A v \in Pool : v # w => doing'[v] # h
      BY <1>6, <1>7 DEF Busy
    <3> QED
      BY <1>6, <3>1 DEF PlaceInv
  <2>2. /\ Waiting' \cap (Busy' \cup Delivered' \cup failed') = {}
        /\ Busy' \cap (Delivered' \cup failed') = {}
        /\ Delivered' \cap failed' = {}
    BY <1>5, <1>7, <1>8 DEF PlaceInv
  <2> QED
    BY <1>1, <1>2, <1>4, <1>5, <1>6, <2>1, <2>2 DEF PlaceInv
<1>11. /\ begin \in 0 .. size
       /\ size # 0 => Boundary(begin) /\ Start(h) <= begin
       /\ \A kind \in Kinds : Read(h, begin)[kind] = {}
  <2>1. size \in Nat /\ Start(h) \in Nat
    BY <1>4, RangeFacts
  <2>2. CASE size = 0
    <3>1. \A p \in Lines : p < 0 /\ p \in Nat
      BY <2>2, LineFacts
    <3> QED
      BY <2>1, <2>2, <3>1 DEF Read, LinesIn
  <2>3. CASE size # 0
    <3>1. /\ Boundary(begin) /\ Start(h) <= begin
          /\ \A r \in Start(h) .. begin - 1 : ~Boundary(r)
      BY <1>4, <2>3, BeginFacts
    <3>2. begin \in 1 .. size
      BY <3>1 DEF Boundary
    <3> HIDE DEF begin
    <3>3. ASSUME NEW p \in LinesIn(h), p < begin PROVE FALSE
      <4>1. p \in Nat /\ Boundary(p) /\ Start(h) <= p
        BY LineFacts DEF LinesIn
      <4>2. p \in Start(h) .. begin - 1
        BY <2>1, <3>2, <3>3, <4>1
      <4> QED
        BY <3>1, <4>1, <4>2
    <3> QED
      BY <2>1, <3>1, <3>2, <3>3 DEF Read
  <2> QED
    BY <2>2, <2>3
<1> HIDE DEF begin
<1>12. WorkerInv'
  <2>1. /\ position' \in [Pool -> 0 .. size]
        /\ DOMAIN chunk' = Pool /\ DOMAIN counts' = Pool
        /\ position'[w] = begin /\ chunk'[w] = <<>> /\ counts'[w] = Zero
        /\ \A v \in Pool : v # w => /\ position'[v] = position[v] /\ chunk'[v] = chunk[v]
                                    /\ counts'[v] = counts[v] /\ doing'[v] = doing[v]
    BY <1>1, <1>6, <1>11 DEF WorkerInv
  <2>2. Rows(<<>>, Read(h, begin)) /\ Figures(Zero, Read(h, begin))
    BY <1>11, Nothing
  <2>3. ASSUME NEW v \in Pool, NEW k \in Pool, NEW q \in 0 .. size,
               doing'[v] = k, position'[v] = q
        PROVE  /\ size # 0 => Boundary(q) /\ Start(k) <= q
               /\ Rows(chunk'[v], Read(k, q)) /\ Figures(counts'[v], Read(k, q))
    <3>1. CASE v = w
      <4>1. k = h /\ q = begin
        BY <1>6, <2>1, <2>3, <3>1
      <4> QED
        BY <1>11, <2>1, <2>2, <3>1, <4>1
    <3>2. CASE v # w
      <4>1. doing[v] = k /\ position[v] = q
        BY <2>1, <2>3, <3>2
      <4> QED
        BY <2>1, <3>2, <4>1 DEF WorkerInv
    <3> QED
      BY <3>1, <3>2
  <2> QED
    BY <1>2, <2>1, <2>3 DEF WorkerInv
<1>13. FileInv'
  BY <1>1 DEF FileInv
<1>14. CollectedInv' /\ MergeInv'
  <2>1. ~PoolDone
    BY <1>1 DEF PoolDone
  <2> QED
    BY <1>1, <1>9, <2>1, Unmoved
<1> QED
  BY <1>1, <1>10, <1>12, <1>13, <1>14, StillThere

\* A worker that gives its range up: the range leaves Busy, the other workers go on.
LEMMA Released ==
    ASSUME FileInv, PlaceInv, WorkerInv, NEW w \in Pool, doing[w] # Idle,
           doing' = [doing EXCEPT ![w] = Idle],
           UNCHANGED <<file, workers, position, chunk, counts>>
    PROVE  /\ doing[w] \in Pool /\ doing[w] \in Busy /\ Busy' = Busy \ {doing[w]}
           /\ doing' \in [Pool -> Pool \cup {Idle}]
           /\ \A u, v \in Pool : doing'[u] = doing'[v] /\ doing'[u] # Idle => u = v
           /\ WorkerInv'
<1>1. doing \in [Pool -> Pool \cup {Idle}]
      /\ \A u, v \in Pool : doing[u] = doing[v] /\ doing[u] # Idle => u = v
  BY DEF PlaceInv
<1>2. /\ doing' \in [Pool -> Pool \cup {Idle}] /\ doing'[w] = Idle
      /\ \A v \in Pool : v # w => doing'[v] = doing[v]
  BY <1>1
<1>3. /\ size' = size /\ Pool' = Pool /\ \A k : Start(k)' = Start(k)
      /\ \A p : Boundary(p)' = Boundary(p)
      /\ \A k, q : Read(k, q)' = Read(k, q)
  BY SameFile
<1>4. Idle \notin Pool
  BY PoolFacts
<1>5. doing[w] \in Pool /\ doing[w] \in Busy
  BY <1>1 DEF Busy
<1>6. Busy' = Busy \ {doing[w]}
  <2>1. \A x \in Busy' : x \in Busy \ {doing[w]}
    BY <1>1, <1>2, <1>3 DEF Busy
  <2>2. \A x \in Busy \ {doing[w]} : x \in Busy'
    BY <1>1, <1>2, <1>3 DEF Busy
  <2> QED
    BY <2>1, <2>2
<1>7. \A u, v \in Pool : doing'[u] = doing'[v] /\ doing'[u] # Idle => u = v
  BY <1>1, <1>2
<1>8. WorkerInv'
  <2>1. \A v, k \in Pool : doing'[v] = k => v # w /\ doing[v] = k
    BY <1>2, <1>4
  <2> QED
    BY <1>3, <2>1 DEF WorkerInv
<1> QED
  BY <1>2, <1>5, <1>6, <1>7, <1>8

\* A range that could not be read is not collected, and does not have to be.
LEMMA LoadFailKeeps ==
    ASSUME LoadInv, NEW w \in Pool, Fail(w)
    PROVE  LoadInv'
<1> DEFINE d == doing[w]
<1> USE DEF LoadInv
<1>1. /\ UNCHANGED <<file, workers, jobs, position, chunk, counts, results, ordered, stats,
                     merged, cleanData>>
      /\ doing[w] # Idle /\ failed' = failed \cup {d}
      /\ doing' = [doing EXCEPT ![w] = Idle]
  BY DEF Fail
<1>2. /\ d \in Pool /\ d \in Busy /\ Busy' = Busy \ {d}
      /\ doing' \in [Pool -> Pool \cup {Idle}]
      /\ \A u, v \in Pool : doing'[u] = doing'[v] /\ doing'[u] # Idle => u = v
      /\ WorkerInv'
  BY <1>1, Released
<1> HIDE DEF d
<1>3. Pool' = Pool /\ Waiting' = Waiting /\ Delivered' = Delivered
  BY <1>1 DEF Pool, Waiting, Delivered, Elements
<1>4. Collected' = Collected
  BY <1>1, <1>2, <1>3 DEF Collected
<1>5. PlaceInv'
  <2>1. /\ Waiting' \cap (Busy' \cup Delivered' \cup failed') = {}
        /\ Busy' \cap (Delivered' \cup failed') = {}
        /\ Delivered' \cap failed' = {}
        /\ failed' \subseteq Pool
    BY <1>1, <1>2, <1>3 DEF PlaceInv
  <2> QED
    BY <1>1, <1>2, <1>3, <2>1 DEF PlaceInv
<1>6. CollectedInv' /\ MergeInv'
  <2>1. ~PoolDone
    BY <1>1 DEF PoolDone
  <2> QED
    BY <1>1, <1>4, <2>1, Unmoved
<1>7. FileInv'
  BY <1>1 DEF FileInv
<1> QED
  BY <1>1, <1>2, <1>5, <1>6, <1>7, StillThere

\* A worker at the end of its range has read its share of the lines.
LEMMA LoadDeliverKeeps ==
    ASSUME LoadInv, NEW w \in Pool, Deliver(w)
    PROVE  LoadInv'
<1> DEFINE d == doing[w]
           r == [index |-> d, rows |-> chunk[w], stats |-> counts[w]]
           n == Len(results)
<1> USE DEF LoadInv
<1>1. /\ UNCHANGED <<file, workers, jobs, position, chunk, counts, ordered, stats,
                     merged, cleanData, failed>>
      /\ doing[w] # Idle /\ position[w] >= End(d)
      /\ results' = Append(results, r)
      /\ doing' = [doing EXCEPT ![w] = Idle]
  BY DEF Deliver
<1>2. /\ d \in Pool /\ d \in Busy /\ Busy' = Busy \ {d}
      /\ doing' \in [Pool -> Pool \cup {Idle}]
      /\ \A u, v \in Pool : doing'[u] = doing'[v] /\ doing'[u] # Idle => u = v
      /\ WorkerInv'
  BY <1>1, Released
<1>3. /\ size' = size /\ Pool' = Pool /\ Waiting' = Waiting
      /\ \A k : Share(k)' = Share(k)
  BY <1>1, SameFile DEF Waiting, Elements
<1>4. Rows(chunk[w], Share(d)) /\ Figures(counts[w], Share(d))
  <2> DEFINE q == position[w]
  <2>1. q \in 0 .. size /\ size \in Nat
    BY RangeFacts DEF WorkerInv
  <2>2. Rows(chunk[w], Read(d, q)) /\ Figures(counts[w], Read(d, q))
    BY <1>2, <2>1 DEF WorkerInv
  <2>3. \A p \in LinesIn(d) : p < q
    <3>1. End(d) \in Nat
      BY <1>2, RangeFacts
    <3>2. \A p \in LinesIn(d) : p \in Nat /\ p < End(d)
      BY LineFacts DEF LinesIn
    <3> QED
      BY <1>1, <2>1, <3>1, <3>2
  <2> HIDE DEF q
  <2>4. Read(d, q) = Share(d)
    BY <2>3 DEF Read, Share
  <2> QED
    BY <2>2, <2>4
<1>5. r \in [index : Pool, rows : Seq(Nat), stats : [Kinds -> Nat]]
  BY <1>2, <1>4 DEF Rows, Figures
<1>6. /\ results \in Seq([index : Pool, rows : Seq(Nat), stats : [Kinds -> Nat]])
      /\ n \in Nat /\ DOMAIN results = 1 .. n
  BY LenProperties DEF PlaceInv
<1>7. r.index = d /\ r.rows = chunk[w] /\ r.stats = counts[w]
  OBVIOUS
<1> HIDE DEF r, d
<1>8. /\ results' \in Seq([index : Pool, rows : Seq(Nat), stats : [Kinds -> Nat]])
      /\ DOMAIN results' = 1 .. n + 1 /\ results'[n + 1] = r
      /\ \A k \in 1 .. n : k \in DOMAIN results' /\ results'[k] = results[k]
      /\ \A k \in DOMAIN results' : k \in DOMAIN results \/ k = n + 1
      /\ n + 1 \in DOMAIN results'
  <2>1. /\ results' \in Seq([index : Pool, rows : Seq(Nat), stats : [Kinds -> Nat]])
        /\ Len(results') = n + 1 /\ results'[n + 1] = r
        /\ \A k \in 1 .. n : results'[k] = results[k]
    BY <1>1, <1>5, <1>6, AppendProperties
  <2>2. DOMAIN results' = 1 .. n + 1
    BY <2>1, LenProperties
  <2>3. n \in Nat
    BY <1>6
  <2> HIDE DEF n
  <2>4. /\ n + 1 \in 1 .. n + 1
        /\ \A k \in 1 .. n : k \in 1 .. n + 1
        /\ \A k \in 1 .. n + 1 : k \in 1 .. n \/ k = n + 1
    BY <2>3
  <2> QED
    BY <1>6, <2>1, <2>2, <2>4
<1> HIDE DEF n
<1>9. Delivered' = Delivered \cup {d} /\ d \notin Delivered
  <2>1. \A k \in DOMAIN results' : results'[k].index \in Delivered \cup {d}
    BY <1>6, <1>7, <1>8 DEF Delivered
  <2>2. \A k \in DOMAIN results : results[k].index \in Delivered'
    BY <1>6, <1>8 DEF Delivered
  <2>3. d \in Delivered'
    BY <1>7, <1>8 DEF Delivered
  <2>4. \A x \in Delivered' : x \in Delivered \cup {d}
    BY <2>1 DEF Delivered
  <2>5. \A x \in Delivered : x \in Delivered'
    BY <2>2 DEF Delivered
  <2>6. d \notin Delivered
    BY <1>2 DEF PlaceInv
  <2> QED
    BY <2>3, <2>4, <2>5, <2>6
<1>10. Collected' = Collected
  BY <1>1, <1>2, <1>3, <1>9 DEF Collected
<1>11. PlaceInv'
  <2>1. /\ Waiting' \cap (Busy' \cup Delivered' \cup failed') = {}
        /\ Busy' \cap (Delivered' \cup failed') = {}
        /\ Delivered' \cap failed' = {}
    BY <1>1, <1>2, <1>3, <1>9 DEF PlaceInv
  <2>2. \A j, k \in DOMAIN results' : results'[j].index = results'[k].index => j = k
    <3>1. \A k \in DOMAIN results : results[k].index # d
      BY <1>9 DEF Delivered
    <3>2. \A j, k \in DOMAIN results : results[j].index = results[k].index => j = k
      BY DEF PlaceInv
    <3>3. \A k \in DOMAIN results : results'[k] = results[k]
      BY <1>6, <1>8
    <3>4. results'[n + 1].index = d
      BY <1>7, <1>8
    <3> SUFFICES ASSUME NEW j \in DOMAIN results', NEW k \in DOMAIN results',
                        results'[j].index = results'[k].index
                 PROVE  j = k
      OBVIOUS
    <3>5. (j \in DOMAIN results \/ j = n + 1) /\ (k \in DOMAIN results \/ k = n + 1)
      BY <1>8
    <3> QED
      BY <3>1, <3>2, <3>3, <3>4, <3>5
  <2> QED
    BY <1>1, <1>2, <1>3, <1>8, <2>1, <2>2 DEF PlaceInv
<1>12. ResultInv'
  <2>1. ASSUME NEW j \in DOMAIN results', NEW k \in Pool, results'[j].index = k
        PROVE  Rows(results'[j].rows, Share(k)) /\ Figures(results'[j].stats, Share(k))
    <3>1. CASE j \in DOMAIN results
      BY <1>6, <1>8, <2>1, <3>1 DEF ResultInv
    <3>2. CASE j = n + 1
      BY <1>4, <1>7, <1>8, <2>1, <3>2
    <3> QED
      BY <1>8, <3>1, <3>2
  <2> QED
    BY <1>3, <2>1 DEF ResultInv
<1>13. CollectedInv' /\ MergeInv'
  <2>1. ~PoolDone
    BY <1>1 DEF PoolDone
  <2> QED
    BY <1>1, <1>10, <2>1, Unmoved
<1>14. FileInv'
  BY <1>1 DEF FileInv
<1> QED
  BY <1>2, <1>11, <1>12, <1>13, <1>14

\* What has been read of a range after the line at p: that line too, unless it is empty.
LEMMA ReadFurther ==
    ASSUME FileInv, NEW k \in Pool, NEW p \in Nat, p < End(k), Start(k) <= p, Boundary(p)
    PROVE  /\ p \in 0 .. size - 1
           /\ \A kind \in Kinds :
                Read(k, After(p))[kind] = IF Text(p) # {} /\ kind = Kind(p)
                                          THEN Read(k, p)[kind] \cup {p} ELSE Read(k, p)[kind]
           /\ \A kind \in Kinds : \A x \in Read(k, p)[kind] : x \in Nat /\ x < p
<1> DEFINE q == After(p)
<1>1. size \in Nat /\ End(k) \in Nat /\ End(k) <= size
  BY RangeFacts
<1>2. p \in 0 .. size - 1 /\ p < size
  BY <1>1
<1>3. q \in p + 1 .. size /\ \A r \in p + 1 .. q - 1 : ~Boundary(r)
  BY <1>2, AfterFacts
<1> HIDE DEF q
<1>4. \A x \in LinesIn(k) : x \in Nat /\ Boundary(x) /\ Text(x) # {}
  BY LineFacts DEF LinesIn
<1>5. \A x \in LinesIn(k) : x < q <=> (x < p \/ x = p)
  <2> SUFFICES ASSUME NEW x \in LinesIn(k) PROVE x < q <=> (x < p \/ x = p)
    OBVIOUS
  <2>1. x \in Nat /\ x \notin p + 1 .. q - 1
    BY <1>3, <1>4
  <2> QED
    BY <1>3, <2>1
<1>6. p \in LinesIn(k) <=> Text(p) # {}
  BY <1>2, <1>4, LineFacts DEF LinesIn
<1>7. \A kind \in Kinds :
        Read(k, q)[kind] = IF Text(p) # {} /\ kind = Kind(p)
                           THEN Read(k, p)[kind] \cup {p} ELSE Read(k, p)[kind]
  <2> SUFFICES ASSUME NEW kind \in Kinds
               PROVE  Read(k, q)[kind] = IF Text(p) # {} /\ kind = Kind(p)
                                         THEN Read(k, p)[kind] \cup {p} ELSE Read(k, p)[kind]
    OBVIOUS
  <2>1. /\ Read(k, q)[kind] = {x \in LinesIn(k) : x < q /\ Kind(x) = kind}
        /\ Read(k, p)[kind] = {x \in LinesIn(k) : x < p /\ Kind(x) = kind}
    BY DEF Read
  <2>2. {x \in LinesIn(k) : x < q /\ Kind(x) = kind}
           = {x \in LinesIn(k) : (x < p \/ x = p) /\ Kind(x) = kind}
    BY <1>5
  <2>3. CASE Text(p) # {} /\ kind = Kind(p)
    BY <1>6, <2>1, <2>2, <2>3
  <2>4. CASE ~(Text(p) # {} /\ kind = Kind(p))
    BY <1>6, <2>1, <2>2, <2>4
  <2> QED
    BY <2>3, <2>4
<1>8. \A kind \in Kinds : \A x \in Read(k, p)[kind] : x \in Nat /\ x < p
  BY <1>4 DEF Read
<1> QED
  BY <1>2, <1>7, <1>8 DEF q

\* A worker that reads a line puts it with its own, and stands before the next.
LEMMA ReadLineKeeps ==
    ASSUME LoadInv, NEW w \in Pool, ReadLine(w)
    PROVE  LoadInv'
<1> DEFINE d == doing[w]
           p == position[w]
           q == After(p)
<1> USE DEF LoadInv
<1>1. /\ UNCHANGED <<file, workers, jobs, doing, results, ordered, stats, merged, cleanData,
                     failed>>
      /\ d # Idle /\ p < End(d)
      /\ position' = [position EXCEPT ![w] = q]
      /\ \/ Text(p) = {} /\ UNCHANGED <<chunk, counts>>
         \/ /\ Text(p) # {}
            /\ counts' = [counts EXCEPT ![w][Kind(p)] = @ + 1]
            /\ chunk' = IF Kind(p) = "clean" THEN [chunk EXCEPT ![w] = Append(@, p)]
                                             ELSE chunk
  BY DEF ReadLine
<1>2. /\ size' = size /\ Pool' = Pool
      /\ \A k : Start(k)' = Start(k)
      /\ \A x : Boundary(x)' = Boundary(x)
      /\ \A k, x : Read(k, x)' = Read(k, x)
  BY <1>1, SameFile
<1>3. d \in Pool /\ p \in 0 .. size /\ size \in Nat
  BY <1>1, RangeFacts DEF PlaceInv, WorkerInv
<1>4. size # 0
  <2>1. End(d) \in Nat /\ End(d) <= size
    BY <1>3, RangeFacts
  <2> QED
    BY <1>1, <1>3, <2>1
<1>5. /\ Boundary(p) /\ Start(d) <= p
      /\ Rows(chunk[w], Read(d, p)) /\ Figures(counts[w], Read(d, p))
  BY <1>3, <1>4 DEF WorkerInv
<1>6. /\ p \in 0 .. size - 1 /\ p \in Nat
      /\ \A kind \in Kinds :
            Read(d, q)[kind] = IF Text(p) # {} /\ kind = Kind(p)
                               THEN Read(d, p)[kind] \cup {p} ELSE Read(d, p)[kind]
      /\ \A kind \in Kinds : \A x \in Read(d, p)[kind] : x \in Nat /\ x < p
  <2>1. p \in Nat
    <3> HIDE DEF p
    <3> QED
      BY <1>3
  <2> HIDE DEF p, d
  <2>2. FileInv /\ d \in Pool /\ p < End(d) /\ Start(d) <= p /\ Boundary(p)
    BY <1>1, <1>3, <1>5
  <2>3. p \in 0 .. size - 1
    BY <2>1, <2>2, ReadFurther
  <2>4. \A kind \in Kinds :
            Read(d, q)[kind] = IF Text(p) # {} /\ kind = Kind(p)
                               THEN Read(d, p)[kind] \cup {p} ELSE Read(d, p)[kind]
    BY <2>1, <2>2, ReadFurther DEF q
  <2>5. \A kind \in Kinds : \A x \in Read(d, p)[kind] : x \in Nat /\ x < p
    BY <2>1, <2>2, ReadFurther
  <2> HIDE DEF q
  <2> QED
    BY <2>1, <2>3, <2>4, <2>5
<1>7. q \in p + 1 .. size /\ Boundary(q) /\ q \in 0 .. size /\ Start(d) <= q
  <2>1. q \in p + 1 .. size /\ Boundary(q)
    BY <1>6, AfterFacts
  <2>2. Start(d) \in Nat
    BY <1>3, RangeFacts
  <2> HIDE DEF p, q
  <2> QED
    BY <1>3, <1>5, <1>6, <2>1, <2>2
<1> HIDE DEF d, p, q
<1>8. /\ DOMAIN chunk' = Pool /\ DOMAIN counts' = Pool
      /\ \A v \in Pool : v # w => chunk'[v] = chunk[v] /\ counts'[v] = counts[v]
  BY <1>1 DEF WorkerInv
<1>9. /\ position' \in [Pool -> 0 .. size] /\ position'[w] = q
      /\ \A v \in Pool : v # w => position'[v] = position[v]
  BY <1>1, <1>7 DEF WorkerInv
<1>10. Rows(chunk'[w], Read(d, q)) /\ Figures(counts'[w], Read(d, q))
  <2>1. CASE Text(p) = {}
    <3>1. \A kind \in Kinds : Read(d, q)[kind] = Read(d, p)[kind]
      BY <1>6, <2>1
    <3>2. Read(d, q) = Read(d, p)
      BY <3>1 DEF Read
    <3> QED
      BY <1>1, <1>5, <2>1, <3>2
  <2>2. CASE Text(p) # {}
    <3>1. Kind(p) \in Kinds /\ "clean" \in Kinds
      BY ShareFacts DEF Kinds
    <3>2. counts' = [counts EXCEPT ![w] = [counts[w] EXCEPT ![Kind(p)] = @ + 1]]
      BY <1>1, <2>2
    <3>3. counts'[w] = [counts[w] EXCEPT ![Kind(p)] = @ + 1]
      BY <3>2 DEF WorkerInv
    <3>4. Figures(counts'[w], Read(d, q))
      <4>1. IsFiniteSet(Read(d, p)[Kind(p)])
        BY <3>1, ShareFacts
      <4>2. p \notin Read(d, p)[Kind(p)]
        BY <1>6, <3>1
      <4>3. \A kind \in Kinds : Read(d, q)[kind] = IF kind = Kind(p)
                                                   THEN Read(d, p)[kind] \cup {p}
                                                   ELSE Read(d, p)[kind]
        BY <1>6, <2>2
      <4> DEFINE f == counts[w]
                 g == counts'[w]
                 a == Kind(p)
                 old == Read(d, p)
                 new == Read(d, q)
      <4>4. /\ Figures(f, old) /\ a \in Kinds /\ IsFiniteSet(old[a]) /\ p \notin old[a]
            /\ \A kind \in Kinds : new[kind] = IF kind = a THEN old[kind] \cup {p} ELSE old[kind]
            /\ g = [f EXCEPT ![a] = @ + 1]
        BY <1>5, <3>1, <3>3, <4>1, <4>2, <4>3
      <4> HIDE DEF f, g, a, old, new
      <4>5. Figures(g, new)
        BY <4>4, FiguresAdd
      <4> QED
        BY <4>5 DEF g, new
    <3>5. Rows(chunk'[w], Read(d, q))
      <4>1. CASE Kind(p) = "clean"
        <5>1. chunk'[w] = Append(chunk[w], p)
          BY <1>1, <2>2, <4>1 DEF WorkerInv
        <5>2. Read(d, q)["clean"] = Read(d, p)["clean"] \cup {p}
          BY <1>6, <2>2, <3>1, <4>1
        <5>3. \A x \in Read(d, p)["clean"] : x < p
          BY <1>6, <3>1
        <5>4. Rows(Append(chunk[w], p), Read(d, q))
          BY <1>5, <1>6, <5>2, <5>3, RowsAppend
        <5> QED
          BY <5>1, <5>4
      <4>2. CASE Kind(p) # "clean"
        <5>1. chunk'[w] = chunk[w]
          BY <1>1, <2>2, <4>2
        <5>2. Read(d, q)["clean"] = Read(d, p)["clean"]
          BY <1>6, <2>2, <3>1, <4>2
        <5> QED
          BY <1>5, <5>1, <5>2 DEF Rows
      <4> QED
        BY <4>1, <4>2
    <3> QED
      BY <3>4, <3>5
  <2> QED
    BY <2>1, <2>2
<1>11. WorkerInv'
  <2>1. ASSUME NEW v \in Pool, NEW k \in Pool, NEW x \in 0 .. size, doing[v] = k, position'[v] = x
        PROVE  /\ size # 0 => Boundary(x) /\ Start(k) <= x
               /\ Rows(chunk'[v], Read(k, x)) /\ Figures(counts'[v], Read(k, x))
    <3>1. CASE v = w
      <4>1. k = d /\ x = q
        BY <1>9, <2>1, <3>1 DEF d
      <4> QED
        BY <1>7, <1>10, <3>1, <4>1
    <3>2. CASE v # w
      <4>1. position[v] = x
        BY <1>9, <2>1, <3>2
      <4> QED
        BY <1>8, <2>1, <3>2, <4>1 DEF WorkerInv
    <3> QED
      BY <3>1, <3>2
  <2> QED
    BY <1>1, <1>2, <1>8, <1>9, <2>1 DEF WorkerInv
<1>12. Waiting' = Waiting /\ Busy' = Busy /\ Delivered' = Delivered /\ Collected' = Collected
  BY <1>1, <1>2 DEF Waiting, Busy, Delivered, Collected, Elements
<1>13. PlaceInv'
  BY <1>1, <1>2, <1>12 DEF PlaceInv
<1>14. CollectedInv' /\ MergeInv'
  <2>1. ~PoolDone
    BY <1>1 DEF PoolDone, d
  <2> QED
    BY <1>1, <1>12, <2>1, Unmoved
<1>15. FileInv'
  BY <1>1 DEF FileInv
<1> QED
  BY <1>1, <1>11, <1>13, <1>14, <1>15, StillThere

\* The main goroutine puts a result where it belongs, and adds its figures up.
LEMMA LoadCollectKeeps ==
    ASSUME LoadInv, Collect
    PROVE  LoadInv'
<1> DEFINE h == Head(results)
           d == h.index
           R == [index : Pool, rows : Seq(Nat), stats : [Kinds -> Nat]]
<1> USE DEF LoadInv
<1>1. /\ UNCHANGED <<file, workers, jobs, doing, position, chunk, counts, merged, cleanData,
                     failed>>
      /\ results # <<>> /\ results' = Tail(results)
      /\ ordered' = [ordered EXCEPT ![d] = h.rows]
      /\ stats' = [kind \in Kinds |-> stats[kind] + h.stats[kind]]
  BY DEF Collect, Slot
<1>2. /\ size' = size /\ Pool' = Pool
      /\ \A k : Start(k)' = Start(k)
      /\ \A x : Boundary(x)' = Boundary(x)
      /\ \A k : Share(k)' = Share(k)
      /\ \A k, x : Read(k, x)' = Read(k, x)
      /\ \A ranges : Shares(ranges)' = Shares(ranges)
  BY <1>1, SameFile
<1>3. /\ results \in Seq(R)
      /\ \A j, k \in DOMAIN results : results[j].index = results[k].index => j = k
  BY DEF PlaceInv
<1>4. /\ h \in R /\ h = results[1] /\ 1 \in DOMAIN results
      /\ results' \in Seq(R)
      /\ \A k \in DOMAIN results' : /\ k \in Nat \ {0} /\ k + 1 \in DOMAIN results
                                    /\ results'[k] = results[k + 1]
      /\ \A k \in DOMAIN results :
            k = 1 \/ (k - 1 \in DOMAIN results' /\ results[k] = results'[k - 1])
  <2> HIDE DEF R
  <2> QED
    BY <1>1, <1>3, HeadTail
<1>5. d \in Pool /\ h.rows \in Seq(Nat) /\ h.stats \in [Kinds -> Nat]
  BY <1>4
<1>6. Rows(h.rows, Share(d)) /\ Figures(h.stats, Share(d))
  BY <1>4, <1>5 DEF ResultInv
<1> HIDE DEF h, R
<1>7. Delivered = Delivered' \cup {d} /\ d \notin Delivered'
  <2>1. \A k \in DOMAIN results : results[k].index \in Delivered' \cup {d}
    BY <1>4 DEF Delivered
  <2>2. \A k \in DOMAIN results' : results'[k].index \in Delivered
    BY <1>4 DEF Delivered
  <2>3. d \in Delivered
    BY <1>4 DEF Delivered
  <2>4. \A k \in DOMAIN results' : results'[k].index # d
    <3>1. \A k \in Nat \ {0} : k + 1 # 1
      OBVIOUS
    <3> QED
      BY <1>3, <1>4, <3>1
  <2>5. d \notin Delivered'
    BY <2>4 DEF Delivered
  <2>6. \A x \in Delivered : x \in Delivered' \cup {d}
    BY <2>1 DEF Delivered
  <2>7. \A x \in Delivered' : x \in Delivered
    BY <2>2 DEF Delivered
  <2> QED
    BY <2>3, <2>5, <2>6, <2>7
<1> HIDE DEF d
<1>8. Waiting' = Waiting /\ Busy' = Busy
  BY <1>1, <1>2 DEF Waiting, Busy, Elements
<1>9. Collected' = Collected \cup {d} /\ d \notin Collected
  <2>1. d \notin Waiting /\ d \notin Busy /\ d \notin failed /\ d \in Delivered
    BY <1>7 DEF PlaceInv
  <2> QED
    BY <1>1, <1>2, <1>5, <1>7, <1>8, <2>1 DEF Collected
<1>10. PlaceInv'
  <2>1. /\ Waiting' \cap (Busy' \cup Delivered' \cup failed') = {}
        /\ Busy' \cap (Delivered' \cup failed') = {}
        /\ Delivered' \cap failed' = {}
    BY <1>1, <1>7, <1>8 DEF PlaceInv
  <2>2. ASSUME NEW j \in DOMAIN results', NEW k \in DOMAIN results',
               results'[j].index = results'[k].index
        PROVE  j = k
    <3>1. j \in Nat /\ k \in Nat /\ j + 1 = k + 1
      BY <1>3, <1>4, <2>2
    <3> QED
      BY <3>1
  <2> QED
    BY <1>1, <1>2, <1>4, <2>1, <2>2 DEF PlaceInv, R
<1>11. ResultInv'
  BY <1>2, <1>4 DEF ResultInv
<1>12. WorkerInv'
  BY <1>1, <1>2 DEF WorkerInv
<1>13. CollectedInv'
  <2>1. DOMAIN ordered' = Pool
    BY <1>1 DEF CollectedInv
  <2>2. ASSUME NEW k \in Pool
        PROVE  IF k \in Collected' THEN Rows(ordered'[k], Share(k)) ELSE ordered'[k] = <<>>
    <3>1. CASE k = d
      <4>1. ordered'[k] = h.rows
        BY <1>1, <1>5, <3>1 DEF CollectedInv
      <4> QED
        BY <1>6, <1>9, <3>1, <4>1
    <3>2. CASE k # d
      <4>1. ordered'[k] = ordered[k]
        BY <1>1, <3>2 DEF CollectedInv
      <4> QED
        BY <1>9, <3>2, <4>1 DEF CollectedInv
    <3> QED
      BY <3>1, <3>2
  <2>3. Figures(stats', Shares(Collected'))
    <3> DEFINE C == Collected
    <3>1. C \in SUBSET Pool
      BY DEF Collected
    <3>2. Figures(stats, Shares(C))
      BY <3>1 DEF CollectedInv
    <3> HIDE DEF C
    <3>3. \A kind \in Kinds : /\ IsFiniteSet(Shares(C)[kind])
                              /\ IsFiniteSet(Share(d)[kind])
      BY ShareFacts
    <3>4. \A kind \in Kinds : Shares(C)[kind] \cap Share(d)[kind] = {}
      <4>1. \A kind \in Kinds : Shares(C)[kind] = UNION {Share(k)[kind] : k \in C}
        BY DEF Shares
      <4>2. \A k \in C, kind \in Kinds : Share(k)[kind] \cap Share(d)[kind] = {}
        <5>1. \A k \in C : k \in Pool /\ k # d
          BY <1>9, <3>1 DEF C
        <5> QED
          BY <1>5, <5>1, ShareFacts
      <4> QED
        BY <4>1, <4>2
    <3>5. \A kind \in Kinds : Shares(C \cup {d})[kind] = Shares(C)[kind] \cup Share(d)[kind]
      BY ShareFacts
    <3>6. Figures([kind \in Kinds |-> stats[kind] + h.stats[kind]], Shares(C \cup {d}))
      <4> DEFINE g == h.stats
                 old == Shares(C)
                 one == Share(d)
                 both == Shares(C \cup {d})
      <4>1. /\ Figures(stats, old) /\ Figures(g, one)
            /\ \A kind \in Kinds : /\ IsFiniteSet(old[kind]) /\ IsFiniteSet(one[kind])
                                   /\ old[kind] \cap one[kind] = {}
            /\ \A kind \in Kinds : both[kind] = old[kind] \cup one[kind]
        BY <1>6, <3>2, <3>3, <3>4, <3>5
      <4> HIDE DEF g, old, one, both
      <4>2. Figures([kind \in Kinds |-> stats[kind] + g[kind]], both)
        BY <4>1, FiguresJoined
      <4> QED
        BY <4>2 DEF g, both
    <3> QED
      BY <1>1, <1>9, <3>6 DEF C
  <2> QED
    BY <1>2, <2>1, <2>2, <2>3 DEF CollectedInv
<1>14. MergeInv'
  <2>1. merged = 0 /\ merged \in Nat
    BY <1>1 DEF MergeInv, PoolDone, FileInv
  <2>2. {k \in Collected : k < merged} = {} /\ {k \in Collected' : k < merged} = {}
    <3>1. \A k \in Pool : k \in Nat
      BY PoolFacts
    <3>2. Collected \subseteq Pool /\ Collected' \subseteq Pool
      BY <1>2 DEF Collected
    <3> QED
      BY <2>1, <3>1, <3>2
  <2>3. Rows(cleanData, Shares({}))
    BY <2>2 DEF MergeInv
  <2> QED
    BY <1>1, <1>2, <2>1, <2>2, <2>3 DEF MergeInv
<1>15. FileInv'
  BY <1>1 DEF FileInv
<1> QED
  BY <1>10, <1>11, <1>12, <1>13, <1>14, <1>15

\* The chunks are put together in the order of their ranges.
LEMMA MergeKeeps ==
    ASSUME LoadInv, Merge
    PROVE  LoadInv'
<1> DEFINE m == merged
           before == {k \in Collected : k < m}
<1> USE DEF LoadInv
<1>1. /\ UNCHANGED <<file, workers, jobs, doing, position, chunk, counts, results, ordered,
                     stats, failed>>
      /\ PoolDone /\ m < workers
      /\ cleanData' = cleanData \o ordered[m] /\ merged' = m + 1
  BY DEF Merge
<1>2. /\ size' = size /\ Pool' = Pool
      /\ \A k : Start(k)' = Start(k)
      /\ \A x : Boundary(x)' = Boundary(x)
      /\ \A k : Share(k)' = Share(k)
      /\ \A k, x : Read(k, x)' = Read(k, x)
      /\ \A ranges : Shares(ranges)' = Shares(ranges)
  BY <1>1, SameFile
<1>3. Waiting' = Waiting /\ Busy' = Busy /\ Delivered' = Delivered /\ Collected' = Collected
  BY <1>1, <1>2 DEF Waiting, Busy, Delivered, Collected, Elements
<1>4. PlaceInv'
  BY <1>1, <1>2, <1>3 DEF PlaceInv
<1>5. WorkerInv' /\ ResultInv'
  BY <1>1, <1>2, StillThere DEF WorkerInv
<1>6. CollectedInv'
  BY <1>1, <1>2, <1>3 DEF CollectedInv
<1>7. workers \in Nat \ {0} /\ m \in Nat /\ m \in Pool /\ m + 1 \in 0 .. workers
  BY <1>1 DEF MergeInv, FileInv, Pool
<1>8. /\ Collected \subseteq Pool /\ \A k \in Collected : k \in Nat
      /\ before \subseteq Pool /\ \A k \in before : k < m
  BY PoolFacts DEF Collected
<1>9. Rows(cleanData, Shares(before))
  BY <1>8 DEF MergeInv
<1>10. Rows(cleanData', Shares({k \in Collected : k < m + 1}))
  <2>1. CASE m \in Collected
    <3>1. {k \in Collected : k < m + 1} = before \cup {m}
      <4>1. \A k \in Collected : k < m + 1 <=> (k < m \/ k = m)
        BY <1>7, <1>8
      <4>2. before \subseteq Collected /\ \A k \in Collected : k \in before <=> k < m
        OBVIOUS
      <4> HIDE DEF before, m
      <4> QED
        BY <2>1, <4>1, <4>2
    <3>2. Rows(ordered[m], Share(m))
      BY <1>7, <2>1 DEF CollectedInv
    <3> HIDE DEF before
    <3>3. \A x \in Shares(before)["clean"], y \in Share(m)["clean"] : x < y
      <4>1. "clean" \in Kinds
        BY DEF Kinds
      <4>2. Shares(before)["clean"] = UNION {Share(k)["clean"] : k \in before}
        BY <4>1 DEF Shares
      <4>3. \A k \in before : \A x \in Share(k)["clean"], y \in Share(m)["clean"] : x < y
        BY <1>7, <1>8, <4>1, ShareFacts
      <4> QED
        BY <4>2, <4>3
    <3>4. Shares(before \cup {m})["clean"] = Shares(before)["clean"] \cup Share(m)["clean"]
      BY ShareFacts DEF Kinds
    <3>5. Rows(cleanData \o ordered[m], Shares(before \cup {m}))
      BY <1>9, <3>2, <3>3, <3>4, RowsJoined
    <3> QED
      BY <1>1, <3>1, <3>5
  <2>2. CASE m \notin Collected
    <3>1. {k \in Collected : k < m + 1} = before
      <4>1. \A k \in Collected : k < m + 1 <=> k < m
        BY <1>7, <1>8, <2>2
      <4> QED
        BY <4>1
    <3>2. ordered[m] = <<>>
      BY <1>7, <2>2 DEF CollectedInv
    <3>3. cleanData \in Seq(Nat)
      BY <1>9 DEF Rows
    <3>4. cleanData \o <<>> = cleanData
      BY <3>3, ConcatEmptySeq
    <3> QED
      BY <1>1, <1>9, <3>1, <3>2, <3>4
  <2> QED
    BY <2>1, <2>2
<1>11. MergeInv'
  <2>1. PoolDone'
    BY <1>1, <1>2 DEF PoolDone
  <2>2. merged' \in 0 .. workers'
    BY <1>1, <1>7
  <2>3. \A ranges \in SUBSET Pool :
            ranges = {k \in Collected' : k < merged'} => Rows(cleanData', Shares(ranges))
    BY <1>1, <1>3, <1>10
  <2> QED
    BY <1>1, <1>2, <2>1, <2>2, <2>3 DEF MergeInv
<1>12. FileInv'
  BY <1>1 DEF FileInv
<1> QED
  BY <1>4, <1>5, <1>6, <1>11, <1>12

\* Before the pool starts every range is in the channel.
LEMMA LoadInitially ==
    ASSUME LoadInit
    PROVE  LoadInv
<1>1. /\ file \in Files /\ workers \in 1 .. MaxWorkers
      /\ jobs = [k \in 1 .. workers |-> k - 1]
      /\ doing = [w \in Pool |-> Idle] /\ position = [w \in Pool |-> 0]
      /\ chunk = [w \in Pool |-> <<>>] /\ counts = [w \in Pool |-> Zero]
      /\ results = <<>> /\ ordered = [k \in Pool |-> <<>>]
      /\ stats = Zero /\ merged = 0 /\ cleanData = <<>> /\ failed = {}
  BY DEF LoadInit
<1>2. FileInv
  <2>1. PICK n \in 0 .. MaxSize : file \in [1 .. n -> Bytes]
    BY <1>1 DEF Files
  <2>2. n \in Nat
    BY IngestAssumption
  <2>3. file \in Seq(Bytes)
    BY <2>1, <2>2, SeqDef
  <2>4. workers \in Nat \ {0}
    BY <1>1, IngestAssumption
  <2> QED
    BY <2>3, <2>4 DEF FileInv
<1>3. workers \in Nat \ {0} /\ size \in Nat /\ IsFiniteSet(Pool)
  BY <1>2, RangeFacts, PoolFacts DEF FileInv
<1>4. jobs \in Seq(Pool) /\ DOMAIN jobs = 1 .. workers /\ \A k \in 1 .. workers : jobs[k] = k - 1
  <2>1. jobs \in [1 .. workers -> Pool]
    BY <1>1, <1>3 DEF Pool
  <2>2. jobs \in Seq(Pool)
    BY <1>3, <2>1, SeqDef
  <2> QED
    BY <1>1, <2>2
<1>5. Waiting = Pool /\ Distinct(jobs)
  <2>1. \A k \in Pool : k + 1 \in DOMAIN jobs /\ jobs[k + 1] = k
    BY <1>3, <1>4 DEF Pool
  <2>2. \A k \in DOMAIN jobs : jobs[k] \in Pool
    BY <1>3, <1>4 DEF Pool
  <2>3. \A x \in Pool : x \in Waiting
    BY <2>1 DEF Waiting, Elements
  <2>4. \A x \in Waiting : x \in Pool
    BY <2>2 DEF Waiting, Elements
  <2>5. Distinct(jobs)
    BY <1>3, <1>4 DEF Distinct
  <2> QED
    BY <2>3, <2>4, <2>5
<1>6. DOMAIN <<>> = {}
  BY EmptySeq
<1>7. Busy = {} /\ Delivered = {} /\ Collected = {}
  BY <1>1, <1>5, <1>6 DEF Busy, Delivered, Collected
<1>8. PlaceInv
  <2>1. results \in Seq([index : Pool, rows : Seq(Nat), stats : [Kinds -> Nat]])
    BY <1>1, EmptySeq
  <2> QED
    BY <1>1, <1>4, <1>5, <1>6, <1>7, <2>1 DEF PlaceInv
<1>9. WorkerInv
  <2>1. \A w \in Pool, k \in Pool : doing[w] # k
    BY <1>1, <1>2, PoolFacts
  <2>2. position \in [Pool -> 0 .. size]
    BY <1>1, <1>3
  <2> QED
    BY <1>1, <2>1, <2>2 DEF WorkerInv
<1>10. ResultInv
  BY <1>1, <1>6 DEF ResultInv
<1>11. Rows(<<>>, Shares({})) /\ Figures(Zero, Shares({}))
  BY <1>2, ShareFacts, Nothing
<1>12. CollectedInv
  BY <1>1, <1>7, <1>11 DEF CollectedInv
<1>13. MergeInv
  <2>1. {k \in Collected : k < merged} = {}
    BY <1>7
  <2>2. merged \in 0 .. workers /\ ~(merged > 0)
    BY <1>1, <1>3
  <2>3. Rows(cleanData, Shares({}))
    BY <1>1, <1>11
  <2> QED
    BY <2>1, <2>2, <2>3 DEF MergeInv
<1> QED
  BY <1>2, <1>8, <1>9, <1>10, <1>12, <1>13 DEF LoadInv

\* Every step of the loading keeps its invariant.
LEMMA LoadPreserved ==
    ASSUME LoadInv, [LoadNext]_loadVars
    PROVE  LoadInv'
<1>1. CASE \E w \in Pool : Take(w)
  BY <1>1, LoadTakeKeeps
<1>2. CASE \E w \in Pool : ReadLine(w)
  BY <1>2, ReadLineKeeps
<1>3. CASE \E w \in Pool : Deliver(w)
  BY <1>3, LoadDeliverKeeps
<1>4. CASE \E w \in Pool : Fail(w)
  BY <1>4, LoadFailKeeps
<1>5. CASE Collect
  BY <1>5, LoadCollectKeeps
<1>6. CASE Merge
  BY <1>6, MergeKeeps
<1>7. CASE UNCHANGED loadVars
  <2>1. UNCHANGED <<file, workers, jobs, doing, position, chunk, counts, results, ordered,
                    stats, merged, cleanData, failed>>
    BY <1>7 DEF loadVars
  <2>2. /\ size' = size /\ Pool' = Pool
        /\ \A k : Start(k)' = Start(k)
        /\ \A x : Boundary(x)' = Boundary(x)
        /\ \A k : Share(k)' = Share(k)
        /\ \A k, x : Read(k, x)' = Read(k, x)
        /\ \A ranges : Shares(ranges)' = Shares(ranges)
    BY <2>1, SameFile
  <2>3. Waiting' = Waiting /\ Busy' = Busy /\ Delivered' = Delivered /\ Collected' = Collected
    BY <2>1, <2>2 DEF Waiting, Busy, Delivered, Collected, Elements
  <2>4. FileInv' /\ PlaceInv'
    BY <2>1, <2>2, <2>3 DEF LoadInv, FileInv, PlaceInv
  <2>5. WorkerInv' /\ ResultInv'
    BY <2>1, <2>2, StillThere DEF LoadInv, WorkerInv
  <2>6. CollectedInv'
    BY <2>1, <2>2, <2>3 DEF LoadInv, CollectedInv
  <2>7. MergeInv'
    BY <2>1, <2>2, <2>3 DEF LoadInv, MergeInv, PoolDone
  <2> QED
    BY <2>4, <2>5, <2>6, <2>7 DEF LoadInv
<1> QED
  BY <1>1, <1>2, <1>3, <1>4, <1>5, <1>6, <1>7 DEF LoadNext, Work

\* The invariant of the loading holds in every reachable state.
THEOREM LoadInvariance == LoadSpec => []LoadInv
<1>1. LoadInit => LoadInv
  BY LoadInitially
<1>2. LoadInv /\ [LoadNext]_loadVars => LoadInv'
  BY LoadPreserved
<1> QED
  BY <1>1, <1>2, PTL DEF LoadSpec

\* With every chunk merged the rows and the figures are those of the readable ranges.
LEMMA AllMerged ==
    ASSUME LoadInv, Loaded
    PROVE  LoadIsExact
<1> USE DEF LoadInv
<1>1. FileInv /\ merged = workers /\ workers \in Nat \ {0}
  BY DEF Loaded, FileInv
<1>2. PoolDone
  BY <1>1 DEF MergeInv
<1>3. Waiting = {} /\ Delivered = {} /\ Busy = {}
  <2>1. jobs = <<>> /\ results = <<>> /\ \A w \in Pool : doing[w] = Idle
    BY <1>2 DEF PoolDone
  <2>2. DOMAIN <<>> = {}
    BY EmptySeq
  <2> QED
    BY <2>1, <2>2 DEF Waiting, Delivered, Busy, Elements
<1>4. Collected = Pool \ failed /\ failed \subseteq Pool
  BY <1>3 DEF Collected, PlaceInv
<1>5. {k \in Collected : k < merged} = Collected
  <2>1. \A k \in Pool : k < workers
    BY <1>1 DEF Pool
  <2> QED
    BY <1>1, <1>4, <2>1
<1>6. Rows(cleanData, Shares(Collected)) /\ Figures(stats, Shares(Collected))
  <2>1. Collected \in SUBSET Pool
    BY <1>4
  <2> QED
    BY <1>5, <2>1 DEF MergeInv, CollectedInv
<1>7. ASSUME NEW kind \in Kinds PROVE Shares(Collected)[kind] = Of(kind)
  <2>1. ASSUME NEW p \in Lines
        PROVE  p \in Readable <=> \E k \in Collected : p \in LinesIn(k)
    <3>1. PICK k \in Pool : p \in LinesIn(k)
      BY <1>1, LineFacts
    <3>2. \A j \in Pool : p \in LinesIn(j) => j = k
      BY <1>1, <3>1, LineFacts
    <3>3. \A j \in Pool : p \in LinesIn(j) <=> ~(p < Start(j) \/ p >= End(j))
      <4> SUFFICES ASSUME NEW j \in Pool PROVE p \in LinesIn(j) <=> ~(p < Start(j) \/ p >= End(j))
        OBVIOUS
      <4>1. p \in Nat /\ Start(j) \in Nat /\ End(j) \in Nat
        BY <1>1, LineFacts, RangeFacts
      <4> QED
        BY <4>1 DEF LinesIn
    <3>4. p \in Readable <=> \A j \in failed : p \notin LinesIn(j)
      BY <1>4, <3>3 DEF Readable
    <3> QED
      BY <1>4, <3>1, <3>2, <3>4
  <2>2. Shares(Collected)[kind] = UNION {Share(k)[kind] : k \in Collected}
    BY DEF Shares
  <2>3. \A k : Share(k)[kind] = {p \in LinesIn(k) : Kind(p) = kind}
    BY DEF Share
  <2>4. \A k : LinesIn(k) \subseteq Lines
    BY DEF LinesIn
  <2>5. Readable \subseteq Lines
    BY DEF Readable
  <2>6. \A p \in Shares(Collected)[kind] : p \in Of(kind)
    BY <2>1, <2>2, <2>3, <2>4 DEF Of
  <2>7. \A p \in Of(kind) : p \in Shares(Collected)[kind]
    BY <2>1, <2>2, <2>3, <2>5 DEF Of
  <2> QED
    BY <2>6, <2>7
<1>8. "clean" \in Kinds
  BY DEF Kinds
<1>9. /\ \A j, k \in DOMAIN cleanData : j < k => cleanData[j] < cleanData[k]
      /\ {cleanData[k] : k \in DOMAIN cleanData} = Of("clean")
  BY <1>6, <1>7, <1>8 DEF Rows, Elements
<1>10. \A kind \in Kinds : stats[kind] = Cardinality(Of(kind))
  BY <1>6, <1>7 DEF Figures
<1> QED
  BY <1>9, <1>10 DEF LoadIsExact

\* Wherever the cuts fall and however the workers run, every clean line of a range that could be
\* read is loaded once and in file order, and the figures count every line of those once.
THEOREM LoadIsExactHolds == LoadSpec => []LoadIsExact
<1>1. LoadInv => LoadIsExact
  BY AllMerged DEF LoadIsExact
<1> QED
  BY <1>1, LoadInvariance, PTL

\* Every variable of the loading keeps its type, for any file and any number of workers.
THEOREM LoadTypeCorrect == LoadSpec => []LoadTypeOK
<1>1. LoadInit => LoadTypeOK
  <2> SUFFICES ASSUME LoadInit PROVE LoadTypeOK
    OBVIOUS
  <2>1. LoadInv /\ workers \in 1 .. MaxWorkers /\ MaxWorkers \in Nat
    BY LoadInitially, IngestAssumption DEF LoadInit
  <2>2. /\ chunk = [w \in Pool |-> <<>>] /\ counts = [w \in Pool |-> Zero]
        /\ position = [w \in Pool |-> 0] /\ ordered = [k \in Pool |-> <<>>]
        /\ stats = Zero /\ cleanData = <<>>
    BY DEF LoadInit
  <2>3. <<>> \in Seq(Nat) /\ Zero \in [Kinds -> Nat]
    BY DEF Zero
  <2>4. \A k \in DOMAIN jobs : jobs[k] \in Pool
    BY <2>1, ElementOfSeq, LenProperties DEF LoadInv, PlaceInv
  <2> QED
    BY <2>1, <2>2, <2>3, <2>4 DEF LoadInv, FileInv, PlaceInv, MergeInv, LoadTypeOK
<1>2. LoadInv /\ LoadInv' /\ LoadTypeOK /\ [LoadNext]_loadVars => LoadTypeOK'
  <2> SUFFICES ASSUME LoadInv, LoadInv', LoadTypeOK, [LoadNext]_loadVars PROVE LoadTypeOK'
    OBVIOUS
  <2>1. UNCHANGED <<file, workers>> /\ Pool' = Pool
    BY DEF LoadNext, Work, Take, ReadLine, Deliver, Fail, Collect, Merge, loadVars, Pool
  <2>2. /\ file' \in Seq(Bytes) /\ workers' \in 1 .. MaxWorkers
        /\ \A k \in DOMAIN jobs' : jobs'[k] \in Pool
        /\ doing' \in [Pool -> Pool \cup {Idle}]
        /\ merged' \in 0 .. workers /\ failed' \subseteq Pool
    <3>1. jobs' \in Seq(Pool)
      BY <2>1 DEF LoadInv, PlaceInv
    <3>2. \A k \in DOMAIN jobs' : jobs'[k] \in Pool
      BY <3>1, ElementOfSeq, LenProperties
    <3> QED
      BY <2>1, <3>2 DEF LoadInv, PlaceInv, MergeInv, LoadTypeOK
  <2>3. position' \in [Pool -> Nat]
    <3>1. size' = size /\ size \in Nat
      BY <2>1, RangeFacts DEF LoadInv, size
    <3>2. position' \in [Pool -> 0 .. size]
      BY <2>1, <3>1 DEF LoadInv, WorkerInv
    <3> QED
      BY <3>1, <3>2
  <2>4. chunk' \in [Pool -> Seq(Nat)] /\ counts' \in [Pool -> [Kinds -> Nat]]
    <3>1. CASE UNCHANGED <<chunk, counts>>
      BY <3>1 DEF LoadTypeOK
    <3>2. ASSUME NEW w \in Pool, Take(w)
          PROVE  chunk' \in [Pool -> Seq(Nat)] /\ counts' \in [Pool -> [Kinds -> Nat]]
      <4>1. <<>> \in Seq(Nat) /\ Zero \in [Kinds -> Nat]
        BY DEF Zero
      <4> QED
        BY <3>2, <4>1 DEF Take, LoadTypeOK
    <3>3. ASSUME NEW w \in Pool, ReadLine(w)
          PROVE  chunk' \in [Pool -> Seq(Nat)] /\ counts' \in [Pool -> [Kinds -> Nat]]
      <4> DEFINE p == position[w]
      <4>1. p \in Nat /\ Kind(p) \in Kinds
        BY ShareFacts DEF LoadTypeOK, LoadInv
      <4>2. chunk[w] \in Seq(Nat) /\ Append(chunk[w], p) \in Seq(Nat)
        BY <4>1, AppendProperties DEF LoadTypeOK
      <4>3. \/ UNCHANGED <<chunk, counts>>
            \/ /\ counts' = [counts EXCEPT ![w][Kind(p)] = @ + 1]
               /\ \/ chunk' = [chunk EXCEPT ![w] = Append(chunk[w], p)]
                  \/ chunk' = chunk
        BY <3>3 DEF ReadLine
      <4> HIDE DEF p
      <4>4. chunk' \in [Pool -> Seq(Nat)]
        BY <4>2, <4>3 DEF LoadTypeOK
      <4>5. [counts[w] EXCEPT ![Kind(p)] = @ + 1] \in [Kinds -> Nat]
        BY <4>1 DEF LoadTypeOK
      <4>6. \/ counts' = counts
            \/ counts' = [counts EXCEPT ![w] = [counts[w] EXCEPT ![Kind(p)] = @ + 1]]
        BY <4>3
      <4> QED
        BY <4>4, <4>5, <4>6 DEF LoadTypeOK
    <3> QED
      BY <3>1, <3>2, <3>3
      DEF LoadNext, Work, Deliver, Fail, Collect, Merge, loadVars
  <2>5. /\ ordered' \in [Pool -> Seq(Nat)] /\ stats' \in [Kinds -> Nat]
        /\ cleanData' \in Seq(Nat)
    <3>1. ordered' \in [Pool -> Seq(Nat)]
      <4>1. CASE UNCHANGED ordered
        BY <4>1 DEF LoadTypeOK
      <4>2. CASE Collect
        <5>1. Head(results) \in [index : Pool, rows : Seq(Nat), stats : [Kinds -> Nat]]
          BY <4>2, HeadTail DEF Collect, LoadInv, PlaceInv
        <5> QED
          BY <4>2, <5>1 DEF Collect, LoadTypeOK
      <4> QED
        BY <4>1, <4>2
        DEF LoadNext, Work, Take, ReadLine, Deliver, Fail, Merge, loadVars
    <3>2. stats' \in [Kinds -> Nat]
      <4>1. Collected' \in SUBSET Pool'
        BY DEF Collected
      <4> QED
        BY <4>1 DEF LoadInv, CollectedInv, Figures
    <3>3. cleanData' \in Seq(Nat)
      <4>1. {k \in Collected' : k < merged'} \in SUBSET Pool'
        BY DEF Collected
      <4> QED
        BY <4>1 DEF LoadInv, MergeInv, Rows
    <3> QED
      BY <3>1, <3>2, <3>3
  <2> QED
    BY <2>1, <2>2, <2>3, <2>4, <2>5 DEF LoadTypeOK
<1> QED
  BY <1>1, <1>2, LoadInvariance, PTL DEF LoadSpec
=============================================================================
