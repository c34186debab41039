------------------------------- MODULE Ingest -------------------------------
(***************************************************************************)
(* The first stage of LoadData: the raw file is cut into byte ranges       *)
(* without regard to lines, a pool of workers loads them, and the main     *)
(* goroutine puts the clean rows together in file order.                   *)
(*                                                                         *)
(* A file is a sequence of bytes: line ends, and bytes that say what kind  *)
(* of line they are in.  A row is named by the offset of the byte where    *)
(* loadChunk began to read it; offsets start from 0, as in the code.  The  *)
(* trimming of carriage returns is left out.                               *)
(***************************************************************************)
EXTENDS Integers, Sequences, FiniteSets

CONSTANTS
    MaxSize, MaxWorkers,    \* bounds of the file and of the pool
    Idle

ASSUME IngestAssumption == MaxSize \in Nat /\ MaxWorkers \in Nat \ {0} /\ Idle \notin Nat

VARIABLES
    file, workers,  \* the arguments
    jobs,           \* jobChan, filled and closed before the pool starts
    doing,          \* worker -> the range it loads, or Idle
    position,       \* worker -> position in loadChunk
    chunk, counts,  \* worker -> the chunk and stats of loadChunk
    results,        \* resultChan
    ordered,        \* orderedChunks
    stats,          \* the sum of the chunks' stats
    merged,         \* how many chunks have been merged into cleanData
    cleanData,
    failed          \* the ranges that could not be read

loadVars == <<file, workers, jobs, doing, position, chunk, counts, results, ordered,
          stats, merged, cleanData, failed>>

Letters == {"value", "hole", "junk"}
Bytes == Letters \cup {"newline"}
Kinds == {"clean", "missing", "invalid"}

Pool == 0 .. workers - 1
size == Len(file)
Byte(p) == file[p + 1]
Zero == [kind \in Kinds |-> 0]

LoadTypeOK ==
    /\ file \in Seq(Bytes) /\ workers \in 1 .. MaxWorkers
    /\ \A k \in DOMAIN jobs : jobs[k] \in Pool
    /\ doing \in [Pool -> Pool \cup {Idle}]
    /\ position \in [Pool -> Nat]
    /\ chunk \in [Pool -> Seq(Nat)] /\ counts \in [Pool -> [Kinds -> Nat]]
    /\ ordered \in [Pool -> Seq(Nat)] /\ stats \in [Kinds -> Nat]
    /\ merged \in 0 .. workers /\ cleanData \in Seq(Nat)
    /\ failed \subseteq Pool

-----------------------------------------------------------------------------
(* Lines of the file.                                                       *)

\* The offset after the line that holds p, its line end included.
After(p) ==
    CHOOSE q \in p + 1 .. size :
        /\ q = size \/ Byte(q - 1) = "newline"
        /\ \A r \in p + 1 .. q - 1 : Byte(r - 1) # "newline"

Text(p) == {Byte(q) : q \in p .. After(p) - 1} \ {"newline"}

\* processLine, with parseLine, validateRecord and analyzeLine: what becomes of a line.
Kind(p) ==
    CASE "junk" \in Text(p) -> "invalid"
      [] "hole" \in Text(p) /\ "junk" \notin Text(p) -> "missing"
      [] OTHER -> "clean"

\* buildByteJobs.
Start(k) == k * (size \div workers)
End(k) == IF k = workers - 1 THEN size ELSE Start(k) + size \div workers

\* Where loadChunk starts to read: after the header, or after the line that a worker with
\* a smaller range will read to its end.
Begin_Bug(k) == IF Start(k) = 0 \/ Byte(Start(k)) # "newline"   \* looks at its own first byte
                THEN After(Start(k)) ELSE Start(k)
Begin(k) == IF Start(k) = 0 \/ Byte(Start(k) - 1) # "newline"
            THEN After(Start(k)) ELSE Start(k)

-----------------------------------------------------------------------------
Files == UNION {[1 .. n -> Bytes] : n \in 0 .. MaxSize}

LoadInit ==
    /\ file \in Files
    /\ workers \in 1 .. MaxWorkers
    /\ jobs = [k \in 1 .. workers |-> k - 1]
    /\ doing = [w \in Pool |-> Idle]
    /\ position = [w \in Pool |-> 0]
    /\ chunk = [w \in Pool |-> <<>>]
    /\ counts = [w \in Pool |-> Zero]
    /\ results = <<>>
    /\ ordered = [k \in Pool |-> <<>>]
    /\ stats = Zero
    /\ merged = 0
    /\ cleanData = <<>>
    /\ failed = {}

\* A worker takes a range, opens the file and finds its first line.  (Reading the header
\* of an empty file fails with io.EOF: an empty chunk.)
Take(w) ==
    /\ doing[w] = Idle
    /\ jobs # <<>>
    /\ doing' = [doing EXCEPT ![w] = Head(jobs)]
    /\ jobs' = Tail(jobs)
    /\ position' = [position EXCEPT ![w] = IF size = 0 THEN 0 ELSE Begin(Head(jobs))]
    /\ chunk' = [chunk EXCEPT ![w] = <<>>]
    /\ counts' = [counts EXCEPT ![w] = Zero]
    /\ UNCHANGED <<file, workers, results, ordered, stats, merged, cleanData, failed>>

\* Opening, seeking or reading failed: the error is printed, the range is forgotten.
Fail(w) ==
    /\ doing[w] # Idle
    /\ failed' = failed \cup {doing[w]}
    /\ doing' = [doing EXCEPT ![w] = Idle]
    /\ UNCHANGED <<file, workers, jobs, position, chunk, counts, results, ordered, stats,
                   merged, cleanData>>

\* One turn of the loop of loadChunk: a line that starts before the end of the range is
\* read to its own end, wherever that is.  Empty lines do not count.
ReadLine(w) ==
    /\ doing[w] # Idle
    /\ position[w] < End(doing[w])
    /\ position' = [position EXCEPT ![w] = After(@)]
    /\ LET p == position[w] IN
          \/ /\ Text(p) = {}
             /\ UNCHANGED <<chunk, counts>>
          \/ /\ Text(p) # {}
             /\ counts' = [counts EXCEPT ![w][Kind(p)] = @ + 1]
             /\ chunk' = IF Kind(p) = "clean" THEN [chunk EXCEPT ![w] = Append(@, p)]
                                              ELSE chunk
    /\ UNCHANGED <<file, workers, jobs, doing, results, ordered, stats, merged, cleanData,
                   failed>>

Deliver(w) ==
    /\ doing[w] # Idle
    /\ position[w] >= End(doing[w])
    /\ Len(results) < workers
    /\ results' = Append(results,
                         [index |-> doing[w], rows |-> chunk[w], stats |-> counts[w]])
    /\ doing' = [doing EXCEPT ![w] = Idle]
    /\ UNCHANGED <<file, workers, jobs, position, chunk, counts, ordered, stats, merged,
                   cleanData, failed>>

\* The main goroutine: result by result, in whatever order they come ...
Slot(result) == result.index

Collect ==
    /\ results # <<>>
    /\ ordered' = [ordered EXCEPT ![Slot(Head(results))] = Head(results).rows]
    /\ stats' = [kind \in Kinds |-> stats[kind] + Head(results).stats[kind]]
    /\ results' = Tail(results)
    /\ UNCHANGED <<file, workers, jobs, doing, position, chunk, counts, merged, cleanData,
                   failed>>

\* ... and, once the workers are gone and the channel is drained and closed, in order.
PoolDone_Bug ==                                  \* waits for one result per range
    jobs = <<>> /\ results = <<>> /\ failed = {} /\ \A w \in Pool : doing[w] = Idle
PoolDone == jobs = <<>> /\ results = <<>> /\ \A w \in Pool : doing[w] = Idle

Merge ==
    /\ PoolDone
    /\ merged < workers
    /\ cleanData' = cleanData \o ordered[merged]
    /\ merged' = merged + 1
    /\ UNCHANGED <<file, workers, jobs, doing, position, chunk, counts, results, ordered,
                   stats, failed>>

Work(w) == Take(w) \/ ReadLine(w) \/ Deliver(w)

LoadNext == (\E w \in Pool : Work(w) \/ Fail(w)) \/ Collect \/ Merge

LoadSpec == LoadInit /\ [][LoadNext]_loadVars

(* Every goroutine that can run does run.                                   *)
FairLoadSpec == /\ LoadSpec
            /\ \A w \in 0 .. MaxWorkers - 1 : WF_loadVars(w \in Pool /\ Work(w))
            /\ WF_loadVars(Collect) /\ WF_loadVars(Merge)

-----------------------------------------------------------------------------
(* Properties.                                                              *)

Loaded == merged = workers

\* The lines of the file after its header, and those that a range is answerable for.
Lines == {p \in 1 .. size - 1 : Byte(p - 1) = "newline" /\ Text(p) # {}}
Readable == {p \in Lines : \A k \in failed : p < Start(k) \/ p >= End(k)}
Of(kind) == {p \in Readable : Kind(p) = kind}

\* load.go:43-64, 250-317, 326-342: wherever the cuts fall, with any number of workers and
\* in whatever order they finish, every clean line is loaded exactly once and in file
\* order, the figures count every line once, and a range that cannot be read costs
\* exactly the lines that start in it.
LoadIsExact ==
    Loaded => /\ \A j, k \in DOMAIN cleanData : j < k => cleanData[j] < cleanData[k]
              /\ {cleanData[k] : k \in DOMAIN cleanData} = Of("clean")
              /\ \A kind \in Kinds : stats[kind] = Cardinality(Of(kind))

\* load.go:38-64: the pool drains its jobs and stops and the loader goes on, also when
\* ranges cannot be read; nobody waits on a channel for ever.
LoadReturns == <>Loaded
=============================================================================
