------------------------------ MODULE Datasets ------------------------------
(***************************************************************************)
(* buildForecastRecords and splitForecastTrainTest: the clean rows become  *)
(* forecast windows, built by a pool of workers while the main goroutine   *)
(* still divides the anchors (the loop of SplitRanges), and the windows    *)
(* become a training and a test set.                                       *)
(*                                                                         *)
(* A row is its time, in minutes on the clock of the house, as the file    *)
(* says it without a zone, and its active power, an integer; the other     *)
(* columns are copied.  Averages are kept as sums.  Rows and anchors are   *)
(* numbered from 0, as in the code.                                        *)
(***************************************************************************)
EXTENDS SplitRanges, FiniteSetsExt

CONSTANTS
    History, Horizon, Sustained, Stride,    \* 15, 30, 10 and 5 in the code
    HourLength, DayLength, WeekLength,      \* minutes, hours and days: 60, 24 and 7
    MonthLength, YearLength,                \* days and months; months have one length here
    Threshold,                              \* highConsumptionThreshold
    MaxRows,
    None

ASSUME WindowAssumption ==
    /\ {History, Horizon, Sustained, Stride, Threshold} \subseteq Nat \ {0}
    /\ {HourLength, DayLength, WeekLength, MonthLength, YearLength} \subseteq Nat \ {0}
    /\ MaxRows \in Nat
ASSUME NoneAssumption == None \notin [index : Nat, start : Nat, end : Nat]     \* the type job

VARIABLES
    records,        \* the clean rows
    jobs, results,  \* the channels of the pool
    doing,          \* worker -> the job it has taken, or None
    ordered,        \* index of a job -> the windows built from it
    joined,         \* how many elements of ordered are in forecast
    forecast,       \* the windows
    training, test  \* what splitForecastTrainTest makes of them, or None before

buildVars == <<vars, records, jobs, results, doing, ordered, joined, forecast, training, test>>

Workers == 1 .. count
Row(k) == records[k + 1]
High(k) == Row(k).power >= Threshold        \* HighConsumption, set by transformRecord

-----------------------------------------------------------------------------
(* Rates, anchors and windows.                                              *)

\* Hour, DayOfWeek and Month of a time on some clock
Calendar(minute) ==
    LET day == minute \div (HourLength * DayLength)
    IN  [hour |-> (minute \div HourLength) % DayLength, day |-> day % WeekLength,
         month |-> (day \div MonthLength) % YearLength]

\* What rows are grouped by: the hour; the day of the week and the hour.
RowNumbers == 0 .. Len(records) - 1
HourOf == [k \in RowNumbers |-> Calendar(Row(k).minute).hour]
DayHourOf == [k \in RowNumbers |-> <<Calendar(Row(k).minute).day, Calendar(Row(k).minute).hour>>]

\* calculateForecastRates over the first rows: those of the group of row k
Tally(rows) == [high |-> Cardinality({k \in rows : High(k)}), total |-> Cardinality(rows)]
Rates(limit, k) ==
    [hour |-> Tally({j \in 0 .. limit - 1 : HourOf[j] = HourOf[k]}),
     dayHour |-> Tally({j \in 0 .. limit - 1 : DayHourOf[j] = DayHourOf[k]})]
RateLimit == (Len(records) * 8) \div 10      \* 80 %

FirstAnchor == History - 1
LastAnchorExclusive == Len(records) - Horizon

TotalAnchors_Bug == (LastAnchorExclusive - FirstAnchor) \div Stride    \* rounds down
TotalAnchors == (LastAnchorExclusive - FirstAnchor + Stride - 1) \div Stride

Anchor(ordinal) == FirstAnchor + ordinal * Stride

\* buildForecastRecord: whether it returns a window, and which.
FutureEnd(anchor) == anchor + Horizon
HistoryStart(anchor) == anchor - History + 1

Unbroken(anchor) ==
    \A k \in HistoryStart(anchor) + 1 .. FutureEnd(anchor) :
        Row(k).minute = Row(k - 1).minute + 1

FutureHigh(anchor) == {k \in anchor + 1 .. FutureEnd(anchor) : High(k)}

Square(x) == x * x

Features(anchor) ==
    LET past == HistoryStart(anchor) .. anchor
        sum == SumFunction([k \in past |-> Row(k).power])
    IN  [current |-> Row(anchor).power, sum |-> sum, max |-> Max({Row(k).power : k \in past}),
         variance |-> SumFunction([k \in past |-> Square(History * Row(k).power - sum)]),
         trend |-> Row(anchor).power - Row(HistoryStart(anchor)).power,
         calendar |-> Calendar(Row(anchor).minute)]

Window(anchor) ==
    [anchor |-> anchor, features |-> Features(anchor), rates |-> Rates(RateLimit, anchor),
     label |-> Cardinality(FutureHigh(anchor)) >= Sustained]

\* The windows of a job, in the order of its anchors.
Valid(job) ==
    {o \in job.start .. job.end - 1 : Anchor(o) < LastAnchorExclusive /\ Unbroken(Anchor(o))}
Ordinal(job, k) ==
    CHOOSE o \in Valid(job) : Cardinality({p \in Valid(job) : p <= o}) = k
Windows(job) == [k \in 1 .. Cardinality(Valid(job)) |-> Window(Anchor(Ordinal(job, k)))]

-----------------------------------------------------------------------------
\* Rows in order of time, with at most one gap and one peak.  Shorter tables give no
\* windows: the function returns before it starts the pool.
Power(k, peak) == IF k \in {peak, peak + 1} THEN Threshold
                  ELSE IF k = peak - 1 THEN Threshold - 1 ELSE 0
Tables ==
    UNION {{[k \in 1 .. n |-> [minute |-> IF k > gap THEN k + 1 ELSE k, power |-> Power(k, peak)]] :
               gap \in 1 .. n, peak \in 0 .. n} : n \in History + Horizon .. MaxRows}

BuildInit ==
    /\ records \in Tables
    /\ Init
    /\ total = TotalAnchors
    /\ jobs = <<>> /\ results = <<>>
    /\ doing = [w \in Workers |-> None]
    /\ ordered = [k \in Workers |-> <<>>]
    /\ joined = 0
    /\ forecast = <<>>
    /\ training = None /\ test = None

\* The main goroutine sends the next range to the pool.
Send ==
    /\ Len(jobs) < count
    /\ Iterate
    /\ jobs' = Append(jobs, [index |-> i + 1, start |-> start, end |-> RangeEnd])
    /\ UNCHANGED <<records, results, doing, ordered, joined, forecast, training, test>>

Take(w) ==
    /\ doing[w] = None
    /\ jobs # <<>>
    /\ doing' = [doing EXCEPT ![w] = Head(jobs)]
    /\ jobs' = Tail(jobs)
    /\ UNCHANGED <<vars, records, results, ordered, joined, forecast, training, test>>

Deliver(w) ==
    /\ doing[w] # None
    /\ Len(results) < count
    /\ results' = Append(results, [index |-> doing[w].index, records |-> Windows(doing[w])])
    /\ doing' = [doing EXCEPT ![w] = None]
    /\ UNCHANGED <<vars, records, jobs, ordered, joined, forecast, training, test>>

\* Once every range is sent, the main goroutine reads the results, in any order ...
Collect ==
    /\ Returned
    /\ results # <<>>
    /\ ordered' = [ordered EXCEPT ![Head(results).index] = Head(results).records]
    /\ results' = Tail(results)
    /\ UNCHANGED <<vars, records, jobs, doing, joined, forecast, training, test>>

PoolDone_Bug ==                                 \* waits for a window of every range
    Returned /\ jobs = <<>> /\ \A k \in Workers : ordered[k] # <<>>
PoolDone ==
    Returned /\ jobs = <<>> /\ results = <<>> /\ \A w \in Workers : doing[w] = None

\* ... and joins them in the order of the ranges when the workers have gone.
Join ==
    /\ PoolDone
    /\ joined < count
    /\ forecast' = forecast \o ordered[joined + 1]
    /\ joined' = joined + 1
    /\ UNCHANGED <<vars, records, jobs, results, doing, ordered, training, test>>

\* splitForecastTrainTest: the first 80 % of the windows, at least one on either side.
Cut(n) == LET cut == (n * 8) \div 10
          IN  IF n < 2 THEN n ELSE IF cut < 1 THEN 1 ELSE IF cut >= n THEN n - 1 ELSE cut

Split ==
    /\ joined = count
    /\ training = None
    /\ LET n == Len(forecast)
       IN  /\ training' = SubSeq(forecast, 1, Cut(n))
           /\ test' = SubSeq(forecast, Cut(n) + 1, n)
    /\ UNCHANGED <<vars, records, jobs, results, doing, ordered, joined, forecast>>

Work(w) == Take(w) \/ Deliver(w)

BuildNext == Send \/ (\E w \in Workers : Work(w)) \/ Collect \/ Join \/ Split

BuildSpec == BuildInit /\ [][BuildNext]_buildVars

(* Every goroutine that can run does run.                                   *)
FairBuildSpec ==
    /\ BuildSpec
    /\ WF_buildVars(Send) /\ WF_buildVars(Collect) /\ WF_buildVars(Join) /\ WF_buildVars(Split)
    /\ \A w \in 1 .. MaxCount : WF_buildVars(w \in Workers /\ Work(w))

-----------------------------------------------------------------------------
(* Properties.                                                              *)

Done == training # None

\* The anchors of all windows that the rows allow.
Anchors ==
    {a \in FirstAnchor .. LastAnchorExclusive - 1 :
        (a - FirstAnchor) % Stride = 0 /\ Unbroken(a)}

\* forecast.go:24-90, ml.go:25-40: with any number of workers and in whatever order they
\* finish, the windows are those of a sequential pass (each anchor once, in order of time,
\* none across a gap), and each goes either to the training or to the test set, which is
\* not empty if there are two.
WindowsAreExact ==
    Done => /\ \A j, k \in DOMAIN forecast : j < k => forecast[j].anchor < forecast[k].anchor
            /\ {forecast[k].anchor : k \in DOMAIN forecast} = Anchors
            /\ training \o test = forecast
            /\ Cardinality(Anchors) >= 2 => training # <<>> /\ test # <<>>

\* forecast.go:45-83: the main goroutine, which reads no result before it has sent every
\* range, and the workers, which send theirs meanwhile, never wait for one another.
BuildReturns == <>Done

\* docs/EXPLICACION_PROCESO.md:43-44: the test set is of a later time than the training set,
\* and future records are not mixed with the past: no row that decides a training window
\* comes after the present of a test window.
TestIsUnseen ==
    Done => \A j \in DOMAIN training, k \in DOMAIN test :
                FutureEnd(training[j].anchor) <= test[k].anchor
=============================================================================
