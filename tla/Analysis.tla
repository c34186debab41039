------------------------------ MODULE Analysis ------------------------------
(***************************************************************************)
(* What LoadData computes from the rows and the windows of Datasets: the   *)
(* demand by hour and by day and hour, and the evaluation of the initial   *)
(* model with the choice of its decision threshold.  And what the API does *)
(* with the former: it takes its historical rates from the report and      *)
(* describes with them the readings of a request to the model.             *)
(*                                                                         *)
(* A probability is the number of thresholds that it reaches; which ones   *)
(* the trained weights give is left open.  Ratios are exact fractions, in  *)
(* place of floating point numbers; the loss is left out.                  *)
(***************************************************************************)
EXTENDS Datasets

CONSTANTS
    Thresholds,     \* how many thresholds are tried: 10 in the code
    Location,       \* s.location, as its distance from UTC, in minutes; it has no summer time
    Zones           \* the distances from UTC that clients write times with

ASSUME ThresholdsAssumption == Thresholds \in Nat \ {0}
ASSUME ZonesAssumption == Location \in Int /\ Zones \subseteq Int

-----------------------------------------------------------------------------
(* Demand.                                                                  *)

\* aggregateBy and aggregateByCombination; group gives the group of every row.
aggregateBy(rows, group) ==
    {LET tally == Tally({k \in rows : group[k] = g})
     IN  [group |-> g, records |-> tally.total, high |-> tally.high] : g \in {group[k] : k \in rows}}

Hourly == aggregateBy(RowNumbers, HourOf)
DayHour == aggregateBy(RowNumbers, DayHourOf)

\* loadHistoricalRates: hours and days are read back from the names that the report has for
\* them, and a group that it does not name has rate 0.
HistoricalRate(report, group) ==
    IF \E a \in report : a.group = group
    THEN LET a == CHOOSE a \in report : a.group = group
         IN  [high |-> a.high, total |-> a.records]
    ELSE [high |-> 0, total |-> 0]

-----------------------------------------------------------------------------
(* Requests.  A reading is sent with its time as somebody writes it, the    *)
(* zone of that clock, and its power.                                       *)

Instant(reading) == reading.written - reading.zone

Local_Bug(reading) == reading.written               \* without In(s.location)
Local(reading) == Instant(reading) + Location

\* buildForecastFeatures, or None when it refuses the readings.
ServedFeatures(readings) ==
    LET n == Len(readings)
        sum == SumFunction([k \in 1 .. n |-> readings[k].power])
        latest == Calendar(Local(readings[n]))
    IN  IF \/ n # History
           \/ \E k \in 1 .. n : readings[k].power < 0
           \/ \E k \in 2 .. n : Instant(readings[k]) # Instant(readings[k - 1]) + 1
        THEN None
        ELSE [features |->
                [current |-> readings[n].power, sum |-> sum,
                 max |-> Max({readings[k].power : k \in 1 .. n}),
                 variance |-> SumFunction([k \in 1 .. n |-> Square(n * readings[k].power - sum)]),
                 trend |-> readings[n].power - readings[1].power,
                 calendar |-> latest],
              rates |->
                [hour |-> HistoricalRate(Hourly, latest.hour),
                 dayHour |-> HistoricalRate(DayHour, <<latest.day, latest.hour>>)]]

-----------------------------------------------------------------------------
(* Evaluation.                                                              *)

\* What a goroutine counts in its part of the windows; p is the probability of each.
Counts(windows, p, threshold, part) ==
    LET rows == part.start + 1 .. part.end
        Class(k) == p[k] >= threshold
        Number(class, label) ==
            Cardinality({k \in rows : Class(k) = class /\ windows[k].label = label})
    IN  [tp |-> Number(TRUE, TRUE), tn |-> Number(FALSE, FALSE),
         fp |-> Number(TRUE, FALSE), fn |-> Number(FALSE, TRUE)]

\* computeForecastMetricsParallel, until the sums are complete: the order in which the parts
\* arrive does not matter to them.
Total(windows, p, threshold, workers) ==
    LET parts == Shards(Len(windows), workers)
        Of(k) == Counts(windows, p, threshold, parts[k])
        Sum(figure) == SumFunction([k \in DOMAIN parts |-> Of(k)[figure]])
    IN  IF windows = <<>> THEN [tp |-> 0, tn |-> 0, fp |-> 0, fn |-> 0]
        ELSE [tp |-> Sum("tp"), tn |-> Sum("tn"), fp |-> Sum("fp"), fn |-> Sum("fn")]

\* safeRatio and safeFloatRatio: a fraction, 0 when it would divide by 0
Ratio(n, d) == IF d = 0 THEN <<0, 1>> ELSE <<n, d>>
Times(a, b) == <<a[1] * b[1], a[2] * b[2]>>
Plus(a, b) == <<a[1] * b[2] + b[1] * a[2], a[2] * b[2]>>
Over(a, b) == Ratio(a[1] * b[2], a[2] * b[1])
Less(a, b) == a[1] * b[2] < b[1] * a[2]

Precision(c) == Ratio(c.tp, c.tp + c.fp)
Recall(c) == Ratio(c.tp, c.tp + c.fn)
f2(c) == Over(Times(<<5, 1>>, Times(Precision(c), Recall(c))),
              Plus(Times(<<4, 1>>, Precision(c)), Recall(c)))

\* chooseDecisionThreshold: the loop from the lowest threshold to the highest
Improves_Bug(best, score) == ~Less(score, best)             \* >=
Improves(best, score) == Less(best, score)

chooseDecisionThreshold(windows, p, workers) ==
    LET best[t \in 0 .. Thresholds] ==
            IF t = 0 THEN [threshold |-> 0, f2 |-> <<-1, 1>>]
            ELSE LET score == f2(Total(windows, p, t, workers))
                 IN  IF Improves(best[t - 1].f2, score) THEN [threshold |-> t, f2 |-> score]
                                                        ELSE best[t - 1]
    IN  best[Thresholds].threshold

-----------------------------------------------------------------------------
(* Properties.                                                              *)

\* F2 from one sequential count, with recall weighing four times as much as precision.
F2(windows, p, t) ==
    LET c == Counts(windows, p, t, [start |-> 0, end |-> Len(windows)])
    IN  Ratio(5 * c.tp, 5 * c.tp + 4 * c.fn + c.fp)

\* dataset/ml.go:97-166: whatever the model predicts for the training windows and however
\* many goroutines count, the threshold is one of those tried, none has a better F2, and
\* among the best it is the lowest, also where a ratio would divide by zero.
ThresholdIsBest ==
    Done => \A p \in [DOMAIN training -> 0 .. Thresholds], w \in 1 .. MaxCount :
                LET t == chooseDecisionThreshold(training, p, w)
                IN  /\ t \in 1 .. Thresholds
                    /\ \A s \in 1 .. Thresholds :
                        LET better == F2(training, p, s)
                            chosen == F2(training, p, t)
                        IN  ~Less(chosen, better) /\ (s < t => Less(better, chosen))

\* The readings of a window, sent with the times of a clock in some zone: the minutes of the
\* rows are the local time where the API takes the house to be.
Request(anchor, zone) ==
    [j \in 1 .. History |->
        LET row == Row(HistoryStart(anchor) + j - 1)
        IN  [written |-> row.minute - Location + zone, zone |-> zone, power |-> row.power]]

\* server.go:271-315 and 371-395, forecast.go:92-171, transform.go:25-28, analyze.go:234-270:
\* whatever zone a request is written in, the API describes the last readings of a window to
\* the model as the ETL described them, hour, day and month included, and accepts them; and
\* the rates it adds are those of the same groups, as the ETL would count them in all rows.
ServedLikeTrained ==
    Done => \A k \in DOMAIN forecast, zone \in Zones :
                LET a == forecast[k].anchor
                IN  ServedFeatures(Request(a, zone)) =
                        [features |-> forecast[k].features, rates |-> Rates(Len(records), a)]

\* docs/EXPLICACION_PROCESO.md:44-45: the historical rates used as features are computed from
\* the initial part of the dataset, those that the API describes a request with included.
SameRate(r, s) ==
    LET a == Ratio(r.high, r.total)
        b == Ratio(s.high, s.total)
    IN  ~Less(a, b) /\ ~Less(b, a)
RatesAreOfTheInitialPart ==
    Done => \A k \in DOMAIN forecast :
                LET trained == forecast[k].rates
                    served == ServedFeatures(Request(forecast[k].anchor, Location)).rates
                IN  SameRate(served.hour, trained.hour) /\ SameRate(served.dayHour, trained.dayHour)

\* docs/EXPLICACION_PROCESO.md:43-45: the document says both of every dataset, that the test set
\* is of a later time and that the rates are of the initial part.  Less than that is stated
\* here, that one of the two is true, so that what violates it refutes both.
FutureIsKeptApart == TestIsUnseen \/ RatesAreOfTheInitialPart
=============================================================================
