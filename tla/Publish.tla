------------------------------ MODULE Publish -------------------------------
(***************************************************************************)
(* The files that a run of the ETL leaves in data/processed and the        *)
(* processes that read them while it may be running again.  LoadData       *)
(* writes its outputs one after the other, in place, and returns at the    *)
(* first error; the API reads the initial model and the report when it     *)
(* starts, and the report again for its clients, through the cache; a      *)
(* worker reads the training windows when a training first needs them.     *)
(*                                                                         *)
(* The content of a file is the number of the run that wrote it and        *)
(* whether it is all there.  A JSON document cut short is not JSON; a CSV  *)
(* file cut between two rows is a shorter CSV file.                        *)
(***************************************************************************)
EXTENDS Integers, Sequences

CONSTANTS MaxRuns, None         \* MaxRuns: bound on the runs of the ETL

ASSUME MaxRunsAssumption == MaxRuns \in Nat

VARIABLES
    disk,       \* output -> its content, or None
    run,        \* the runs of the ETL so far
    next,       \* the output it writes, or 0: it is not running
    rates,      \* run whose report the API took its historical rates from; None: it is down
    cached,     \* run whose report is in Redis, or None
    held,       \* run of the report that a request has read and not yet cached, or None
    rows        \* what a worker holds in memory, or None

vars == <<disk, run, next, rates, cached, held, rows>>

\* The outputs in the order LoadData writes them ("demand" is six files of aggregates).
Outputs_Bug ==                                  \* the model first
    <<"processed_data", "demand", "sustainability_report", "forecast_model",
      "forecast_training", "forecast_test", "pipeline_metrics">>
Outputs ==
    <<"processed_data", "demand", "sustainability_report", "forecast_training",
      "forecast_test", "forecast_model", "pipeline_metrics">>

Names == {Outputs[k] : k \in DOMAIN Outputs}
Documents == {"sustainability_report", "forecast_model", "pipeline_metrics"}
Contents == [run : 1 .. MaxRuns, part : {"torn", "short", "whole"}]

ASSUME NoneAssumption == None \notin Contents

TypeOK ==
    /\ disk \in [Names -> Contents \cup {None}]
    /\ run \in 0 .. MaxRuns
    /\ next \in 0 .. Len(Outputs)
    /\ rates \in 0 .. MaxRuns \cup {None}
    /\ cached \in 1 .. MaxRuns \cup {None}
    /\ held \in 1 .. MaxRuns \cup {None}
    /\ rows \in Contents \cup {None}

Init ==
    /\ disk = [name \in Names |-> None]
    /\ run = 0 /\ next = 0
    /\ rates = None /\ cached = None /\ held = None /\ rows = None

Whole(name) == disk[name] # None /\ disk[name].part = "whole"

-----------------------------------------------------------------------------
(* LoadData, after it has loaded the raw file (Ingest).                     *)

Running == next # 0
Current == Outputs[next]
Written(part) == disk' = [disk EXCEPT ![Current] = [run |-> run, part |-> part]]
Opened == disk[Current] # None /\ disk[Current].run = run

StartRun ==
    /\ ~Running
    /\ run < MaxRuns
    /\ run' = run + 1
    /\ next' = 1
    /\ UNCHANGED <<disk, rates, cached, held, rows>>

\* os.Create empties the file ...
Create ==
    /\ Running
    /\ ~Opened
    /\ Written("torn")
    /\ UNCHANGED <<run, next, rates, cached, held, rows>>

\* ... a buffer goes to disk, which may end with a row ...
WriteSome ==
    /\ Running
    /\ Opened
    /\ Current \notin Documents
    /\ Written("short") \/ Written("torn")
    /\ UNCHANGED <<run, next, rates, cached, held, rows>>

\* ... and the last one does.
Finish ==
    /\ Running
    /\ Opened
    /\ Written("whole")
    /\ next' = IF next = Len(Outputs) THEN 0 ELSE next + 1
    /\ UNCHANGED <<run, rates, cached, held, rows>>

\* Creating or writing a file fails and LoadData returns, or the process ends.
Abort_Bug ==                                    \* the error is printed, and the next stage runs
    /\ Running
    /\ next' = IF next = Len(Outputs) THEN 0 ELSE next + 1
    /\ UNCHANGED <<disk, run, rates, cached, held, rows>>
Abort ==
    /\ Running
    /\ next' = 0
    /\ UNCHANGED <<disk, run, rates, cached, held, rows>>

-----------------------------------------------------------------------------
(* The API and a worker.                                                    *)

\* main loads the model (LoadModel) and gives up without it; loadHistoricalRates takes the
\* rates of the report, or none.
Boot ==
    /\ rates = None
    /\ Whole("forecast_model")
    /\ rates' = IF Whole("sustainability_report") THEN disk["sustainability_report"].run ELSE 0
    /\ UNCHANGED <<disk, run, next, cached, held, rows>>

Stop ==
    /\ rates # None
    /\ rates' = None
    /\ held' = None
    /\ UNCHANGED <<disk, run, next, cached, rows>>

\* getSustainabilityReport, when the cache has nothing: the file is read and decoded ...
Decodes == Whole("sustainability_report")

ReadReport ==
    /\ rates # None /\ held = None
    /\ cached = None
    /\ Decodes
    /\ held' = disk["sustainability_report"].run
    /\ UNCHANGED <<disk, run, next, rates, cached, rows>>

\* ... and put into the cache, whatever has happened to the file or to the cache in the
\* meantime, unless Redis refuses.
AnswerReport ==
    /\ held # None
    /\ cached' \in {cached, held}
    /\ held' = None
    /\ UNCHANGED <<disk, run, next, rates, rows>>

Expire_Bug == FALSE /\ UNCHANGED vars           \* SetJSON without a ttl
Expire ==
    /\ cached # None
    /\ cached' = None
    /\ UNCHANGED <<disk, run, next, rates, held, rows>>

\* loadRecords with LoadCSVRange: what is read without an error is kept, for as long as the
\* connection to the coordinator lasts.
LoadRows ==
    /\ rows = None
    /\ disk["forecast_training"] # None
    /\ disk["forecast_training"].part # "torn"
    /\ rows' = disk["forecast_training"]
    /\ UNCHANGED <<disk, run, next, rates, cached, held>>

Reconnect ==
    /\ rows # None
    /\ rows' = None
    /\ UNCHANGED <<disk, run, next, rates, cached, held>>

Next ==
    \/ StartRun \/ Create \/ WriteSome \/ Finish \/ Abort
    \/ Boot \/ Stop \/ ReadReport \/ AnswerReport \/ Expire
    \/ LoadRows \/ Reconnect

Spec == Init /\ [][Next]_vars

(* A handler that can run does run, and a key of Redis with a ttl expires.  *)
(* Nobody has to run the ETL, to keep it running, or to ask for reports.    *)
FairSpec == Spec /\ WF_vars(AnswerReport) /\ WF_vars(Expire)

-----------------------------------------------------------------------------
(* Properties.                                                              *)

RunOf(name) == IF disk[name] = None THEN 0 ELSE disk[name].run

\* load.go:149-175: at whatever moment a run stops, the initial model on disk is never of a
\* later run than the windows it was trained and tested on; the API cannot start with a
\* model whose data do not exist yet.
DataNotBehindModel ==
    RunOf("forecast_model") <= RunOf("forecast_test")
        /\ RunOf("forecast_test") <= RunOf("forecast_training")

\* load.go:176-180, server.go:634-664: the metrics of a run, which the API shows as those of
\* the data in use, stand for a complete set of files: as long as no other run has begun,
\* every output is whole and of the same run.
MetricsMeanComplete ==
    Whole("pipeline_metrics") /\ RunOf("pipeline_metrics") = run
        => \A name \in Names : Whole(name) /\ RunOf(name) = run

\* server.go:561-578: a request that read the report before a run replaced it may put the
\* old one into the cache after that; once runs have ceased the old report is gone from the
\* cache in the end, and no report that was cut short ever stays there.
Settled == ~Running /\ run = MaxRuns
StaleReportExpires ==
    Settled ~> [](cached # None => Whole("sustainability_report")
                                      /\ cached = RunOf("sustainability_report"))
=============================================================================
