# TLA+ verification of PowerSight

PowerSight forecasts high electricity consumption. It is a small distributed
machine-learning system in Go: a **coordinator** inside the API process keeps
one TCP connection per **worker** (`cmd/ml-node`), trains a logistic regression
on them and spreads predictions over them; the **API** keeps models, training
runs and forecasts in MongoDB, caches in Redis and pushes events to browsers; an
**ETL** program turns the raw measurements into windows, an initial model and
reports. This directory holds models of the parts where interleavings, failures
and restarts decide whether the system is right, the TLC runs that check them
and TLAPS proofs of the most important results. Line numbers in the modules and
below refer to the files of the repository.

To check a run: `tlc -config <cfg> <MC module>.tla` (the table under *Runs*). To
check the proofs: `tlapm <module>_proofs.tla`.

## Inventory

| component | state it keeps | operations | interacts through |
|---|---|---|---|
| One worker connection, `internal/cluster/coordinator.go` (`nodeClient`, `call`, `send`, readLoop) and `cmd/ml-node/main.go` (`run`, `handle`) | `requestSequence`, `pending`, a channel per call, `writeMu`, `closed`, the socket | `call`, `send`, `removePending`, readLoop, ack of the registration, `close`; the worker decodes, starts a goroutine per message, replies | `call` is used by heartbeats, predictions and shards |
| Node registry, same file (`Coordinator`) | `nodes` under `mu`, each client's status and missed heartbeats | `registerConnection`, `markDisconnected`, `heartbeatLoop`, `Close` | `healthyNodes` and `snapshotNodes` give the other parts a snapshot |
| Distributed training, same file (`Train`, `computeShard`) | weights, one gradient per shard | dataset size, epochs of shards with reassignment, aggregation | snapshot per epoch, one call per attempt |
| Division of rows (`splitRanges`, `ComputeGradientConcurrent`, the ETL's `buildIndexJobs`) | local | the same loop three times | training, workers, ETL |
| Training runs and active model, `internal/api/server.go`, `internal/store/mongo.go` | `Server.training`, `Server.activeModel`; collections `models`, `training_runs` | `createTraining`, `runTraining`, `CompleteTraining` (four writes), `FailTraining`, `EnsureInitialModel` | one goroutine per run calls `Train` |
| Prediction balancing (`Predict`) | `rr` | round robin with failover over a snapshot | one call per attempt |
| Forecasts, cache, persistence queue, `server.go`, `internal/cache/redis.go` | `activeModel` behind a lock, Redis entries, `persistQueue` | `forecast`, `enqueuePersistence`, `persistenceWorker` | Redis, MongoDB, `Predict` |
| Realtime hub, `internal/realtime/hub.go` | `clients` under `mu`; per client `writeMu` and the connection | `ServeHTTP` with its reading goroutine, `Broadcast` | forecasts and cluster events broadcast in goroutines of their own, trainings in the goroutine of the run |
| ETL: loading, `data-load/internal/dataset/load.go` | channels of jobs and results, chunks in order | byte ranges, a pool that reads lines, merge | the raw file |
| ETL: windows, `forecast.go`, `ml.go` | the same for index ranges | anchors, windows, training and test set | the clean rows; `SplitRanges` is its loop |
| ETL: analysis and files, `analyze.go`, `ml.go`, `write.go`, `LoadData` | files in `data/processed` | demand by group, evaluation, decision threshold, seven outputs in order | the API reads the model and the report, workers the training windows |
| Users and authentication, `internal/auth/jwt.go`, `mongo.go`, `server.go` | `users`, `forecasts` in MongoDB; tokens at the clients | `register`, `login`, `EnsureAdminUser`, `createForecast`, `listForecasts` | the unique index on `username` |
| Dashboards and read-only queries | the report in Redis | `getSustainabilityReport`, `getPipelineMetrics`, `getAdminMetrics` | files of the ETL |
| Worker arithmetic `pkg/ml`, wire protocol `pkg/protocol`, frontend, notebook, deployment | - | - | - |

What is hard, and what makes each part correct:

* **Connection.** Late answers race timeouts, cancellations and closes, and the
  readLoop takes a channel out of `pending` before it sends. Correct: a reply
  reaches the call it answers and no other, the only reader never blocks,
  nothing stays in `pending`, every call returns, and closing the node sets all
  callers free, even those queued behind a writer blocked in `Flush`.
* **Registry.** A node that reconnects overlaps with its old connection's
  readLoop, its disconnection and a heartbeat in flight. Correct: one open
  client per node, replaced clients change nothing any more, dead ones leave the
  balancer for good, slow ones come back.
* **Training.** Shards move between workers while nodes leave and join and while
  files may differ in length. Correct: what comes out is full-batch gradient
  descent over every row once per epoch, or an error; no goroutine of an epoch
  survives it; training ends, and if a worker with all the rows stays up it
  succeeds, unless the worker that answers first has an empty file.
* **Models and runs.** The switch of the active model is four database writes,
  any of which may fail, with or without effect, or be cut off by a restart.
  Correct: one training at a time, one active model, a served model that is
  stored and active, no run completed too early, a slot that is always given
  back.
* **Forecasts and balancing.** The model is swapped while a request is under
  way, cache entries outlive models, requests and processes, the round robin
  counter runs round a list that changes, and the queue to the database fills
  up. Correct: a record names the model that computed its probability, a request
  is refused only if no worker could answer, and an answered forecast is stored
  once unless the database or the process fails.
* **Hub.** A broadcast writes to a copied list while clients stop reading, leave
  and are removed by others, and a greeting without deadline may hold the lock.
  Correct: a client's failure costs no other client an event, dead connections
  are forgotten, and a broadcast, behind which a training may wait, returns.
* **ETL.** Byte ranges are cut through lines, results come in any order, ranges
  can be unreadable, the main goroutine sends all jobs before it reads a result.
  Correct: with any number of workers the result is that of a sequential pass,
  and nobody waits for ever. What the API computes from the readings of a
  request must be what the ETL computed for the model, by other code.
* **Files.** A run of the ETL may stop between any two writes while the API and
  workers read. Correct: the model is not ahead of its data, the metrics stand
  for a complete set, an old report does not stay in the cache.
* **Accounts.** Registrations of one name race, are repeated after a lost answer
  and are spelled differently; tokens outlive the roles they name. Correct: one
  account behind a token, queries that return its own history and no other, no
  administrator nobody appointed.

`PROJECT.json` lists the hazards line by line with the properties that cover
them, and says for the others why no property does.

## Modules

| module | models | notes |
|---|---|---|
| `CallContract` | what `call` promises its callers | abstract; implemented by `NodeRpc` |
| `NodeRpc` | one connection, with all its goroutines and the worker at the other end | `Contract` instance states the refinement |
| `NodeRpc_proofs` | | safety of `NodeRpc`, and the refinement |
| `Registry` | the table of nodes, heartbeats, shutdown | a call is one step with an answer or a failure, by the contract |
| `Registry_proofs` | | safety of `Registry` |
| `Shards` | the division of rows in closed form | operators only |
| `SplitRanges` | the loop of `splitRanges`, one iteration per step | shown equal to `Shards` |
| `BatchDescent` | what `Train` promises | abstract; implemented by `Training` |
| `Training` | `Train` and `computeShard` with a goroutine per shard | uses `Shards`, and calls by their contract |
| `Training_proofs` | | safety of `Training`, with the partition of the rows, and the refinement |
| `ModelLifecycle` | `createTraining`, `runTraining`, the writes of `CompleteTraining`, the boot, restarts | `Train` is one action with two outcomes |
| `ModelLifecycle_proofs` | | safety of `ModelLifecycle` |
| `Forecasts` | a forecast from the request to the stored record: active model, cache, `Predict`, persistence | an answer of a worker is one step; the swap of the model too |
| `Forecasts_proofs` | | safety of `Forecasts` |
| `Hub` | `ServeHTTP` and `Broadcast` on connections whose sockets fill up | |
| `Accounts` | users, tokens, roles and the history of forecasts that the two queries return | a handler is one step: each reads or writes the database once |
| `Clients_proofs` | | safety of `Hub` and of `Accounts` |
| `Ingest` | `LoadData`'s first stage: byte ranges, `loadChunk`, the pool, the merge | |
| `Datasets` | `buildForecastRecords`, its pool and windows; the split | extends `SplitRanges`, whose steps send the jobs |
| `Analysis` | `aggregateBy` and `aggregateByCombination`, `loadHistoricalRates` and `buildForecastFeatures` of the API, evaluation, `chooseDecisionThreshold` | operators over the results of `Datasets` |
| `Datasets_proofs` | | the loop of `SplitRanges`, safety of `Datasets` and `Analysis` |
| `Publish` | the outputs of `LoadData` on disk, and their readers | |
| `Files_proofs` | | safety of `Publish` and of `Ingest` |

The `MC*` modules add symmetry sets and bounds, nothing else. Names ending in
`_Bug` are deliberately wrong variants of the definition below them; the
`mutants` of `PROJECT.json` put them in its place to see that the property
notices.

**How the layers fit.** `NodeRpc` implements `CallContract`: an answer is the
worker's own answer to that very request, an error says nothing about the
worker. `Registry` and `Training` see calls only in that way: `HbAnswered` or
`HbFailed`, `ShardAnswered` or `ShardFails`. What `Training` takes from
`Registry` is that a snapshot holds some set of nodes and always those that stay
healthy. `ModelLifecycle` takes from `Training` that `Train` returns
(`TrainReturns`), with a model or an error. `Forecasts` sees calls as `Training`
does (`NodeAnswers`, `NodeFails`), takes snapshots from `Registry` and, from
`ModelLifecycle`, that the active model only ever moves on to a newer version
(`SwapModel`). Its `Enqueue` also starts a broadcast, which is one of the
`Broadcasts` of `Hub`; that a training run goes on after its events rests on
`BroadcastReturns`.

The stages of the ETL follow one another. `Datasets` starts from rows in order
of time, which is what `LoadIsExact` promises of `Ingest`. Its next-state
relation conjoins the step of `SplitRanges` (`Send` is `Iterate` and the sending
of the range), so what `Datasets_proofs` proves of the loop holds of the loop
that runs here. `Analysis` is about the final states of `Datasets` and uses
`Shards` for the parts of a parallel count. `Publish` takes what is computed as
given and models when it is on disk. Its short training windows are the workers
with fewer rows of `Training`, and its `Boot` precedes that of `ModelLifecycle`,
where a model file is there.

### Correspondence with the code

*NodeRpc.* Each `call` is a thread with the counter `pc`: draw the id and enter
`pending` (`Register`), take `writeMu` (`LockWriter`), write or fail to
(`Write`, `WriteFails`), wait in the `select` (`Receive`, `Disconnected`,
`GiveUp` for the timer and the caller's context). The registration goroutine
first sends the ack (`AckLock`, `AckWrite`) and then is the readLoop, whose
removal from `pending` and whose send are two steps (`ReaderTakes`,
`ReaderDelivers`), because the code releases `pendingMu` in between. On its way
out it closes every channel left (`ReaderCloses`). The node is in the table
before the ack is sent (coordinator.go:179-187), so a request can be the first
message the worker reads; the worker takes it for the ack (`WorkerTakesAck`). A
message is its id, a reply `[id, ok]`. Messages in flight when the link is lost
are dropped; of the replies any prefix still arrives.

*Registry.* A connection goes through `Dial`, `Publish` (or `Reject`),
`StartReading`, `ReadFails`, `MarkDisconnected`, one action per critical section
of `mu`. The heartbeat loop is one thread: it takes a snapshot (`HbTick`), calls
one node after the other (`HbCall`, then `HbAnswered` or `HbFailed`) and applies
the result under the lock if the client is still current (`HbApply`). Between
the call and its application everything may happen.

*Training.* `Begin` to `InitFailed` find out the number of rows; `StartEpoch`
takes a new snapshot and splits; each shard's goroutine is a record in `jobs`
(`ShardStarts`, `ShardAnswered`, `ShardFails`); `Apply` and `GiveUp` come after
the barrier. A gradient is abstracted to where it came from, its range and the
weights it was computed at; the weights are the number of steps taken. Which
workers are `steady` and how long each one's `dataset` is are chosen at the
start and never change; a file may be empty. While the size of the dataset is
asked for, `nodes` are the workers not asked yet, and then the one that told it.
A worker that is not steady may fail any call and be
absent from any snapshot.

*ModelLifecycle.* `docs` and `active` are the `models` collection, `runs` the
`training_runs` collection; they survive `Crash`, the rest does not. Each
database call is one step that succeeds or, as a bounded `Fault`, returns an
error with or without having had its effect. `Legacy` is an active model of an
older release with another target, which `EnsureInitialModel` demotes.

*Forecasts.* A request is a thread with the counter `stage`: copy the active
model (`ReadModel`), look in Redis (`CacheHit`, `CacheMiss`; a read that fails
is a miss), take a snapshot and draw from the round robin (`NoNodes`,
`PickStart`), ask one worker after the other (`NodeAnswers`, `NodeFails`), write
the cache, which may fail silently (`CacheSet`), and build the record, hand it
to persistence and answer (`Enqueue`). A full queue makes a goroutine of its own
(`overflow`). `PersistTake` and `PersistSave` are the worker of the queue,
`OverflowSave` those goroutines. A prediction is abstracted to what it was
computed from, the model and the features; locals are reset when their function
returns. An entry may `Expire` at any time, a client may leave, and `Stop` ends
the process with what its queue holds. Left out are requests with invalid
readings, which are refused first; a cached value that cannot be decoded, since
only this program writes them; equal record ids, which come from the nanosecond
clock; and the round robin counter turning negative as an `int`, which takes
2^63 predictions (coordinator.go:257).

*Hub.* `serve` is where `ServeHTTP` and then its goroutine are (`Register`,
`GreetLock`, `Greet`, `ReadFails`), `step` where a broadcast is (`Copy`, `Turn`,
`Lock`, `Write`, `Drop`); `todo` is what is left of the copied list, in any
order, as the list comes from a map. A socket holds `Capacity` unread messages;
a write into a full one waits, and fails once a deadline is set. Deadlines
belong to the connection: one that a broadcast sets is still there for the next
writer. As in the WebSocket library, a connection on which a write failed
refuses all later writes.

*Accounts.* A user name is a name and a spelling; `normalizeUsername` forgets
the spelling. `CreateUser` is `InsertOne` under the unique index;
`RegisterUnanswered` is a registration whose answer is lost. `typed` and
`password` in tokens and forecasts only record who asked. `HistoryOf` is what
`listForecasts` and `getForecast` find for a token.

*Ingest.* A file is a sequence of bytes that are line ends or say what kind of
line they are in; every file up to a length is an initial state. `Take`,
`ReadLine` and `Deliver` are a worker (`Begin` is the search for its first
line), `Fail` a range that cannot be read, `Collect` and `Merge` the main
goroutine.

*Datasets.* `Send`, `Take`, `Deliver`, `Collect`, `Join`, `Split`. A window is
built in one step, since building only reads `records`. Rows have a minute and a
power; averages are sums, variances are sums of squares, scaled by the constant
length of the history. A row's minute is on the clock that the file was written
by: `parse.go:16` reads it without a zone. `Calendar` makes the hour, the day of
the week and the month of it. The times in a request have a zone; `Instant` is
what is compared, `Local` the conversion `ObservedAt.In(s.location)`
(server.go:302), of which the API takes hour, day and month. `Location` has one
distance from UTC all year, as the default does, America/Lima. The demand by
hour and by day and hour goes through the report, which names hours and days,
and is looked up by what these names are read back as. `Cut` computes 80 % as
`(n * 8) \div 10`; the code rounds `float64(n) * 0.8`, which gives the same
number for all tables of up to three million windows.

*Publish.* A file is the run that wrote it and whether it is `torn`, `short` or
`whole`. `Create`, `WriteSome` and `Finish` are what a reader can see of one
output; the six demand files count as one. `Abort` is an error or the end of the
process. `ReadReport` and `AnswerReport` are the two halves of a request for the
report between which a run may replace it.

## Runs

A run checks the safety and the liveness of a component together.

| run | instance | what it shows |
|---|---|---|
| `rpc` | 2 calls, a window of 1 message | replies reach the right caller (`ReplyIsMine`), the reader never blocks or sends on a closed channel, no entry leaks, the reply of a waiting call is in exactly one place, the connection implements `CallContract`, every call returns, and closing the node releases its callers without a timer |
| `registry` | 2 nodes, 2 connections, limit of 2 missed heartbeats | one open client per node, dead clients leave the balancer, nodes that answer again are taken back |
| `training` | 3 workers, datasets of 0 to 4 rows each, 2 epochs | every step is a full-batch step (`ImplementsBatchDescent`), no stragglers, `Train` returns, and succeeds if a steady node has all the rows, unless it was told the size of an empty file |
| `lifecycle` | 3 runs, 3 faults | one training at a time, one active model which the API serves, completed only when active; the slot is given back, runs end unless a database call failed |
| `forecast` | 2 requests, 2 feature vectors, 2 models, 2 workers, a queue of 1, 1 fault | records name their models, a steady worker serves whatever the snapshot, a record is in one place between answer and database; requests return; what was answered is stored |
| `hub` | 2 clients, 2 broadcasts, sockets of 1 message, 1 loss at a time | `NobodyElseMisses`, `DeadAreForgotten`, `BroadcastReturns` |
| `accounts` | 2 names in 2 spellings, 2 passwords | a token stands for one account and the queries return its history; administrators are appointed, old roles expire |
| `ingest` | every file of up to 5 bytes, up to 3 workers | every readable line is loaded once, in order, and counted once; the pool ends |
| `datasets` | tables of 6 to 12 rows with a gap and a peak, up to 3 workers, 3 thresholds, requests in 2 zones | the division covers each anchor once, windows are those of a sequential pass, the API describes readings as the ETL did, calendar included, the threshold has the best F2; the pool ends |
| `publish` | 3 runs of the ETL | the model is not ahead of its data, the metrics stand for a complete set, old reports leave the cache |
| `lifecycle_boot` | 1 run, 1 fault; violation expected | the first finding below |
| `leak` | tables of up to 8 rows; violation expected | the second and the third finding below |

**Bounds and why they are enough.** Two calls are one that has timed out and one
that waits for the socket, the lock or an answer; the window of one makes
writers wait for the worker and for each other. Two connections over two nodes
give one node a replacement, or both nodes a connection; what more of them could
do is covered by the proofs, which hold for any number. The limit of two makes
the first miss different from the last. Four rows over three workers include a
remainder, more workers than rows and ranges longer than a worker's file; two
epochs let an answer of the first race the second. Three faults are enough for a
lost answer, a failed error path and a restart, which is what it takes to hide a
disagreement (see `ServedModelIsActive`); with three runs a run can follow one
that failed and one that completed. Two requests fill the queue of one and need
an overflow goroutine; two models and two vectors of features tell apart every
pair of records that could be confused. Two clients are one that fails and one
that must not notice; two broadcasts remove a client at the same time, and one
can set a deadline that the other, or the greeting, runs into. Two names, two
spellings and two passwords tell apart all accounts that could be confused. Five
bytes hold a header and two lines, and three workers then have ranges of one
byte, so that ranges begin on, after and within a line end, lines are longer
than a range and ranges hold no line. A history of three rows, a horizon of
three and a stride of two overlap as 15, 30 and 5 do; twelve rows give up to
four anchors, which three workers divide with a remainder; the gap and the peak
may be anywhere. Hours of four minutes, days of two hours, weeks of two days and
years of three months of a day each make tables cross the end of an hour and of
a day, begin a new month and a new week and come back to an hour of the day
before; the house is three minutes from UTC, so that a time taken in the wrong
zone falls into another hour, and requests are written in UTC or on the clock of
the house. Three runs of the ETL are one that stops, one that replaces it
and one that a reader confuses with them. Nothing in the models counts without a
bound: ids by the number of calls, faults by `MaxFaults`, missed heartbeats are
cut off at the limit, and `MaxLosses` bounds the clients that have left and are
not closed yet.

**Deadlock** is not checked in these runs: calls end, training returns, a closed
coordinator stops, a pool has done its work; each model has states where it is
right to do nothing more. That no one waits for ever is what the liveness
properties say.

**Fairness.** A goroutine that can run does run (weak fairness per goroutine), a
mutex and a socket with room let a waiting writer in, and a worker process that
is up goes on decoding. The goroutines of requests and of persistence are fair
in the same way; that the calls they wait for end follows from `NodeRpc` for
workers, from the client's timeouts for Redis and from the five seconds of
`persistenceWorker` for MongoDB. The insertion of an overflow goroutine has no
timeout of its own (server.go:411); that it ends is assumed. Workers owe nothing
else: they need not answer, dial or stay up. Timers of `NodeRpc` are kept apart
(`Timers`), so that `CloseReleasesCallers` holds without them and `CallReturns`
names them as its premise. `SlowNodesRecover` has its own premise: the node
answers a heartbeat again and again when asked. `Registry` and `Training` assume
that calls end, which is `CallReturns`; `ModelLifecycle` assumes that an
accepted run goes on as long as the process lives, which is `TrainReturns`,
`BroadcastReturns` and the driver's timeouts. In `Hub` a write whose deadline is
set ends (weak fairness of the broadcast and of `ServeHTTP`), while clients need
not read, leave or connect. In `Accounts` tokens expire, those of each name and
role; in `Publish` a key with a ttl expires and a handler goes on. The pools of
the ETL are fair per goroutine; that a range cannot be read is never forced.

### Properties that need a word

* `DeadClientsLeaveRotation` allows a dead client to be picked again for a
  while: a heartbeat answered before the disconnection may be recorded after it
  (coordinator.go:222). It says that this ends.
* `ServedModelIsActive` has exceptions, which the code makes necessary. One
  failed call can leave memory and database apart (the last write of
  `CompleteTraining` fails after the activation), but then the run is not
  reported completed. Two failures (that write took effect though its answer was
  lost, and `FailTraining` was not applied) can hide it.
* `OneActiveModel` leaves the model of the older release out: the result of the
  `UpdateMany` that demotes it is ignored (mongo.go:251).
* `RunsEnd` stops at the first fault: errors of `FailTraining` are ignored and
  nothing repairs runs at boot, so a run may stay `running` for ever.
* `RecordInOnePlace` and `AnsweredIsStored` promise storage only while no
  database call fails and the process lives: a failed insertion is not retried,
  and `main` does not drain the queue (`cmd/api/main.go:82-86`).
* `SteadyNodeServes` excepts requests whose client has gone: their context is
  cancelled, so every attempt fails.
* `DeadAreForgotten` holds though a connection can fail before its goroutine
  starts; a client whose writes fail but whose connection is up is only found
  out by the next broadcast, and nothing is promised for it before.
* `TrainingSurvivesFailures` has one exception, which is the code's: `Train`
  takes the first answer for the size of the dataset, and fails if it is 0
  (coordinator.go:301-318), although a steady worker may have all the rows. A
  first answer that is merely too small ends in a training over fewer rows,
  which counts as success here.
* `AccountsAreSeparate` is about the two queries. It does not say that an account
  sees no forecast of another: every record, with its `UserID`, is broadcast
  (server.go:264-267) to every client that connected to `/ws` with a valid token
  (server.go:706-713, hub.go:68-79). No document of the repository says for whom
  these events are meant, so this is not a finding.
* `ServedLikeTrained` demands equality of everything the model is given, for a
  request in any zone. For the features it is equality with the window the model
  was trained or tested with. For the rates it is equality with the ETL's own
  count over all rows, and these are not the rates in that window: see the
  third finding.
* `StaleReportExpires` lets a request put a replaced report back into the cache
  (server.go:561-578); it says that this ends after the last run, and that a
  report cut short never stays.
* `RolesCatchUp` allows a user who has become an administrator to hold tokens of
  the former role until they expire; the code knows no way to lose the role.

### Findings

`lifecycle_boot`: `CompleteTraining` deactivates all models (mongo.go:346) and
activates the new one (mongo.go:349) in two writes. If the API stops in between,
no model is active; the next boot then inserts the initial model again, whose
version is fixed (`pkg/ml/ml.go:263-269`), the unique index on `model.version`
(mongo.go:148) refuses it, and `main` ends (`cmd/api/main.go:37-40`), at this
boot and at all later ones. `BootSucceeds` states what `mongo_test.go:23-31`
expects of `EnsureInitialModel`.

`leak`: `splitForecastTrainTest` cuts the list of windows at 80 %
(dataset/ml.go:25-40) and leaves no margin. Windows are 5 minutes apart and
decided by the 30 minutes after their anchor, so the last training windows are
decided by rows that lie after the present of the first test windows.
`docs/EXPLICACION_PROCESO.md:43-44` says of the two sets that they do not mix
future records with the past, which `TestIsUnseen` states. So the test set, and
with it the metrics of the initial model, is not entirely of a later time.

Also `leak`: the API adds historical rates to a request that it reads from the
report (server.go:305-306, 371-395), and the report counts all rows
(analyze.go:61-75). The windows that the model is trained with have rates of the
first 80 % of the rows (forecast.go:31-32). `docs/EXPLICACION_PROCESO.md:44-45`
says that the historical rates used as features are computed from the initial
part of the dataset, which `RatesAreOfTheInitialPart` states of the served ones.
So the model is asked with other values of these two features than it was
trained with for the same readings. The run checks `FutureIsKeptApart`, that one
of the two sentences of the document is true, so that the table it stops at
refutes both.

## Proofs

Every theorem holds for all values of the constants under the named assumptions
of the modules: names are distinct, bounds are naturals, `Window` and the
capacities are positive, what marks an absent value is no value, the lengths
that make up a window or the calendar are positive, node names are finitely many
numbers (they stand for the order of strings), distances from UTC are integers.
No other assumption is made. Every invariant that a run checks is also proved,
with both refinements and the action property; type invariants and safety
properties are proved through one inductive invariant per specification, and TLC
has checked the conjuncts of these before they were proved.

* **`NodeRpc_proofs`** (`TypeCorrect`, `ReplyIsMine`, `NoPendingLeak`,
  `ReadLoopNeverBlocks`, `WaiterReachable`, `ImplementsCallContract`).
  `ReplyIsMine` is not inductive: that a reply goes to its caller depends on ids
  being drawn once (`IdInv`), on each entry of `pending` holding the id of its
  own call (`NoPendingLeak`), on a waiting call's channel being in exactly one
  of `pending`, the reader's hands and its buffer (`ChannelInv`), and on replies
  in flight having been produced by the worker (`ReplyInv`). Their conjunction
  is preserved, one step of the proof per action. The refinement of
  `CallContract` needs one fact more, `OnceInv`: a request is in the socket,
  with a goroutine of the worker, or answered, in one of these places and once,
  and was sent by a call that is past its write. Without it a second answer to
  one request could change what the worker has said, which the contract forbids.
* **`Registry_proofs`** (`TypeCorrect`, `OneOpenClientPerNode`,
  `HealthyIsWithinLimit`, `OnlyCurrentAssessed`). The strengthening is
  `EntriesInv`: an entry of the table is a registered connection of that node.
  Without it a replacement could close the wrong client.
* **`Training_proofs`** (`TypeCorrect`, `NoStragglers`, `EveryRowOnce`,
  `ImplementsBatchDescent`). `DivisionInv` says that the shards of an epoch put
  every row in exactly one shard; it comes from `ShardsPartition`, where the
  shard of a row is computed by division (`RowHasPlace`) and is the only one
  because later shards start later (`OffsetMonotone`). `WorkInv` says that only
  an epoch under way has goroutines that run and that a gradient is where its
  goroutine is done; `CountedOnce` that with all gradients there each row has
  been counted once. `ImplementsBatchDescent` also states how many rows a metric
  reports, which the code adds up over the shards: this fold is a function on
  the subsets of the shards, the number of rows in a subset satisfies the same
  equation because shards do not overlap (`RowsOfOneMore`), and two such
  functions are equal because there is no smallest subset on which they differ
  (`SumIsUnique`).
* **`ModelLifecycle_proofs`** (`TypeCorrect`, `OneTrainingAtATime`,
  `OneActiveModel`, `ServedModelIsStored`, `ServedModelIsActive`,
  `CompletedOnceActive`). `Alone` says that a run in progress holds the slot and
  that no boot is under way, so the four writes of `CompleteTraining` have no
  competitor; `Switching` says how far they are; `Seeded` that the initial model
  is stored before any other of its target, so that a boot can only insert it
  into a collection with no other model that is active for this target.
  `ServedModelIsActive` speaks of the time between runs; `AgreedInv` says what
  holds during one: memory and database agree, or the database shows that they
  may not, except in the two places where a run has still to swap the model or
  to record its failure (`Swapping`). `Progress` counts the fault that each way
  into the second of these takes.
* **`Forecasts_proofs`** (`TypeCorrect`, `RecordNamesItsModel`,
  `SteadyNodeServes`, `RecordInOnePlace`). That a record is right depends on
  what the request found (`LocalsInv`) and, when that came from the cache, on an
  entry some other request wrote: `CacheInv` says that every entry was computed
  by the model and on the features of its key. Without the version in the key,
  `CacheSet` would not preserve it after a `SwapModel`. `RoundInv` says that
  none of the workers a prediction has asked was steady; when the attempts are
  used up, all have been asked, wherever the round began (`RoundIsComplete`, on
  remainders). `PlaceInv` says that the four places of a record exclude one
  another and that no record is twice in the queue.
* **`Clients_proofs`**, of `Hub` (`TypeCorrect`, `NobodyElseMisses`): a
  broadcast visits a client of its copied list once (`ListInv`); one it has not
  come to has nothing of it, and one it has left has its event or a write that
  failed (`SentInv`). `NobodyElseMisses` does not say what holds in the middle
  of a broadcast and so is not inductive. Of `Accounts` (`AccountsTypeCorrect`,
  `AccountsAreSeparate`, `AdminsAreAppointed`): the unique index keeps one
  account per normalised name (`UsersInv`), so that a token goes on standing for
  the account whose name and password were presented (`TokensInv`) whatever is
  registered later.
* **`Files_proofs`**, of `Publish` (`TypeCorrect`, `DataNotBehindModel`,
  `MetricsMeanComplete`): `OrderInv` says of all outputs what is wanted of
  three: an earlier one is never of an earlier run than a later one.
  `ProgressInv` says how far the current run is, which is what a write needs to
  preserve it; `CompleteInv` that complete metrics of the latest run come after
  everything else of it. Of `Ingest` (`LoadTypeCorrect`, `LoadIsExact`): a byte
  range is in one of five places, the channel of jobs, a worker, the channel of
  results, the failed ones or the collected ones (`PlaceInv`), and wherever it
  is, its rows and figures are those of the lines that start in it and have been
  read (`WorkerInv`, `ResultInv`, `CollectedInv`, `MergeInv`). That every line
  starts in one range is arithmetic (`RangeFacts`), that a worker meets each of
  its own and no other is about where lines start (`AfterFacts`, `BeginFacts`,
  `ReadFurther`).
* **`Datasets_proofs`**, of the loop of `SplitRanges` (`TypeCorrect`,
  `CoversExactlyOnce`, `RangesAreFair`, `ReturnsShards`): an induction over the
  loop's steps, where `start` is the closed form at `i`, the ranges so far are
  ordered, cover everything before `start` and have `base` or `base + 1` rows.
  Of `Datasets` (`CoversExactlyOnce` again, of the steps that send the jobs, and
  `WindowsAreExact`): no range that was sent gets lost (`NoneLost`), and the
  windows joined so far are those of the ordinals before the next range
  (`JoinedInv`); the windows of one range are ordered by `Rank` and `Ordinal`,
  which count the valid ordinals before one. `SplitInv` cuts them. Of `Analysis`
  (`ServedLikeTrained`, `ThresholdIsBest`): the sums of the ETL run over row
  numbers and those of the API over positions in a slice of rows, and
  `SumRenamed` makes them equal; whatever zone a request is written in, its zone
  cancels out of the local time (`ReadingsFacts`), so that the calendar is that
  of the row; and the rate found in the report for the group of a row was
  counted over all rows of this group (`ReportedRate`). The parallel count of the threshold is
  the sequential one because shards partition the windows (`TotalIsCounts`),
  comparing the fractions is transitive where no denominator is zero
  (`LessChain`), and the loop over the thresholds is a smallest counterexample
  (`ChoiceIsBest`).

**Induction over data.** The induction theorems of the library take an operator,
which the provers cannot instantiate. The proofs use induction over the steps of
a specification, and for sums, ranks, first lines and the loop of the threshold
an argument by a smallest counterexample (`WFMin` on an explicit relation), for
which the definitions are recursive functions and folds, not `RECURSIVE`
operators.

**Only model-checked.** The liveness properties, which are out of TLAPS' reach:
`CallReturns`, `CloseReleasesCallers`, `DeadClientsLeaveRotation`,
`SlowNodesRecover`, `TrainReturns`, `TrainingSurvivesFailures`,
`SlotIsReleased`, `RunsEnd`, `RequestReturns`, `AnsweredIsStored`,
`DeadAreForgotten`, `BroadcastReturns`, `RolesCatchUp` (its safety half,
`AdminsAreAppointed`, is proved), `LoadReturns`, `BuildReturns` and
`StaleReportExpires`. **Only proved**: the type invariants and
`HealthyIsWithinLimit`, `OnlyCurrentAssessed`, `RangesAreFair`, `ReturnsShards`,
`ServedModelIsStored`, `EveryRowOnce`, which no run repeats. The three findings
are counterexamples, so there is nothing to prove of them.

## Not modelled, and why

* Floating-point arithmetic of `pkg/ml` and of the ETL's training (weights,
  loss, gradient values): neither tool treats it. Precision, recall and F2 are
  exact fractions in `Analysis`. The code adds 0.05 to its threshold in floating
  point, so that its loop never tries 0.70 (dataset/ml.go:101); the model counts
  thresholds and does not show this.
* Encoding of messages, documents and lines, HTTP routing, signing of tokens,
  password hashing, the wording of reports, the groupings that nothing reads,
  frontend: sequential or presentation. Of the queries those that touch state
  (report, metrics, own forecasts) are modelled.
* Real time: timeouts are steps that may happen; that a hung node delays the
  heartbeats of others is outside the models.
* Values only shown on the dashboard (`LastSeen`, CPU, error counts, events,
  `SaveEpoch`'s metrics).
* The callers of the splitting loop exclude `total = 0` (coordinator.go:317,
  ml.go:100, forecast.go:25), where it would divide by zero; the model starts
  from 1.
* A connection that is accepted while `Close` runs (coordinator.go:133): what
  becomes of it is seen only by a process that is ending. A heartbeat that reads
  `w.records` while it is being loaded (cmd/ml-node/main.go:113): the value is
  only displayed. The version that nodes advertise for a model whose storing
  then fails (coordinator.go:366): it too is only displayed.
* Months of different lengths and leap years: `Calendar` divides by constant
  lengths, the same on both sides, so that what it can show is which clock a
  part of the program takes its time from. Summer time: a location that has it
  would need a function of the instant in place of `Location`.
* Which forecasts are in the events of `Hub`: an event is only told apart from
  others, and its content restricted to nobody.
* Waiting for MongoDB and Redis at the start, and retries inside their drivers.

## Plan

Done, in this order: `CallContract` and `NodeRpc`, on which everything rests;
`Registry`; `Shards`, `SplitRanges`, `BatchDescent` and `Training`;
`ModelLifecycle`; `Forecasts`; `Ingest`, `Datasets` and `Analysis`; `Publish`;
`Hub`; `Accounts`; one run per component with its safety and its liveness; the
proofs above.

What is left: every safety property that a run checks has its theorem. Still
worth stating is a common abstract specification of the two pools of the ETL,
`Ingest` and `Datasets`, whose proofs repeat one argument, which both would
implement.
