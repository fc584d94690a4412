# TLA+ specifications of windows_exporter

windows_exporter is a Prometheus exporter for Windows. These modules model the
parts of it where goroutines, timers, native callbacks and the service manager
meet, and every collector from `Build` through scrapes to `Close`. TLC checks
them on small instances; TLAPS proves the safety properties for every
number of requests, collectors, calls, workers and metrics.

Line numbers below refer to the Go files of the repository.

## The system

| Part | Code | Module |
|---|---|---|
| Scrape engine: one scrape at a time, one run per collector with a deadline | `pkg/collector/handler.go`, `collect.go` | `Scrape`, `ScrapeService` |
| HTTP handler: timeout of a scrape, filter of collectors | `internal/httphandler/httphandler.go` | `ScrapeDeadline` (and `NewHandler` in `Scrape`) |
| Collection: enable and build the collectors in parallel | `pkg/collector/collection.go` | `CollectionBuild` |
| PDH collector: one worker per query, many callers, close | `internal/pdh/collector.go` | `PdhCollector`, `PdhService` |
| Process: main, HTTP server, Windows service | `cmd/windows_exporter/main.go`, `0_service.go` | `ServiceControl` |
| The collectors: what `Build`, `Collect` and `Close` do and where they fail | `internal/collector/*` | `CollectorLifecycle`, `CollectorSteps`, `CollectorsSystem`, `CollectorsServer`, `CollectorsVirtual` |
| eventlog collector: reading a log that changes | `internal/collector/eventlog` | `EventLog` |
| update collector: the background search | `internal/collector/update` | `UpdateScheduler` |
| process collector: query, worker pool | `internal/collector/process` | `WorkerPool`, `ProcessCollect` |
| MI (WMI) client: queries answered by native callbacks | `internal/mi` | `MiQuery` |
| Registry performance data | `internal/pdh/registry` | as a step of the process collector |
| Configuration, logging, Win32 headers, health and version endpoints | `internal/config`, `log`, `headers`, `httphandler` | not modelled |

At start `run` parses the configuration, enables the named collectors
(`Enable`) and builds them (`Build`), each in its own goroutine. Most collectors
open a PDH query, which has a worker goroutine. Then the HTTP server starts.
A scrape computes its timeout from a header, makes a `Handler` for the
collectors it asks for and enters `Handler.Collect` under a global mutex.
`collectAll` runs every collector in parallel; each run has a calling goroutine,
the one inside `Collector.Collect`, a forwarder from the run's buffer to the
registry's channel and, after a timeout, a drain. A collector that has timed out
is not stopped: its `Collect` goes on after the scrape has been answered, and
the next scrape calls `Collect` again beside it. All the models of collectors
below have this overlap, and no other, because `Scrape` shows that there is no
other (`OverlapOnlyAfterTimeout`).

## Modules

**`Scrape`** has one variable per Go variable or channel of `collectCollector`,
indexed by run `<<request, collector>>`, and one program counter per goroutine
(`main`, `collect`, `forward`, `drain`). Actions are the statements at which
another goroutine can interfere: channel operations, the flag, the context.
A `select` is one action per case. Metrics are counted because one producer, one
FIFO channel and one forwarder cannot reorder them. A `Collect` that has come to
a send (`BeginSend`) cannot return before the send does. Its outcome is nil,
one of the two "no data" errors, another error or a panic; it may also never
return. The registry that reads and finally closes the channel is external.

**`ScrapeService`** is what the engine promises: scrapes are served one after
the other and each wanted collector gets exactly one verdict before the answer.
`Scrape!ImplementsService` is the refinement.

**`ScrapeDeadline`** adds time in ticks of a fraction of a second:
`getScrapeTimeout` with its default, margin and conversion to whole seconds, the
queue at the mutex, and the deadline, which starts when the mutex is taken. What
happens inside a scrape is one step bounded by its deadline.

**`PdhCollector`** models the constructor with its three kinds of result, any
number of `Collect` and `Close` calls, the read-write lock (a waiting writer
keeps new readers out) and the worker, which is the same loop for raw and for
formatted counters. The rows in a slice are abstracted to the number of the
sample they come from. **`PdhService`** is the object its callers see: each call
answered at one instant.

**`ServiceControl`** models `main`/`run`, the server goroutine and the service
goroutine (`svc.Run` and `Execute`), with `exitCodeCh`, `stopCh`,
`serviceManagerFinishedCh` and `errCh` (`serverErrCh`). Stop and interrogate requests, signals
and the listener are the environment.

**`CollectionBuild`** models `Enable`, `initMI` and `Build` with the variable
`err` that all goroutines of `Build` share without synchronisation: storing,
comparing and wrapping are separate steps, and the comparison may use the value
just stored or the variable.

**`CollectorLifecycle`** runs one collector, any of the repository except
`update`. A collector is a record with its `Build`, its `Collect` (one or several
goroutines) and its `Close`, each written as a sequence of steps in the
vocabulary of **`CollectorSteps`**: make descriptors, open a performance counter
query, read its rows, use the first row or each row, send a group of metrics, make
a call that can fail. **`CollectorsSystem`**, **`CollectorsServer`** and
**`CollectorsVirtual`** hold these records, one definition per Go function and
under its name. The state is what a collector keeps between calls: what it has
made, the state of each query, and the rows in the slice that all its calls
share. The actions execute steps: `Build` with a tolerated error (the collector
stays enabled), with another one (the exporter exits), or none; `Collect` with
its errors returned, joined, logged or turned into a panic; the verdict of
`collectCollector` on the result; `Close`. A panic in the goroutine that
`collectCollector` starts is recovered; one in a goroutine of the collector ends
the process, be it all of `Collect` (`spawn`) or the workers that `service` starts
(`Worker`), and so do a panic in `Build`, which the validation of
`performancecounter` can raise (`performancecounter.go:163`), and one in `Close`. In
`hyperv`, two sub-collectors are skipped on an old Windows (`MinBuild`), without an
error. `service` disconnects from the service manager in `Close`, also when `Build`
has not connected.

**`EventLog`** models `collectLog` and `reopenLog` on one log. The log is written,
overwritten at its limit and cleared by others at any moment. A sequential read
takes its position from the handle, so the position is kept per handle. Which
metric a record adds to depends on the record only; `counted` says how often a
record has been processed, `total` what the counters expose. An increment is a read
and a write (`Load`, `Count`), because the counters have no lock.

**`UpdateScheduler`** models the goroutine `scheduleUpdateStatus` against `Build`,
which makes the descriptors after it has started the goroutine, against `Collect`
under the read lock, and against `Close`, which cancels the context. The timer and
the cancelled context are both ready cases of the `select`, and a failed fetch goes
on at once, without a look at the context.

**`WorkerPool`** models the request channel, the workers and their restart after
a panic, the wait group of each call, and `Close`, which closes the channel at any
moment, calls in progress or not (`process.go:154-161`). **`MiQuery`** models
`QueryUnmarshal`: the thread of the MI library that calls `InstanceResult`, the
element it reuses, `errCh` with room for one error, and the caller that reads it.
**`ProcessCollect`** composes the two into the `Collect` of the process collector:
a call queries the worker processes of IIS, if that is configured, then reads the
counters, then uses the pool.

Operators marked "Mutant" are altered copies of an action, each with a plausible
mistake. They are not part of any next-state relation; they show that a property
can fail when the code is wrong.

## Runs

| Run | Instance | Shows |
|---|---|---|
| `scrape_requests` | 2 scrapes, 1 collector, `Collect` may hang | `Collect` calls overlap only after a timeout; every scrape is answered; refinement of `ScrapeService` |
| `scrape_metrics` | 1 run, buffer of 2, 4 metrics | the exposed success and timeout values are true; nothing lost before the deadline, at most one metric late; blocked senders are released, no goroutine leaks |
| `deadline_queue` | 2 scrapes, half-second ticks, all header kinds | in time if alone, late by a bounded time if queued |
| `pdh_calls` | 3 `Collect`, 2 `Close` | answers, slices and handle are never mixed up, rows are sampled during the call; calls return, the worker ends; refinement of `PdhService` |
| `service_control` | 1 interrogation | exit codes are true, the process does not vanish and it ends; a stop that `run` takes is answered |
| `service_stop` (violation) | no interrogation | `0_service.go:116`: a stop request can hang the process |
| `build_race` | 3 collectors | which errors the race in `Build` can make it return; `Build` returns |
| `build_all` (violation) | 2 collectors | `collection.go:204`: not all errors are returned |
| `collectors` | every collector but `update`; none, one or two sub-collectors; 2 scrapes | a panic, a missing group of metrics, a reported success and a query left open each have one of the known causes |
| `eventlog` | 2 calls, 3 records, a log of 2, one clearing, one fault | no record is skipped; counted twice, or a handle leaked, only if two calls reopen the log together; the totals are exact unless two calls add at once; every later record is counted in the end unless the log could not be opened again |
| `update` | 2 calls, 3 fetches told apart | a call sends one whole fetch; nil descriptors are met during `Build` only; no call is starved by the loop |
| `process_collect` | 2 calls, 1 worker, 2 and 1 requests, 2 and 1 instances | errors and rows of a query are complete before they are used; no send to a call that has returned; calls end |

The violation runs state what a comment says and find a behaviour of the code
that disagrees.

What the runs say about the collectors in particular:

* `PanicHasCause`: a `Collect` panics only if `Build` failed in a tolerated way, if
  it overlaps a call that timed out and reads `perfDataObject[0]`, if `iis` removes
  duplicate site names (`iis.go:298`), or if `dns` runs with `wmi_stats` alone
  (`dns.go:291`). Only the second case, in a collector that starts goroutines,
  ends the process; otherwise it dies only in `Build`, or in the `Close` of
  `service` after a `Build` that failed.
* `MissingIsExplained`: a group of metrics is missing only if its call, or one
  before it that makes the function return, has failed. The error may be one that is
  only logged (`container.go:383-390`, `filetime.go:134-168`). The exceptions are the
  sub-collectors of `hyperv` and `exchange` and the logs of `eventlog` whose build
  failed or was skipped.
* `SuccessMeansComplete`: one part that returns `pdh.ErrNoData` makes the collector
  a success whatever its other parts returned (`collect.go:207`); that is the only
  way a failure is lost, apart from errors that are only logged.
* `CloseReleases`: `MCKeptOpen` lists the queries that `Close` leaves open.

Further disagreements between comments or docs and the code, which the models
contain as behaviours:

* `collect.go:175` says "Wait for the buffer channel to be closed and empty"; the
  forwarder it waits for also stops at the deadline, with metrics in the channel.
  Nothing is lost before the deadline (`NoLossWithoutExpiry`).
* `handler.go:31` says "We should not allow more than one request at a time"; after
  a timeout two calls of one collector run at once.
* The help of the timeout margin (`main.go:96`) promises its subtraction;
  `httphandler.go:118` drops the fraction first.
* `docs/collector.eventlog.md` says "since the exporter started"; the log is read
  with `EVENTLOG_SEQUENTIAL_READ`, which ignores the record number it is given
  (`eventlog.go:577`), so that the first scrape counts all records from before.
* `session.go:241` says that the callbacks are kept alive until the operation is
  closed; `errCh` is closed before the operation (`callbacks.go:49`, `103`), so the
  caller may be past `KeepAlive` when it is.

*Bounds.* Requests, calls and collectors are served once each; two requests
are enough for every pairwise interference, three calls for a call that overtakes
two others. A buffer of two with four metrics fills, blocks the sender and is
drained; the capacity 1000 of the code plays no other role, and the theorems hold
for every capacity. `DefaultTimeout` is 3 s instead of 10 s, `MaxClock` 6 s, so
that two full budgets fit. `scrape_requests` has no metrics: they do not touch
the state its properties speak of, and `scrape_metrics` has them. Symmetry is
used only in a run without temporal properties (`deadline_queue`).
`collectors` takes scrapes times sub-collectors up to `MaxLoad` = 2: two
overlapping scrapes of one part, or one scrape of two; sub-collectors share nothing
but the list of errors, so pairs are enough. `eventlog` has one record from before
the start and two later ones in a log of two, so that the log overwrites and is
cleared while two calls are in it. `process_collect` has one worker, the hardest
case for a call that waits, and a channel of one, which two requests fill; the
first call has two processes and two callbacks, so that one follows another, the
second call one of each.
`CHECK_DEADLOCK FALSE` where the system may stop: in the `service` runs the process
ends, or hangs as `service_stop` shows; in the runs of collectors all calls have
been made, the collector is closed, or the process has crashed.

*Fairness.* Weak fairness of single goroutines is what the Go scheduler gives: a
goroutine that can run does. The timer of a context fires, a waiter gets the
mutex (`sync.Mutex` has a starvation mode), and a send with room goes through.
`HangSpec` assumes nothing about `Collector.Collect`, which may hang for ever;
`NoGoroutineLeak` speaks of the runs in which it has returned.
`PdhCollector!Fairness` assumes that calls into PDH return and that `Close` is
called. `ControlFairSpec` is fair to the goroutines and to nothing in
the environment. `CollectionBuild!FairSpec` assumes that each `Build` returns.
`EventLog!FairSpec` assumes that scrapes keep coming. `UpdateScheduler!FairSpec`
is fair to the calls and to the goroutine when it has a result to store, and to
nothing else: a search may hang or fail for ever. That the goroutine ends after
`Close` is therefore not claimed: while fetches fail it does not look at its context
(`update.go:252-264`), and `select` may prefer the timer. `ProcessCollect!CFairSpec`
assumes that the MI library calls back until the last time, because `NewSession`
gives every operation a timeout of five seconds (`application.go:179`).

## Theorems

Each proof module holds an inductive invariant and the theorems that follow from
it, from the assumptions on constants that the component's module states (finite
sets, a capacity of at least one, a pool with a worker, names that differ).

* **`ScrapeProofs`**: `IInv` = `TypeOK`, `MutexInv` (the mutex is held by exactly
  the request inside `collectAll`), and for every run `FollowInv` (where a run can
  be, given where its request is) and `RunInv` (how the goroutines of a run follow
  each other). The heart of `RunInv` is the account
  `produced = bufCh + Held + delivered` before expiry, where `Held` is the metric
  in the forwarder's hands: without it "nothing is lost" is not inductive. That
  two `Collect` calls overlap only after a timeout follows from `MutexInv` and
  from `RunInv`'s link between an unfinished `Collect` and the caller's verdict.
  Proved: `TypeCorrect`, `ScrapesAreSerial`, `OverlapNeedsTimeout`,
  `NothingIsLost`, `LateIsBounded`, `CallersBeforeClose`, and the refinement
  `EngineImplementsService`. `NobodyIsStuck` says that caller, forwarder, drain and
  `Collect` wait for each other in no circle; it needs that the drain has started
  exactly if the verdict is a timeout and ends only once `bufCh` is closed. `ShownInv` adds what is exposed to `IInv`, for
  `ExposedValuesAreTrue`.
* **`PdhCollectorProofs`**: the invariant says that at most one call is between
  its send and its answer, that it is the worker's job and holds the read lock,
  and that a writer excludes readers. Hence an answer on the shared channel can
  only reach its owner, with rows sampled since its call began. Proved:
  `AnswersAreOwn`, `QueryOpenWhileUsed`, `CloseIsFinal`, `SliceReturned`, `NobodyIsStuck`,
  `CollectorIsAtomic`.
* **`ScrapeDeadlineProofs`**: `MutexInv`, `TimeInv` (a scrape ends within its budget
  after it got the mutex), `OrderInv` (scrapes hold the mutex one after the other)
  and `BusyInv`: at every instant between the arrival of a scrape and its answer
  some scrape holds the mutex. Every instant of the wait is therefore paid for by
  the budget of a scrape answered in between (`CoveredByBudgets`), and the sum of the budgets
  bounds the number of instants. What the sum over a set is, is proved without an
  induction rule: `LeastNatural` gives a least counterexample, `SumIsDefined` and
  `SumOfCosts` refute it. TLC has checked `IInv` on the instance of `deadline_queue`
  as well. Proved: `AnsweredInTime`, `QueueingIsBounded`.
* **`StartStopProofs`** has the start of the collection and the start and stop of
  the process; `ServiceControl` has names of its own for its specification
  (`ControlSpec`, `ControlTypeOK`) so that one module can extend both. For `CollectionBuild` the invariant
  says that the shared variable holds nil or an error that a collector has
  returned; `SentInv` adds that each error in `errCh` has a sender of its own that
  is through, hence the room. Proved: `BuildErrorsAreReal`,
  `BuildIsExactIfUniform`, `BuildWaits`, `SendersFindRoom`. For `ServiceControl`,
  `ControlInv` relates the content of `exitCodeCh` to what `main` has sent and
  `Execute` has taken. Proved: `ControlTypes`, `ExitCodeIsTrue`, `ServiceEndsFirst`,
  `FailuresAreReported`, `ExitCodeIsNotLost`, and `MainIsNotStuck`: the late stop
  that `service_stop` shows is the only way in which `main` and `Execute` wait for
  each other for ever.
* **`CollectorLifecycleProofs`**: the programs are a constant; the theorems hold for
  every table of programs that satisfies two assumptions, which TLC evaluates on the
  table of the repository. `ProgramsAssumption` is about shape. `TableAssumption` has
  what the functions of the collectors have in common, without reference to what is
  enabled or to any run: what a step uses is made before, by its call or by a build
  function that runs whenever it does, and where a panic would end the process it is
  made even if other build functions fail (`UsesAreMade`); rows are read before they
  are used, by one goroutine (`RowsAreRead`); an error that is only logged does not
  make the function return (`LoggedErrorsGoOn`); `Close` reaches what `Build` opens
  (`ClosesItsQueries`) and uses what a build function makes that always runs
  (`CloseUsesAreMade`); the known panics of `iis` and `dns` are in no goroutine of
  theirs (`PanicsAreRecovered`). `IInv` has seven parts. `BuildInv`: what the steps behind
  `Build`'s position make has been made, unless an error explains why a step was
  skipped (`MadeIn`), and what a build function makes last is there only if it has
  not failed (`LastIn`); the second is why a check for one handle in `Collect`
  protects from all failures of that build function. `QueryInv`: an open query was
  opened by a build function that is on. `ScrapeInv` follows every goroutine: what
  its call has looked for is there (`ThreadIn`), and, without overlap, the rows its
  call has read are still there and every call behind it is explained (`QuietIn`).
  This needs `OverlapInv`, that two running scrapes are recorded as overlapping,
  because otherwise another scrape could change the rows. `ErrorsInv` and
  `ResultInv` relate the errors to panics and verdicts. `DeathInv` adds to `IInv` how
  the process can have died. Each step of `Collect` goes
  on, fails or panics (`CollectStepCases`), and the invariant is kept in each of the
  three ways. TLC has checked `IInv` on the instance of `collectors` as well. Proved:
  `TypeCorrect`, `PanicsAreCaused`, `NothingIsMissing`,
  `SuccessIsComplete`, `QueriesAreReleased`.
* **`EventLogProofs`**: `HandleInv` and `CallInv` say which handles are open and
  what a call holds, `ReopenInv` that only one call reopens the log unless two have
  crossed, `OnceInv` that a record is counted once or waits in one batch and then
  lies behind the position of the handle, `SkipInv` that what lies behind it has
  been counted or waits. `SumInv` says that a call that is adding has read the
  current total unless another was adding too. Proved: `NoRecordIsSkipped`,
  `RecordsAreCountedOnce`, `HandlesAreReleased`, `TotalsAreExact`, `RacesNeedATimeout`, and the action property
  `GivenUpForGood`: the exception that `EveryRecordIsCounted` makes for a log that
  could not be opened again is for good.
* **`UpdateSchedulerProofs`**: `StartInv` relates `Build` to the goroutine it
  waits for, `FetchInv` the metrics of a fetch to the descriptors there are,
  `ReadInv` what a reader sends to the buffer. Proved: `CollectSendsOneFetch`,
  `OnlyTheStartCrashes`, `NobodyIsStuck`.
* **`ProcessCollectProofs`**: for the pool, `CountInv` (a wait group is the number
  of requests of its call that are queued, in work or being sent), `EndInv` (a call
  that has ended has none left) and `CloseInv`. For the composition, `QueryInv` has
  the account `failed = errs + errCh + (1 if a callback is sending)`, without which
  `NoErrorIsLost` is not inductive, `FollowInv` says where the query is, given where
  the call is, and `RowsInv` bounds the values in the reused element by the number of
  its instance. A step of the composition is a step of the pool or leaves it alone,
  so that the theorems about the pool carry over. Proved: `WaitGroupsAreExact`,
  `NoWorkerSendsAstray`, `PanicsAreMadeGood`, `NoWaiterIsForgotten`,
  `QueryErrorsAreKept`, `RowsSettleFirst`, `StaleValuesFillGaps`, `PoolOfTheComposition`.

Each module also proves its type invariants, `TypeCorrect`.

The type invariants and the following properties are left to the proofs and no run
checks them: `OneScrapeAtATime`, `ChOutlivesCallers`, `ClosedForGood`,
`ExitCodeIsRead`, `FailureIsReported`, `WaitsForEveryBuild`, `RaceNeedsTimeout`, `WaitGroupIsExact`, `PoolKeepsItsSize`, `NoCircularWait` (of
`Scrape`, `PdhCollector` and `UpdateScheduler`), `WaitersAreServed`, `ErrChHasRoom`,
`OnlyALateStopHangs`, `DeadForGood`. TLC has found no violation of any of them on the instances of
the runs.

Only model-checked: the liveness properties (`EveryScrapeReturns`,
`ProducerUnblocked`, `NoGoroutineLeak`, `EveryCallReturns`, `WorkerEnds`,
`EndsWithoutStop`, `StopIsAnswered`, `BuildReturns`, `EveryRecordIsCounted`,
`EveryCollectReturns`, `EveryCallEnds`), because fairness and `ENABLED` are beyond the
prover. What is proved of them, for every size, is their safety core, that nobody
is stuck: the three theorems `NobodyIsStuck`, `NoWaiterIsForgotten`,
`SendersFindRoom` and `MainIsNotStuck`. Every other property that a passing run checks is
also a theorem.

## Not modelled

* Metric names, values and help texts, logging, flag parsing and the flattening of
  the configuration, Win32 and COM bindings, creating and closing the MI
  application and session.
* `Collection.Close` as a whole: the program never calls it, users of the library
  do. The `Close` of each collector is modelled.
* Values of the timeout header that are out of range, NaN or negative.
* Sequential algorithms over data: the merge of counter arrays into rows
  (`pdh/collector.go`, with the stale buffer at line 348), the parser of registry
  data, the duplicate check of `textfile`, the result of `deduplicateIISNames`, the
  event-ID filter, `utils.Counter`. Each is one function without shared state. A
  step that uses one may fail where the function can, and its result is left out.
* The content of the buffer that overlapping scrapes of `service` share
  (`service.go:425`).
