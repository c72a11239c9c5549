# A TLA+ verification of Output

Output (`growthxai/output`) is a TypeScript/JavaScript framework for LLM workflows on
Temporal: a library and worker (`sdk/core`), an HTTP API in front of Temporal (`api`), a
command line tool (`sdk/cli`). This directory holds TLA+ models of the parts where several
things happen at once, where things fail half way, or where an algorithm has boundaries; the
TLC configurations that check them; and proofs of the results that matter most.

Paths below are relative to `src/`. All modules are translated from the code, not from its
documents.

## 1. The system

```
 user code        CLI (sdk/cli) ----HTTP----> API (api) ----gRPC----> Temporal server
    |              |  docker compose           ^  SSE                    ^   ^
    v              v                        browser                      |   |
 sdk/core interface  <-- runs inside --  worker process (sdk/core/worker) --+   |
    |  workflows, activities, waits         |  loader and bundler            |
    |  sinks, interceptors, LLM calls       |  catalog publisher ------------+
    |                                       |  connection monitor
    v                                       v
 trace engine --> local file, Redis --> S3   hooks (user callbacks on the buses)
```

| Component | State | Operations | What is hard | What makes it correct |
|---|---|---|---|---|
| `executeInParallel` (`sdk/core/src/interface/workflow_utils.js`) | pool, active jobs, results | start, race, collect, refill, sort | jobs settle between continuations; callback may throw | limit, every job once, own result at own place, it ends |
| Worker process (`worker/index.js`, `interruption.js`, `worker_runner.js`, `shutdown.js`, `connection_monitor.js`) | services, abort signal and reason, failures | setup, race, shutdown, exit | signals, uncaught errors and lost connections at any await | orderly end, right exit code, no work after an abort |
| Hooks (`hooks/`) | pending calls | call, flush with timeout | calls registered while the process ends | awaited or timed out |
| Catalog publisher (`worker/catalog_workflow/catalog_publisher.js`) | attempt, retries; the runs at the server | describe, terminate, start, retry | two versions deploy at once; answers lost | no worker serves an outdated catalog; no run of one's own killed |
| Workflow, step, webhook (`interface/`, `interceptors/`, `sinks.js`) | wrapper of a run, attempts, waits, handler | run, call, retry, wait, resume, end | late attempts, repeated tasks, several waits | entries of an attempt stay its own; a wait gets its own feedback |
| Local trace (`tracing/processors/local`) | temp file, output file | append, rewrite at error and end | overlapping writes | file at rest shows the run |
| Remote trace (`tracing/processors/s3`, `tools/build_trace_tree.js`) | sorted set in Redis with expiry, file in S3 | add, wait, read, upload, delete | entries in any order from several processes; duplicated ends | the file shows the workflow; nothing deleted unshown; Redis emptied |
| LLM calls (`llm/utils/wrap.js`, `metering.js`, `stream.js`, `usage.js`, `cost.js`) | metering, trace id, price table | steps, end, abort, error, bill | all hooks of a stream may fire; tiers, unknown rates | billed once and in full, trace closed, the cost says whether it is exact |
| Evals (`evals/`, CLI `test.ts`, `datasets.ts`) | verdicts of cases | judge, interpret, aggregate, save | evaluators finish in any order, some fail | a verdict is of its own case |
| Loaders and bundling (`worker/loader/`, `worker/webpack_loaders/`) | what is registered, what a call became | match files, rewrite imports and calls, dispatch | names, aliases, shadowing, packages | each call reaches what was imported, or the build refuses |
| API operations (`api/src/clients/temporal/workflow/`) | none | run, start, result, trace-log, status, input, stop, terminate, reset, messages | continue-as-new between two calls of one operation | an answer speaks of one run |
| API process (`api/src/index.js`, `connection_monitor.js`) | shutdown once, sockets | close server, grace timer, close client, exit | signal and lost connection together; requests in flight | nothing dropped before the grace time; it ends |
| API history and stream (`get_history.js`, `fetch_history_page.js`, `stream_history.js`) | cursors per connection | describe, page, deadline, done, 204 | description older than the page; reconnects, lost frames | each event once; status not frozen; the client comes to rest |
| API errors (`middleware/error_handler.js`, `utils.js`) | none | status of an error, error of a failed run | causes wrapped in causes | the answer tells what failed |
| CLI monitor (`services/monitor_stream.ts`, `workflow_history.ts`) | cursor, seen statuses, error budget, detached | poll, print, follow, detach | run moves between two calls of one request | nothing lost, repeated or printed after detach; it ends |
| CLI display (`correlator.ts`, `span_labels.ts`, `waterfall.ts`, `cost_calculator.ts`) | none | correlate, draw, report costs | open spans, last column, nested and repeated charges | agreement with the history, each charge once |
| Credentials (`cli` `commands/credentials/`, `core/src/credentials/`) | encrypted files, keys in files and environment | init, set, edit, get, show; load in a worker | keys and files found by rules of two packages; paths that run into each other | no secret lost unasked; the worker is given what the command shows |
| CLI client and commands (`api/generated/api.ts`, `http_client.ts`, `commands/workflow/`) | none | refuse, send, repeat, report | two lists of routes kept apart; repeats of what was done | a request reaches its route; a command ends as it did |
| `output dev` (`commands/dev/index.ts`, `services/docker.ts`, `views/dev`) | stack, owner, phase, selection, cache | detect, start, attach, show, tear down | signals, crashes, docker moves by itself; late answers | own stack goes, another's stays; shows what is selected |

`PROJECT.json` lists every component with its files, the unmodelled ones with the reason, and
every hazard with its line and the properties that would catch it.

## 2. Modules

| Module | Models | Kind |
|---|---|---|
| `JobBatch` | what `executeInParallel` promises | abstract specification |
| `ParallelJobs` | `executeInParallel` | detailed; implements `JobBatch` |
| `WorkerLifecycle` | one worker process with its monitor and hooks | specification |
| `CatalogPublisher`, `MCCatalogPublisher` | publishers of one task queue and the server's runs | specification, instance |
| `WorkflowRun`, `MCWorkflowRun` | one run: wrapper, attempts, webhooks, trace entries, local trace file | composition of five components, instance |
| `TraceUpload`, `MCTraceUpload` | emitters, Redis and the uploads of one run | specification, instance |
| `LlmCall` | one LLM call: wrapper, metering, drain, hooks | specification |
| `ApiOperations`, `MCApiOperations` | the API's operations inside the process that serves and closes, against the runs of a workflow id | composition, instance |
| `HistoryStream` | handler, generator, EventSource and runs together | composition |
| `WorkflowMonitor` | CLI loop, API request and workflow together | composition |
| `HistoryPages` | the ids of a page and what a reader resumes with | operators of the two above |
| `DevSession` | one `output dev` with docker | specification |
| `RunDetail`, `MCRunDetail` | the run detail of the dashboard | specification, instance |
| `LlmPricing`, `CostReport` | the cost of a call, and the report of a trace's costs | algorithms |
| `HistorySpans` | correlation, labels, waterfall | algorithm |
| `EvalOutcome` | `workflow test`: datasets, evaluators, verdicts | algorithm |
| `ApiErrors`, `ClientRequests`, `CliCommands` | failures and resets; client operations against routes; one command with its request | algorithms, each on top of the one before |
| `ProjectLoading`, `ComponentCalls` | what a worker loads; what each call of a component becomes | algorithms |
| `CredentialFiles` | commands on the encrypted credentials, and what a worker then loads | algorithm |
| `Calculations`, `MCCalculations`, `MCBuilds`, `MCCommands`, `MCSecrets` | the algorithms put to inputs | specification, bounded inputs |
| `ParallelJobsProofs`, `LlmCallProofs`, `ApiOperationsProofs`, `WorkflowRunProofs` | proofs about the module of the same name | proofs |
| `WorkerProofs` | proofs about `CatalogPublisher`, `WorkerLifecycle` and `TraceUpload` | proofs |
| `ClientProofs` | proofs about `DevSession`, `RunDetail`, `WorkflowMonitor` and `HistoryStream` | proofs |
| `ChargeProofs` | proofs about `LlmPricing` and `CostReport` | proofs |
| `CalculationsProofs` | proofs about `HistorySpans`, `EvalOutcome`, `ApiErrors`, `ClientRequests`, `CliCommands`, `CredentialFiles`, `ProjectLoading` and `ComponentCalls`; the theorems on `Calculations` | proofs |

Definitions whose comment begins with *Slip:* are deliberate faults: each is the form a named
definition would have with a plausible bug in it, and breaks a property of the module when put in
its place. They are part of no specification.

In all state machines a step is what runs between two awaits, so nothing else happens inside it;
calls that leave the process are cut at the call and at its answer.

### ParallelJobs

A step is one JavaScript continuation. `Launch` is the code from the call to the first await
(lines 13-36: the splice, the start of the first jobs and the first race), `Resume` the loop body after an await,
`CallbackThrows` the same up to a throwing `onJobCompleted`, `Settle(j)` a job's promise being
settled at any time after its start. `jobsPool` is always a suffix of the jobs, so an index
`next` stands for it; `activeJobs` is always sorted, so a set does. `Race` resolves at once with the
first settled job in array order; otherwise `Settle` decides it. So jobs that
settle together are reported in index order. `hasErrorType` is not modelled.

### WorkerLifecycle

`pc` runs through the awaits of `execute()` (`hooks`, `load`, `connect`, `publish`, `create`,
`racing`) and of the `finally` (`await_worker`, `close`, `report`, `flush`, `bye`). `publish` is only
begun there, its retries are `CatalogPublisher`. JavaScript
runs all ready continuations before the next event, hence the guard `Quiet` on every step of the outside
world. `Abort(r)` keeps the first reason and, through the runner's listener, drains a running
worker. `BeginShutdown` is the part of `shutdownServices` without an await: a worker that does
not run is skipped. Signals are the first, its echo within a second, and a forced quit;
an uncaught error also starts the watchdog. Hook calls are made by a worker that runs or by a pending hook.
What the hooks do, logging and telemetry are left out. `CloseConnection` may fail; Temporal
refuses to close a connection a worker holds.

### CatalogPublisher

`stage[w]` is the await of `#execute` worker `w` is in. The server is `runs`, the runs of the one
catalog workflow id, at most one open (`StartRun` is external knowledge: conflict policy FAIL).
Each call may fail; for terminate and start the effect may or may not have happened.
`Describe` reads the open run, `Terminate` acts on the run *found*, pinned by its id. A publisher whose
retries are used up by failures and competitors gives up and its worker ends; that is the code's
design and no property excludes it.

### WorkflowRun

One run of a user's workflow, put together from the wrapper (`interface/workflow.js`), the workflow and
activity interceptors, the sinks, the webhook helper and the local trace processor. The user's
function is nondeterministic: `program` is the set of steps and waits it may use, and it takes them in
any order and any number at a time. `act` is the server's view of each activity (queued, running,
handed off to an external completion, done, failed) and `live` the attempts some worker executes; an attempt that
timed out stays in `live`. `wait`, `handler` and `feedback` are the waits for a webhook, the one
handler installed for `resume`, and the signals delivered or buffered. `entries` holds what the temporary
trace file says of each id, `asked`/`writes`/`file` the rewrites of the trace file. `Lost(new)` is a workflow
task given again: what it told the sinks has been said, nothing else has happened. `WorkerCrashes`
ends every attempt and write under way. Schemas, attributes of entries and the wrapper used outside Temporal (a
plain call) are left out.

### TraceUpload

`Emit` stamps an entry by the clock of the worker that emits it: the stamp is the number of entries so far, off by
the worker's `ClockOf`, so stamps of several workers tie and run backwards. `Starter` is the worker whose sink is called
for the START of the workflow; an attempt is on any worker, what it traces inside on the same one. `SpanStarts`/`SpanEnds`
are the activity interceptor and what an activity traces inside, `RootEnds` the workflow sinks' end or error, delivered up to
`MaxEnds` times by whichever worker has the task. `Parentless` says which entries name no `parentId`: those of the workflow
and the END of an attempt, while both entries of what is traced inside an attempt (`Inner`) name one. `Land(e)` is `addEntry` of one entry, at any time or never. The END of the root
goes on: `Read` after the delay, `Upload`, `Bust`; `Abandon` is a failure or the process exit at any of
these awaits. `BuildTree` translates `build_trace_tree.js`, the choice of the root included.
ADD_ATTR entries (attributes added to a node) change no node's place and are left out. An entry that lands between
`Read` and `Bust` is deleted and shown nowhere, an END that lands without the START of the run is taken for
a root, so is the END of an attempt that a worker with a clock behind the Starter's has stamped before the START, and a second
upload can show less than the first: the model has these behaviours. The properties speak of what an upload read, and
`ShowsTheWorkflow` names the clock that is behind as the one way to another root than the workflow.

### LlmCall

One call in one of three modes: a stream handed out (`direct`), a stream the call reads itself
(`completed`, `drainStream`), no stream (`plain`). The AI SDK is external: `StreamOpens`, `StepEnds`,
`Fails`, `Ends`, `EndsEmpty`, `Aborts` are what it may do. It waits for `onAbort` only, so the
hooks of one stream overlap; each is cut at its one await, the price lookup in `bill()`: `Bill` is the part
before, which marks the call billed, and `BillLands` the part after, where the lookup may fail.
`handleAbort` is `listening`; the drain's deadline is a flag, set as the code arms its timer, and
`DrainGivesUp` is that timer. A step is represented by its number, a metering event by the steps it
covers. `BilledInFull` and `ClosesItsTrace` name their exceptions, which the code has: the step in which an
error comes to a direct stream, steps after a drain gave up, a price lookup that fails, and an SDK timeout
whose caller aborts while the hook looks up prices. Image calls and the agent's message store (one way `fn` may
throw) are left out.

### ApiOperations

`runs` is the server's list of runs of one workflow id; each knows its first run, and how far the step of
a later reset is. A request is cut at each call of Temporal or S3: `at` names the call, `seen` the run it has
resolved, `mark` the run of what it has read, and an answer carries in `parts` the runs its parts are of. `pin` is a run
id in the path. `Arrives` routes a request, one action per call follows (`ResultDescribes`,
`ResultPages`, `Outcome`, ...), `CallFails` fails any of them, `ExecutionTimesOut` is the timer of `run` that nothing
clears. Meanwhile the workflow moves (`StepAdvances`, `RunCloses`, `ContinuesAsNew`), other requests start,
stop and reset runs, and the process goes down: `SignalArrives` or `ConnectionLost` closes the server once, `GraceEnds`
drops what is left, then `ServerCloses`, `ClientCloses`, `Exits`. A `stream` is only its socket here;
its frames are `HistoryStream`.

### HistoryStream

The handler and generator of one connection are `stream` (`Describe`, `Page` and their failures);
`wire` holds frames written and not yet read. The `EventSource` connects with the last id it was
given, reconnects after the end of a 200 or a drop, and stops at any other status. The last
page of a closed run holds its terminal event, so the drain that follows that event in the code has
nothing to read. Keepalives and the opening `workflow` frame carry no event id and are left out. `Pinned`
says whether the run is in the path. On the route without it a reconnect after a continue-as-new goes to the new
run with the old run's last id, so that its first events are skipped; the run checks the route with it.

### WorkflowMonitor

Three actors: the workflow (`StepMoves`, `RunCloses`, `RunContinues`), the API, which answers a
request in two steps (`Describe`, then `PageArrives` or `DeadlineElapses`), and the CLI loop (`Poll`,
`Take`/`Report` in the answer's step, since nothing runs between an answer and the continuation that
handles it, `PollFails`, `Detach`, `ProcessExits`). A cursor is `workflow_history.ts`'s: token, last event id, events and
the status last described. `SpanStatus` is the correlator's, for steps. The deadline of a poll is the user's `--interval`
and may elapse at any time, also with events still to read: the API then echoes the token, which the loop takes for the end of the history
when the run is closed, and leaves it before its last events, or without having read which run comes next. The model has this,
and `LastWord` and `NeverLosesTheChain` name it (`CutShort`) as the only way in which a run is left too early.

### DevSession

`step` is where `run()` of `output dev` is, `stack` what docker has, `seen` what `docker compose ps` said,
`owns` the decision taken from it, `up` the foreground compose, `phase`, `ui` and `screen` the dashboard. Every
way out is an action: `HandlesSignal`, `CtrlC`, `HandlesFatalError`, `Finishes`, `FinishesWithError`; `IsKilled` can
come at any time. `docker compose down` is a synchronous call, hence `TearsDown` is part of the step that
calls it. `StackMoves` and `UpExits` are docker's.

### RunDetail

`listed` is the list as polled last, `ended` the truth at the server, `clampedIndex` an index into the list sorted by
`STATUS_ORDER` (`RankOf` is the rank of the status each run ends with) and start; `Effect` is
the React effect of `useRunDetail` for the run that comes under it, `FetchReads` and `FetchAnswers` the two
moments of a fetch, in any order between fetches. `asked` is the run the last fetch is for. A detail shown from the cache
leaves that fetch the last one, and its answer then replaces the detail of the run under the cursor: the code has this, the
model too, and `ShowsTheRunUnderTheCursor` says that nothing else than that run's detail is then shown, and only over a run that has ended.

### The algorithms

`Calculations` has one action per algorithm: it takes an input of a small set, given in the initial state,
and puts the answer beside it; the property compares the two. Each algorithm's module has its reference
definition at the end, written independently of the code's way of computing it.

* `LlmPricing`: usage to items, table lookup (cached, fetched or unavailable), tiers per request, the sum and its status.
  Rates are whole numbers per token. `StatusTellsTheBill` says when a total is precise and what it is then.
* `CostReport`: which nodes of a trace are charges, their original and adjusted cost under `costs.yml`, the totals. A model
  is a sequence of parts and is priced by the entry of its name, or else of the longest prefix of it (`PricingKeys`).
* `HistorySpans`: events to spans with status and offsets, their labels, and the rows, bars and ruler of the waterfall. A row
  reads what `padOrTruncate` leaves of its label in a gutter of 14 to 28 columns: a long name loses its number, and two
  rows can read the same, which the property allows to labels that fit no gutter.
* `EvalOutcome`: the cases of all dataset files, each with its file, evaluators in parallel with failures, verdicts, the exit
  code, and what is written back to which file.
* `ApiErrors`: the status of a chain of causes, the error of a failed run, and the event a reset goes to. A body parser
  refuses with 400, 413 or 415 and the server with any code, on any route; what a route does not document of these is answered all the same.
* `ClientRequests`: the URL of each generated operation, and the route Express finds for it, in registration order;
  every status a route answers with must be in the type of the operation. `error_handler.js` is `ApiErrors`.
* `CliCommands`: what a command refuses, how the client and `run` repeat, and words and exit code at the end, that of a
  run which a `start --monitor` has followed included (1 if it failed, 130 if the user detached, 3 if the stream stopped);
  `dataset generate` is such a command, its files the part after the request.
* `CredentialFiles`: which key and file a command finds, what it refuses, replaces and keeps, and what a worker
  that starts after it loads. A machine is its keys in the environment, its key files and its encrypted files. A target has a name: the
  variable of its key is that name in upper case, so a workflow and an environment may share one. The command goes by the directory of
  `--workflow`, the worker by the directory for files and by the name or alias the workflow was started by for the variable; where these
  differ and the environment has a key for either (`NamesApart`), the worker may be without the key that the command has, and the property says that this
  is the only way.
* `ProjectLoading`: the file matchers, workflows of the packages in the closest `node_modules` (not of those nested in
  packages), activities by workflow and shared ones.
  A workflow or activity registered twice makes the load fail.
* `ComponentCalls`: imports and requires collected, calls rewritten to dispatcher calls by name, what is
  refused, and what the dispatcher then reaches.

The inputs of these are limited to what the code is clear about. For `ComponentCalls`: exports of `workflow.js` have
their names written out; a nested specifier such as `./steps/sub/x.js` is not rewritten by the code and
`../other/steps.js` is rewritten but not registered under the importing workflow, so the reference takes
neither for a component import; nor does it take a steps file in a directory named `vendor`, which is rewritten and never loaded.
A workflow is the default export of its file. (A reader should know that a named one is loaded, and that its name starts the default
export of the file all the same.) For `ClientRequests` and `CliCommands`: ids hold no slash (the client does not encode them);
401
is in no client type; a history has one page; and for a command whose `ky` options turn off HTTP
errors both are allowed, that a status is repeated and that it is not. For `CredentialFiles`: values hang from paths, none
the beginning of another, and an empty object or null is nothing.

A catalog may be named like the last segment of a route of workflows (`status`, `result`, `input`, `history`, `trace-log`), which
no check of the code refuses: the request is then answered for the workflow `catalog`. The inputs have these names, and
`RequestsReachTheirRoute` names them as the only ones (`TakenFor`).

For `LlmPricing`: amounts are natural numbers or absent, and no two tiers of a model begin at one size. A provider may detail the tokens of
some requests of a side only. The details of a call priced as a whole then do not add up to its tokens, all of them are charged at the plain rate of the
side, and the code still calls the cost precise: the inputs have such calls, and `BillsByTheRequest` names them (`DetailsAreDropped`) as
the one exception to that word.

For `CostReport`: a node that was copied was copied with all that hangs below it, an event of a call is what
`LlmPricing` makes of it, and amounts, rates and charges are integers.

Ten of these limits are named assumptions of `Calculations`, written as operators beside the algorithm and evaluated by TLC on
every input: `CallsAssumption` (`IsCall`), `ReportsAssumption` (`IsReport`), `HistoriesAssumption` (`IsTimeline`), `ProjectsAssumption` (`IsProject`), `FailuresAssumption` (`IsFailure`), `BuildsAssumption` (`IsTree`), `ResetsAssumption` (`IsHistory`),
`RequestsAssumption` (`IsRequest`), `RunsAssumption` (`CanBefall`) and `SecretsAssumption` (`IsSecret`). The proofs rest on these and nothing else.

## 3. What the runs show

| Run | Instance (distinct states) | Properties | Shows |
|---|---|---|---|
| `parallel_jobs` | 4 jobs, 2 slots (974) | `Returns`, `ImplementsBatch` | limit, no lost race, job order, termination, refinement of `JobBatch` |
| `worker_lifecycle` | 2 hook calls plus onError, 3 failures (54 784) | `ShutsDownInOrder`, `ZeroMeansDrained`, `NoStartOnceAborted`, `AbortEndsProcess` | orderly end whatever aborts it, code 0 hides no failure, every abort ends the process |
| `catalog_publisher` | 1 old and 2 new workers, 2 retries, 2 failed calls (563 005) | `NeverServesOutdated`, `NeverKillsItsOwn` | no outdated catalog served, own runs never killed |
| `trace_upload` | 1 step, 2 workers, the clock of one behind, 2 deliveries of the end (256 595) | `ShowsTheWorkflow`, `DeletedOnlyWhenShown`, `NothingLeftInRedis` | right root unless the late clock ended the step, deletion only of what is shown, Redis emptied |
| `workflow_monitor` | 1 step per run, pages of 2, chain of 2 runs, 3 errors, deadlines at any time (76 383) | `TellsTheHistory`, `LeavesInTime`, `EndsWithTheWorkflow` | no gap or repetition, last word printed before leaving a run unless a deadline cut it short, quiet after detach, it ends |
| `history_stream` | 5 events in pages of 2, 2 runs, 3 faults (9 808) | `TellsTheRun`, `ComesToRest` | each event once and in order, told only when complete, client comes to rest |
| `llm_call` | 3 steps, every mode and state of the signal (2 565) | `BilledInFull`, `ClosesItsTrace`, `FailureEnds` | billed once and in full, trace closed, a failed call ends |
| `api_operations` | any operation against another, 3 runs (712 103) | `AboutOneRun`, `DroppedOnlyAfterGrace`, `ShutdownEnds` | an answer is about one run, requests live through the grace time, the process ends |
| `workflow_run` | a step with 2 attempts, or 2 waits; 2 feedbacks, 1 fault (449 107) | `AttemptsApart`, `TraceTellsOutcome`, `ResumesWithItsFeedback`, `FileIsCurrent`, `ActivitiesSettle` | entries per attempt, the trace's last word, a wait's own feedback, the file at rest, retries end |
| `dev_session` | the module has no parameters (1 436) | `StackGoesWithItsOwner`, `QuitsAndSettles` | own stack goes and another's stays on every way out, it settles |
| `run_detail` | 2 runs, one to fail and one to complete, cache of 1, 3 fetches (494 108) | `ShowsTheRunUnderTheCursor` | answers in any order, another run under the cursor, eviction; whose detail a late answer may show |
| `algorithms` | each input an initial state (284 404) | `BillsByTheRequest`, `ReportsEachChargeOnce`, `WaterfallDrawsWhatHappened`, `TestsTellOfTheirCases`, `FailuresAreTold`, `CallsWhatItImports`, `ResetsKeepTheStep`, `RequestsReachTheirRoute`, `CommandsEndAsTheyDid`, `SecretsAreKept` | the algorithms agree with their references |

Why the bounds suffice. Four jobs in two slots give two refills, a race with one and with two settled
jobs, and results that need sorting. Three failed checks are the code's order of magnitude and let
a count start again in the middle; two hook calls give one in and one after the snapshot. Two workers of
one version are needed for a run to be replaced by one of the same version, a third for the competition;
two failed calls hit two different calls of one attempt. Two ends of the root give two overlapping uploads; a
clock two entries behind stamps the end of a step before, with or after the START of the workflow.
Pages of two events split every interesting pair of events; a run of one step has up to five events,
so walks of three pages occur; a chain of two runs exercises the hand-over. Three faults of the stream
drop a connection, its reconnect, and fail a call. Three steps put an error before, between and in the
steps of a stream. Three runs of a workflow id let it move before and after each call of the longest operation,
and let a pinned run be the first, a middle and the latest one; one interfering request starts, resets or holds a
socket. Two attempts of a step give a late one and its successor, two waits a handler replaced, one fault a
repeated task or a crash. Two runs and three fetches put another run under the cursor with two answers out; ranks
of 1 and 6 sort a run that failed before one that completed, whichever started first; a cache of one evicts. Of the algorithms' inputs, costs stand on, below and above each threshold; traces have
two calls, side by side, nested, and copied with what hangs below; histories two activities or children with every life; a
service error has up to two wrappers, a step's failure up to two child workflows around it; histories of a reset have up to
four activities decided in pairs; a machine has credentials for
the project and for one workflow or environment, or for a workflow with the name of an environment, each file there or not, each key there, missing or another, and
workers that know the workflow by an alias with a key of its own; models of `costs.yml` are named in full, by a prefix and by a longer one; labels
are shorter, as long and longer than the gutter.

`MaxErrors`, `MaxEnds`, `MaxRuns`, `MaxEvents`, `MaxFaults`, `MaxSteps`, `MaxFeedback`, `MaxFetches` are bounds
of the models; `N`, `Concurrency`, `MaxFailures`, `MaxRetries`, `PageSize`, `MaxConsecutiveErrors`, `MaxAttempts`, `CacheMax`
are the code's parameters, smaller. Deadlock is checked except in `TraceUpload`, `WorkflowMonitor`,
`HistoryStream`, `LlmCall`, `ApiOperations`, `WorkflowRun`, `DevSession` and `Calculations`, where a finished workflow, call,
process, session or calculation leaves nothing to do.

## 4. Fairness

* `ParallelJobs`: continuations run, started jobs settle (activities have timeouts). Not: that a callback throws.
* `WorkerLifecycle`: continuations; setup awaits end; Temporal ends a drain at its force time; a check ends at its timeout; the flush has a timer. Not: that hooks settle, that signals come, that the watchdog fires.
* `WorkflowRun`: the server dispatches queued attempts and keeps its start-to-close and heartbeat timeouts. Not: that the function goes on, that an attempt ends by itself, that feedback comes, that a write ends.
* `TraceUpload`: an `exec()` that began ends one way or another; Redis expires keys. Not: that entries land.
* `LlmCall`: continuations resume and timers fire; a stream's parts are finite. Not: that the provider ever sends anything more.
* `ApiOperations`: timers fire, calls of a closed client reject, the closing goes on. Not: that a call of an open client answers, that the workflow moves.
* `HistoryStream`: the server answers, the EventSource reads and reconnects. Not: that the run goes on, that calls fail.
* `WorkflowMonitor`: the loop wakes, a request is answered or fails. Not: that the workflow moves or the user detaches.
* `DevSession`: the command goes on, the health check has its two minutes, a compose told to stop stops. Not: that services get healthy, that the user or a signal comes.
* `CatalogPublisher`, `RunDetail` and `Calculations` have no liveness property and no fairness.

## 5. What is proved

Each theorem holds for every value of the module's constants under its named assumptions, which the code justifies and TLC
evaluates. All have the same shape: an inductive invariant, implied by the initial states, kept by each action (a lemma per
action or group of actions), and implying the property.

`ParallelJobsProofs`, for every number of jobs and every concurrency of at least one (as the zod schema
demands): the limit, that a race can be won, the
order of the answer and the refinement of `JobBatch`. `IInv` is what makes these inductive: each job is in
one place (pool, active, reported), slots are full while jobs wait, results equal outcomes, a race
without a winner has only pending jobs (so the loop cannot miss one), and what each `pc` says. `Limit`
counts running jobs as a subset of the active; `CanBeWon` needs the full slots; `InJobOrder` rests on the lemma
`SortedInPlace`: ranks over distinct indices 1..N put job *j* at place *j*. The refinement has one lemma
per action.

`WorkerProofs`, on the process of a worker, for any finite set of hooks and any budget of failed checks: the shutdown is in order, exit
code 0 hides no failure, and an aborted worker begins no work. The heart is `Racing`: in the race a worker
can have ended only before the abort, because an abort makes the monitor return at once; so a worker
whose drain fails is always seen by `shutdownServices` (`FailureKept`). `WorkerInStep` and `ConnectionInStep` say
where worker and connection can be at each await, `OnErrorInStep` that the onError call is in the flush's snapshot.

On its publisher (`PublisherIInv`), for every finite set of workers, any assignment of hashes and any retry and error
bounds: a worker serves with its own catalog, and no publisher
ends a run of its own hash. The strengthening says that an open run is the last, that a run about to be terminated has
another hash, that a publisher which ended well has had a run of its hash, and that a closed run was closed by a
worker of another hash. Hashes of past runs never change (`StartRunKeeps`, `CloseRunKeeps`), so what was found stays true however late it is used.

On its traces (`TraceUpload`), for any spans, parents and number of deliveries of the root's end, in two parts. What was read is deleted only
once shown: a delivery at its delete has been through its own upload, and `shown` only grows. And `ShowsTheWorkflow`: the
invariant `EmittedIInv` says that entries are finitely many and that everything but the START of the workflow was emitted after it, whatever the
stamps say. A read has a first entry without a parent (`FirstIsThere`), and where no worker behind the Starter's clock has ended an attempt it is the
workflow's, whatever the clocks of the others (`WorkflowOnTop`). What `BuildTree` hangs is a recursive function over parents; the least set that
holds the root and the children of what it holds is one (`SomethingHangs`), and any such function hangs a span whose parent hangs
(`BuiltTree`), so no induction on the depth is needed.

`LlmCallProofs`, for any number of steps: billed at most once, billed in full, the
trace closed, billed before the abort is read, and no entry from a late abort. The strengthening has four parts:
`InvMetering` (a bill is in flight, emitted or lost, one at a time), `InvCoverage` (it covers every step unless
an error or the drain's deadline cut it short), `InvHooks` (which hook can have been called in which state) and
`InvTrace` (while nothing has closed the trace, somebody is still going to). `OneBill` needs the first;
`BilledInFull` the first two and the third, which says that a stream at rest has had its hook.

`ApiOperationsProofs`, for any requests, operations and number of runs: an answer is about one run, no request is
dropped before the grace time, and types. `RequestFits` says of one request what it relies on at each place
(`Waits`: a pinned request stays on its run, what it has read is of the run it saw) and what its answer tells
(`Tells`). It looks at the runs only through their first runs, which no step changes (`Grown`), so a
request that a step leaves alone still fits (`StillFits`), and each action shows that of its own request.
`SocketsKept` relates sockets, the grace timer and the client.

`ClientProofs`, four clients.

* `output dev` (`IInv`): type correctness, that the owned stack goes and that another's stays. The strengthening:
  before the dashboard nothing is owned, only what was started is owned and taken down, a clean-up leaves compose told to stop, and
  the dashboard leaves in peace only when compose has ended with everything stopped.
* The run detail (`DetailIInv`), for any number of runs, any ends of them and any cache limit: what is shown is of the run under the cursor or of the
  run the last fetch is for, the latter only over a run that has ended. A fetch is
  known by its number, and only the last one is listened to (`FetchesAreNumbered`, `LastFetchIsForTheAsked`); that sorting keeps each run in one place
  (`OneRunInEachPlace`) and that the cache stays a queue without repetition are lemmas about the list.
* The monitor (`MonitorIInv`), for any steps, page size, error budget and length of the chain: `TellsTheHistory` and `LeavesInTime`. `RunsFit`
  says what Temporal writes (a run handed over ends in the event that says so), `WalkFits` that cursor and page under way are a
  prefix of the same run and no status is remembered that the run has not kept, `LinesFit` that the lines printed are
  those of what was seen and of no later run, `OutcomeFits` that a detach is final. A deadline may elapse at any time. An answer that says that its run is
  closed has read all of it unless the deadline cut it short (`Drained`, `AnswersAreTaken`): the two parts of `LeavesInTime` about
  leaving rest on this (`LeavesWithLastWord`, `LosesTheChainCutShort`), with the exception the property names, and
  `TellsTheHistory` holds without any. The statuses of a step are read off the history by the lemmas `StatusIs` and
  `StatusOfNothing`; what a page holds above a cursor is proved from `HistoryPages` by the least counterexample.
* The stream (`StreamIInv`), for any page size and any number of drops and failures: `TellsTheRun`. `WireFits` says that the frames not yet read
  go on where the client is and end once, with the right word; `GivenSoFar` that only the run in the path is told
  of; `StreamFits` that the generator goes on from the end of the wire; `SourceFits` and `ChainFits` what source and server can be. It is
  proved under `Pinned`, the route with the run in its path, because without it the code skips events (see
  `HistoryStream` above).

`WorkflowRunProofs`, for any steps, waits, programs and retry limits and any number of feedbacks and faults: the
four invariants of the run. Each concerns a part of the state that few actions touch, so the invariant has parts with proofs of their own:
`FileKept` (a write that met no other is the only one and shows everything asked for), `FeedbackKept` (feedbacks
are buffered only while there is no handler, and the installed handler's wait is as old as the last feedback),
`ActKept` (an activity keeps to its attempts) with the step fact `NoneRenewed` (no attempt is to come that was not before),
`ApartKept` (nothing is said of an attempt to come, only its start of one being executed) and `OutcomeKept`. The trace
changes through `Emit` alone: `Emitted` says what it does to entries, whatever is said, and `IdsApart` that words about the
run, its waits and its attempts do not mix.

`CalculationsProofs`, with `ChargeProofs` for the bill and the report, for any inputs that meet the ten assumptions of `Calculations`. An answer is computed in one step, so
`AnswersAsComputed` only says what it was computed of; the work is in the lemmas about the algorithms.

* The bill (`CostsTellTheBill`), for a call of any number of requests, any tokens, rates and tiers. Sums over finite sets come first: `ByOneMore` is induction
  on finite sets for one property given as a set, from it `SumByName` (sums of a renamed set are the same) and `SumExchange` (rows
  first or columns first). `PricedListIs` says what a list of items adds up to, `TierIs` that the tier taken is that of the
  provider's bill, and `ListsAreTruthful` joins the three ways in which the lists come about: flat, by request, and as a whole because a request is
  not complete. In the last one the cost is never called precise; in the first it is the bill unless details were dropped.
* The report (`ReportIsRight`), for a trace of any shape. `CallsAre` says that the walk, which leaves out the subtree of a node it has seen, finds just
  the nodes of its kind that are no repetition; it rests on `SearchExists`, that the recursion over the trace has a solution, and on the first position at
  which it would be wrong. `SumOfKinds` adds up the figures by model and by host. `SamePrice` takes the kinds of line one by one: what `usage.js` and
  `cost.js` charge for an item is what `priceLines` makes of its line at the same rates; `ListsArePriced` says that
  whichever way the lists of a call are made their items are priced by one table of rates.
* The routes (`RequestsAreAnswered`), for any ids: a route that fits in length and in the fixed parts of its path is found, and of the forty none
  before it fits (`ReachesOnlyFit`, `OthersReachTheirOwn`). The ids matter in one place, where a catalog's id is the name of a route of workflows: the
  path is then that of the workflow `catalog` as well, whose route comes first (`TakenForWorkflow`).
* The waterfall (`DrawnAsItHappened`), for a history of any length with any times, in a terminal of any width: the place of a row is the number of
  openers ahead of it, which is different for each and below their number (`OneRowForEachOpener`); a label that fits is read whole and one that does not ends in
  an ellipsis, and the gutter is narrower than a label only at its widest (`PaddedOrTruncated`, `ClampedBelow`, `ReadsAlike`); rounding and clamping keep an order
  (`RoundedGrows`, `BarInLane`); a label of the ruler is placed after the last that was (`PlacedApart`, and along the ticks `RulerKeepsApart`: the first tick
  at which labels met would have a tick before it). `IsTimeline` assumes what Temporal guarantees: what starts or ends an activity or a child comes after
  what opened it, in its place and in its time, and nothing follows its end; of different ones, times may be in any order.
* The reset (`ResetIsRight`), for a history of any length: the decision that scheduled an event stands directly before it, so that nothing
  scheduled upon the step can lie before the first decision after its result. `IsHistory` assumes what Temporal guarantees, that what a decision
  schedules is written with it and that an activity completes once.
* The commands (`CommandIsTold`), for any fate of each try: `EveryCommand` takes from the table the few facts in which commands differ, `LastTry`
  says why a command stopped trying; what follows a start, a monitored run that fails included, is part of the outcome. `CanBefall` assumes that what was not sent was not done, and what was answered with success was.
* The credentials (`SecretIsKept`), for any machine, keys, files and values: commands and worker find the same key by different
  rules (`SameKey`), by two names for a workflow: unless these differ and the environment has a key for either, a file that a command can read the
  worker can (`DecryptsWhatMatches`, `WorkerFollowsTheFiles`); then one lemma per command. `IsSecret` only says
  what the fields of an input are.
* The failures (`RouteFailureIsTold`, `WorkflowFailureIsTold`), for chains of causes of any content: for routes of any length, for workflows as deep
  as the API looks (10 links for the second version of the payload, 20 for the first); deeper ones the code cuts off. `IsRouteFailure` assumes that what
  a route throws itself wraps no refusal of the server, and that a parser of a body wraps none either; which route is refused with which code or status is
  left open, so the theorem says that a refusal is answered by its own status and only a route's own errors by a documented one.
* The test run (`TestIsTold`), for a project of any cases and evaluators, in every mode and whatever order its cases come to be judged in. Each loop of
  the code is a recursive function of the number of cases it has gone through; that the function exists and what it has done so far (`ReadSoFar`, `RanSoFar`,
  `SavedSoFar`) is shown along the least number at which it would fail (`UpTo`), since the library's induction takes an operator as a
  parameter, which the provers cannot instantiate. `InOrder` says that the results of `executeInParallel` are in the order of the jobs: an increasing
  map of positions onto themselves leaves each where it is (`Increasing`). `VerdictsAreSaved` needs that names are not repeated, which the command refuses:
  a verdict is saved under the name of its case. `IsProject` says what a case consists of, and that each case asked for is judged once.
* The build (`CallsReachTheirImports`), for a project of any files, packages, names, imports and uses that a worker is built of. What is loaded claims
  no name twice (`ClaimedOnce`), so that a name or alias starts the workflow that declares it (`Starts`); activities, own and shared, are found under their
  own names (`ActivitiesAre`, which needs that an own one is compared with the shared ones); a local name is bound once, so that an import that is taken out gives
  each of its calls one declared name (`NameIs`) and any other leaves it what the module exports (`BoundIs`, `ExportedIs`). The validator has refused
  the one call of an activity that would be left alone (`NotAtTheTop`). Modules are reached in rounds (`ReachedIn`), which have a solution (`RoundsExist`) and
  miss nothing when they begin with more (`MoreIsReached`): what a workflow runs is among what was bundled and validated. `IsTree` assumes what JavaScript demands, that
  a module exports a name once and binds a local name once, and that a workflow is the default export of its file.

Only model-checked:

* liveness (`Returns`, `AbortEndsProcess`, `NothingLeftInRedis`, `EndsWithTheWorkflow`, `ComesToRest`, `FailureEnds`,
  `ShutdownEnds`, `ActivitiesSettle`, `QuitsAndSettles`), which needs fairness and ENABLED, out of the prover's reach;
* of `CallsWhatItImports` two parts: that a build is refused just when the case says that its project is not sound, since there is no definition of a
  sound project in the code to prove it from, and that an activity's call of a workflow was warned of, which holds of the imports that the validator reads. That calls
  reach what was imported is proved (`WorkersCallWhatTheyImport`).

No module declares a RECURSIVE operator; recursion is written as functions.

## 6. Not modelled, and what could follow

Not modelled because there is no behaviour to check, or because it lies outside:

* the contents of the catalog and the catalog workflow: a transformation of what was loaded, and one query. (A reader
  of `createCatalog` should know that it selects activities by the directory of the workflow file while activities are keyed by the workflow's name.)
* prompts, model mapping and options of LLM calls, image calls, the agent's message store;
* of the credentials: the encryption itself, other providers, `credential:` references in the environment, what a running worker has
  cached, and a failure between the two files `init` writes. (A reader should know that `init` asks for `--force` when
  the credentials file exists, not when only its key file does, so that an `init` for the project can replace a key that files of workflows are read with;
  the property names this case.)
* the traced HTTP client, logging, telemetry, configuration, formatting and colours;
* request and response schemas, search attributes, the query of the list of runs;
* symbolic links, hashes and options files of the loaders;
* `generate`, `plan`, `dataset list`, `fix`, `update`, `migrate`, scaffolding and coding agents: file templates and external tools;
* the panels of the dashboard other than the run detail, and its rendering.

Some properties cover their hazard in part, since the code has the behaviour and promises nothing else; they name it as their exception, and
`PROJECT.json` says so with each hazard: the lost tail of a run whose poll ran into its deadline, the detail that a late answer replaces, the root that a clock
behind the others puts on a trace, the older of two overlapping writes of the local trace, a wait for a webhook that another replaced, the unpinned description
after the result of `run`, a catalog with the name of a route, and keys that worker and command look for under two names. Polling on after the dashboard
has left is not covered.

Two hazards have no property, because the code promises nothing there and nothing in it excludes the loss: entries
that land between the read of an upload and its delete, and a second upload that shows less than the first. The
models have both behaviours.

What could follow: the agent's message store as a mode of `LlmCall`; the other polled panels of the dashboard; a composition of `ApiOperations` with
`HistoryStream`'s reconnects during the grace time.
