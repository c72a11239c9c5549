--------------------------- MODULE WorkerLifecycle ---------------------------
(***************************************************************************)
(* One worker process of sdk/core, from `execute()` of worker/index.js to  *)
(* process.exit: the setup, the race of the Temporal worker with the       *)
(* connection monitor, the abort signal and who sets it, the shutdown of   *)
(* the services in order, the RUNTIME_ERROR event, the flush of the hooks  *)
(* and the exit code.                                                      *)
(*                                                                         *)
(* JavaScript runs every continuation of a settled promise before the next *)
(* event.  A step of the world (a signal, a result, a timer) is therefore  *)
(* guarded by Quiet: no continuation is left to run.                       *)
(***************************************************************************)
EXTENDS Naturals, FiniteSets

CONSTANTS
  Hooks,        \* hook calls that events of the worker or of hooks may make
  OnError,      \* the call of the onError hook that RUNTIME_ERROR makes
  MaxFailures   \* MAX_FAILURES of the connection monitor

ASSUME HooksAssumption == IsFiniteSet(Hooks) /\ OnError \notin Hooks
ASSUME MaxFailuresAssumption == MaxFailures \in Nat \ {0}

VARIABLES
  pc,          \* where execute() and its finally are
  reason,      \* signal.reason: who aborted first
  signalled,   \* lastSignalDate: "never", "recent" (under 1 s ago) or "old"
  uncaught,    \* uncaughtHandled: the 60 s watchdog runs
  worker,      \* the Temporal worker's run state
  monitor,     \* the monitor's watch loop
  failures,    \* its failed health checks in a row
  connection,  \* services.connection
  stopErrors,  \* services that failed to stop
  hook,        \* per hook call: not made, in pendingHooks, or settled
  snapshot,    \* the calls that flushPendingHooks awaits
  flushed,     \* how the flush ended
  hasError,    \* as the finally computed it
  exit         \* "none", or the code, "0" or "1", and who called process.exit

vars == <<pc, reason, signalled, uncaught, worker, monitor, failures, connection,
          stopErrors, hook, snapshot, flushed, hasError, exit>>

signals == <<signalled, uncaught>>
ending  == <<snapshot, flushed, hasError, exit>>

\* The awaits of execute(), in order; the synchronous calls after each belong to it.
Setup == {"hooks", "load", "connect", "publish", "create"}
Calls == Hooks \cup {OnError}
Reasons == {"none", "kill", "uncaught", "failed"}

Aborted == reason # "none"
Alive == exit.code = "none"
WorkerOn == worker \in {"running", "draining"}
Watching == monitor \in {"checking", "sleeping"}

Init ==
  /\ pc = "hooks"
  /\ reason = "none"
  /\ signalled = "never"
  /\ uncaught = FALSE
  /\ worker = "none"
  /\ monitor = "none"
  /\ failures = 0
  /\ connection = "none"
  /\ stopErrors = {}
  /\ hook = [h \in Calls |-> "idle"]
  /\ snapshot = {}
  /\ flushed = "no"
  /\ hasError = FALSE
  /\ exit = [code |-> "none", by |-> "none"]

-----------------------------------------------------------------------------
\* abortController.abort(r): the first reason stays.  The runner's abort listener
\* calls shutdown() on a running worker; the monitor gets to its check later.
Abort(r) ==
  /\ reason' = IF Aborted THEN reason ELSE r
  /\ worker' = IF ~Aborted /\ worker = "running" THEN "draining" ELSE worker

\* The aborted signal cancels the monitor's sleep or its health check; its loop
\* returns and reports nothing.
MonitorStops ==
  /\ Watching
  /\ Aborted
  /\ monitor' = "stopped"
  /\ UNCHANGED <<pc, reason, worker, failures, connection, stopErrors, hook>>
  /\ UNCHANGED <<signals, ending>>

\* Promise.race( [ runner.start(), monitor.start() ] ) has settled.
RaceOver ==
  pc = "racing" /\ (worker \in {"stopped", "crashed"} \/ monitor \in {"stopped", "lost"})

\* shutdownServices begins: it awaits a worker that still runs or drains, and skips
\* one that never ran or has ended.  The monitor's turn comes after, its watch is over
\* by then (the signal is aborted), and then the connection's.
BeginShutdown == pc' = IF worker' \in {"running", "draining"} THEN "await_worker" ELSE "close"

\* execute() rejects with the race's error or with the abort reason, the catch
\* aborts (to no effect the second time) and the finally begins the shutdown.
Unwind ==
  /\ RaceOver
  /\ Abort("failed")
  /\ BeginShutdown
  /\ UNCHANGED <<monitor, failures, connection, stopErrors, hook, signals, ending>>

\* No continuation is ready to run.
Quiet ==
  /\ Alive
  /\ ~(Aborted /\ Watching)
  /\ ~RaceOver
  /\ pc # "report"

-----------------------------------------------------------------------------
After == [hooks |-> "load", load |-> "connect", connect |-> "publish", publish |-> "create",
          create |-> "racing"]

\* Slip: a setup that does not look at the signal between two of its steps.
SetupStepUnchecked ==
  /\ Quiet
  /\ pc \in Setup
  /\ connection' = IF pc = "connect" THEN "open" ELSE connection
  /\ pc' = After[pc]
  /\ IF pc = "create"
     THEN worker' = "running" /\ monitor' = "checking"
     ELSE UNCHANGED <<worker, monitor>>
  /\ UNCHANGED <<reason, failures, stopErrors, hook, signals, ending>>

\* An await of the setup is over and run() goes to the next one, or throws the abort
\* reason.  A worker created after the abort never runs.
SetupStep ==
  /\ Quiet
  /\ pc \in Setup
  /\ connection' = IF pc = "connect" THEN "open" ELSE connection
  /\ IF pc = "create"
     THEN /\ worker' = IF Aborted THEN "created" ELSE "running"
          /\ monitor' = IF Aborted THEN "none" ELSE "checking"
     ELSE UNCHANGED <<worker, monitor>>
  /\ IF Aborted THEN BeginShutdown ELSE pc' = After[pc]
  /\ UNCHANGED <<reason, failures, stopErrors, hook, signals, ending>>

\* An await of the setup rejects: a hook file or a workflow that does not load, no
\* connection, a catalog that cannot be published, a bundle that does not build.
SetupFails ==
  /\ Quiet
  /\ pc \in Setup
  /\ Abort("failed")
  /\ BeginShutdown
  /\ UNCHANGED <<monitor, failures, connection, stopErrors, hook, signals, ending>>

\* handleSignal: the first aborts, one within a second of it is npx's echo and is
\* ignored, a later one forces the exit.
FirstSignal ==
  /\ Quiet
  /\ signalled = "never"
  /\ Abort("kill")
  /\ signalled' = "recent"
  /\ UNCHANGED <<pc, uncaught, monitor, failures, connection, stopErrors, hook, ending>>

EchoedSignal ==
  /\ Quiet
  /\ signalled = "recent"
  /\ UNCHANGED vars

SecondPasses ==
  /\ Quiet
  /\ signalled = "recent"
  /\ signalled' = "old"
  /\ UNCHANGED <<pc, reason, uncaught, worker, monitor, failures, connection, stopErrors,
                 hook, ending>>

ForcedQuit ==
  /\ Quiet
  /\ signalled = "old"
  /\ exit' = [code |-> "1", by |-> "force"]
  /\ UNCHANGED <<pc, reason, signals, worker, monitor, failures, connection, stopErrors,
                 hook, snapshot, flushed, hasError>>

\* handleUncaught: aborts and starts the 60 s watchdog, once.
Uncaught ==
  /\ Quiet
  /\ ~uncaught
  /\ Abort("uncaught")
  /\ uncaught' = TRUE
  /\ UNCHANGED <<pc, signalled, monitor, failures, connection, stopErrors, hook, ending>>

Watchdog ==
  /\ Quiet
  /\ uncaught
  /\ exit' = [code |-> "1", by |-> "watchdog"]
  /\ UNCHANGED <<pc, reason, signals, worker, monitor, failures, connection, stopErrors,
                 hook, snapshot, flushed, hasError>>

-----------------------------------------------------------------------------
\* worker.run() rejects while it polls.
WorkerCrashes ==
  /\ Quiet
  /\ worker = "running"
  /\ worker' = "crashed"
  /\ UNCHANGED <<pc, reason, monitor, failures, connection, stopErrors, hook, signals, ending>>

\* The drain ends: all done, or given up at the force time (run() rejects).
DrainEnds ==
  /\ Quiet
  /\ worker = "draining"
  /\ worker' \in {"stopped", "crashed"}
  /\ UNCHANGED <<pc, reason, monitor, failures, connection, stopErrors, hook, signals, ending>>

\* A health check answers: the count of failures starts again and the loop sleeps.
CheckOk ==
  /\ Quiet
  /\ monitor = "checking"
  /\ failures' = 0
  /\ monitor' = "sleeping"
  /\ UNCHANGED <<pc, reason, worker, connection, stopErrors, hook, signals, ending>>

\* A health check fails or times out; one failure too many loses the connection.
CheckFails ==
  /\ Quiet
  /\ monitor = "checking"
  /\ failures' = failures + 1
  /\ monitor' = IF failures' >= MaxFailures THEN "lost" ELSE "sleeping"
  /\ UNCHANGED <<pc, reason, worker, connection, stopErrors, hook, signals, ending>>

NextCheck ==
  /\ Quiet
  /\ monitor = "sleeping"
  /\ monitor' = "checking"
  /\ UNCHANGED <<pc, reason, worker, failures, connection, stopErrors, hook, signals, ending>>

\* Work of the worker emits an event, or a hook that is not over yet emits one; the
\* handler is called and its promise tracked (callHookCb).
HookCalled(h) ==
  /\ Quiet
  /\ hook[h] = "idle"
  /\ WorkerOn \/ \E g \in Calls : hook[g] = "pending"
  /\ hook' = [hook EXCEPT ![h] = "pending"]
  /\ UNCHANGED <<pc, reason, worker, monitor, failures, connection, stopErrors, signals, ending>>

\* A handler resolves or throws; either is settled and leaves pendingHooks.
HookSettles(h) ==
  /\ Quiet
  /\ hook[h] = "pending"
  /\ hook' = [hook EXCEPT ![h] = "settled"]
  /\ UNCHANGED <<pc, reason, worker, monitor, failures, connection, stopErrors, signals, ending>>

-----------------------------------------------------------------------------
\* Slip: the worker is told to stop and not awaited.
WorkerUnawaited ==
  /\ Quiet
  /\ pc = "await_worker"
  /\ stopErrors' = IF worker = "crashed" THEN stopErrors \cup {"worker"} ELSE stopErrors
  /\ pc' = "close"
  /\ UNCHANGED <<reason, worker, monitor, failures, connection, hook, signals, ending>>

\* The worker that shutdownServices awaits has ended; a drain that failed is kept.
WorkerStopped ==
  /\ Quiet
  /\ pc = "await_worker"
  /\ ~WorkerOn
  /\ stopErrors' = IF worker = "crashed" THEN stopErrors \cup {"worker"} ELSE stopErrors
  /\ pc' = "close"
  /\ UNCHANGED <<reason, worker, monitor, failures, connection, hook, signals, ending>>

\* connection.close(): refused while a worker holds the connection, which only the
\* end of its run() releases; it may fail for reasons of its own too.
CloseConnection ==
  /\ Quiet
  /\ pc = "close"
  /\ pc' = "report"
  /\ IF connection = "none"
     THEN UNCHANGED <<connection, stopErrors>>
     ELSE \/ /\ worker \notin {"created", "running", "draining"}
             /\ connection' = "closed"
             /\ UNCHANGED stopErrors
          \/ /\ connection' = IF worker \in {"created", "running", "draining"}
                              THEN "refused" ELSE "broken"
             /\ stopErrors' = stopErrors \cup {"connection"}
  /\ UNCHANGED <<reason, worker, monitor, failures, hook, signals, ending>>

\* The finally after the shutdown: an abort that was not a kill signal is an error
\* and RUNTIME_ERROR calls the onError hook, when the project has one loaded; then
\* flushPendingHooks takes its snapshot.
Report ==
  /\ Alive
  /\ pc = "report"
  /\ pc' = "flush"
  /\ hasError' = (reason # "kill")
  /\ \E loaded \in BOOLEAN :
       hook' = IF hasError' /\ loaded THEN [hook EXCEPT ![OnError] = "pending"] ELSE hook
  /\ snapshot' = {h \in Calls : hook'[h] = "pending"}
  /\ UNCHANGED <<reason, worker, monitor, failures, connection, stopErrors, signals, flushed, exit>>

\* Slip: no timeout on the flush.
FlushEndsWhenSettled ==
  /\ Quiet
  /\ pc = "flush"
  /\ \A h \in snapshot : hook[h] = "settled"
  /\ flushed' = "all"
  /\ pc' = "bye"
  /\ UNCHANGED <<reason, worker, monitor, failures, connection, stopErrors, hook, signals,
                 snapshot, hasError, exit>>

\* The snapshot has settled, or the flush timeout has passed.
FlushEnds ==
  /\ Quiet
  /\ pc = "flush"
  /\ flushed' = IF \A h \in snapshot : hook[h] = "settled" THEN "all" ELSE "timeout"
  /\ pc' = "bye"
  /\ UNCHANGED <<reason, worker, monitor, failures, connection, stopErrors, hook, signals,
                 snapshot, hasError, exit>>

\* Slip: a drain that failed does not count.
ExitCodeOfError == IF hasError THEN "1" ELSE "0"

\* Only the worker's failure to stop and an error that was reported change the code.
ExitCode == IF "worker" \in stopErrors \/ hasError THEN "1" ELSE "0"

\* setTimeout( () => process.exit( exitCode ) ).
Bye ==
  /\ Quiet
  /\ pc = "bye"
  /\ exit' = [code |-> ExitCode, by |-> "finally"]
  /\ UNCHANGED <<pc, reason, signals, worker, monitor, failures, connection, stopErrors,
                 hook, snapshot, flushed, hasError>>

\* process.exit was called.
Exited == ~Alive /\ UNCHANGED vars

Next ==
  \/ SetupStep
  \/ SetupFails
  \/ FirstSignal
  \/ EchoedSignal
  \/ SecondPasses
  \/ ForcedQuit
  \/ Uncaught
  \/ Watchdog
  \/ WorkerCrashes
  \/ DrainEnds
  \/ CheckOk
  \/ CheckFails
  \/ NextCheck
  \/ \E h \in Hooks : HookCalled(h)
  \/ \E h \in Calls : HookSettles(h)
  \/ MonitorStops
  \/ Unwind
  \/ WorkerStopped
  \/ CloseConnection
  \/ Report
  \/ FlushEnds
  \/ Bye
  \/ Exited

\* Continuations run; the awaits of the setup end (connections and bundles have
\* their own timeouts), Temporal ends a drain at the force time, a health check at
\* its timeout, the flush has its timer.  Hooks may never settle, signals never come.
Fairness ==
  /\ WF_vars(SetupStep \/ SetupFails)
  /\ WF_vars(DrainEnds)
  /\ WF_vars(CheckOk \/ CheckFails)
  /\ WF_vars(NextCheck)
  /\ WF_vars(MonitorStops)
  /\ WF_vars(Unwind)
  /\ WF_vars(WorkerStopped)
  /\ WF_vars(CloseConnection)
  /\ WF_vars(Report)
  /\ WF_vars(FlushEnds)
  /\ WF_vars(Bye)

Spec == Init /\ [][Next]_vars
FairSpec == Spec /\ Fairness
-----------------------------------------------------------------------------
\* Type invariant: in particular the monitor's count stops at MAX_FAILURES.
TypeOK ==
  /\ pc \in Setup \cup {"racing", "await_worker", "close", "report", "flush", "bye"}
  /\ reason \in Reasons
  /\ signalled \in {"never", "recent", "old"}
  /\ uncaught \in BOOLEAN
  /\ worker \in {"none", "created", "running", "draining", "stopped", "crashed"}
  /\ monitor \in {"none", "checking", "sleeping", "stopped", "lost"}
  /\ failures \in 0 .. MaxFailures
  /\ connection \in {"none", "open", "closed", "refused", "broken"}
  /\ stopErrors \subseteq {"worker", "connection"}
  /\ hook \in [Calls -> {"idle", "pending", "settled"}]
  /\ snapshot \subseteq Calls
  /\ flushed \in {"no", "all", "timeout"}
  /\ hasError \in BOOLEAN
  /\ exit \in [code : {"none", "0", "1"}, by : {"none", "force", "watchdog", "finally"}]
-----------------------------------------------------------------------------
(***************************************************************************)
(* What must hold.                                                         *)
(***************************************************************************)
\* The connection is closed under no worker that polls or drains: the only close
\* that is refused is that of a connection whose worker was created and never run.
ConnectionOutlivesWorker ==
  /\ connection \in {"closed", "broken"} => ~WorkerOn
  /\ connection = "refused" => worker = "created"

\* Exit code 0 means a signal asked for the shutdown and the worker drained: a worker
\* that failed, before the shutdown or during it, is never hidden (core.mdx, table
\* of exit codes).
ZeroMeansDrained ==
  exit.code = "0" => reason = "kill" /\ worker \in {"none", "created", "stopped"}

\* The onError hook that an error calls is awaited like every other: when the process
\* ends by itself it has settled, or the flush ran into its timeout.
OnErrorAwaited ==
  exit.by = "finally" /\ hook[OnError] # "idle" => hook[OnError] = "settled" \/ flushed = "timeout"

\* The process takes itself down in order, whatever is still pending then.
ShutsDownInOrder == TypeOK /\ ConnectionOutlivesWorker /\ OnErrorAwaited

\* A worker that was asked to stop, at any time since the process started, never
\* begins to take work.
NoStartOnceAborted == [][Aborted /\ worker' = "running" => worker = "running"]_vars

\* Whatever aborts the signal, at whatever point of the setup or the run, the process
\* ends: a hook that never settles cannot keep it.
AbortEndsProcess == Aborted ~> ~Alive
=============================================================================
