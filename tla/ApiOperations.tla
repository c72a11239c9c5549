--------------------------- MODULE ApiOperations ---------------------------
(***************************************************************************)
(* The operations of the HTTP API on one workflow id                       *)
(* (api/src/clients/temporal/workflow), inside the process that serves     *)
(* them (api/src/index.js), while the workflow goes on by itself.          *)
(*                                                                         *)
(* `runs` is the Temporal server's list of runs of the id; the last one is *)
(* the latest.  A request is cut at its awaits: `at` names the call it is  *)
(* waiting for.  The answer remembers of which run each part of it is, so  *)
(* that parts of different runs can be told apart.  The process listens,   *)
(* closes once on a signal or a lost connection, and exits.                *)
(***************************************************************************)
EXTENDS Naturals, Sequences, FiniteSets

CONSTANTS
    Requests,       \* the requests of a run of the model
    Ops,            \* the operations each of them may ask for
    MaxRuns         \* bound: runs of the workflow id

AllOps == {"run", "start", "result", "trace", "status", "input",
           "stop", "terminate", "reset", "message", "stream"}

ASSUME OpsAssumption == Ops \in [Requests -> SUBSET AllOps]
ASSUME MaxRunsAssumption == MaxRuns \in Nat \ {0}

VARIABLES
    runs,       \* runs of the workflow id at the server
    request,    \* the requests and their answers
    timers,     \* requests whose execution timeout has not fired
    server,     \* the HTTP server
    client,     \* the Temporal client is open
    grace,      \* the grace timer: "off", "armed", "fired"
    lost,       \* onConnectionLost was called
    exited      \* how the process ended

vars == <<runs, request, timers, server, client, grace, lost, exited>>

RunIds == 1 .. MaxRuns

(* Nothing here tells the other closed statuses apart. *)
Closed == {"ended", "continued_as_new"}

(* How far the step of a reset is: not scheduled, not completed with a later workflow
   task, and completed with one. *)
Progress == {"none", "scheduled", "settled"}

(* A request that nothing was read for yet. *)
Routed(op, pin, at, socket) ==
    [op |-> op, pin |-> pin, at |-> at, seen |-> pin, mark |-> 0, socket |-> socket,
     ok |-> FALSE, run |-> 0, parts |-> {}]

NoRequest == Routed("none", 0, "idle", "none")

RunType == [status : Closed \cup {"running"}, first : RunIds, step : Progress]

(* The calls a request may be waiting for. *)
Places == {"idle", "catalog", "start", "result", "describe", "page", "first",
           "outcome", "download", "act", "history", "reset", "parked", "done"}

RequestType ==
    [op : AllOps \cup {"none"}, pin : 0 .. MaxRuns, at : Places,
     seen : 0 .. MaxRuns, mark : 0 .. MaxRuns,
     socket : {"none", "open", "answered", "dropped"},
     ok : BOOLEAN,
     run : 0 .. MaxRuns, parts : SUBSET RunIds]

TypeOK ==
    /\ runs \in Seq(RunType) /\ Len(runs) <= MaxRuns
    /\ request \in [Requests -> RequestType]
    /\ timers \subseteq Requests
    /\ server \in {"listening", "closing", "closed"}
    /\ client \in BOOLEAN /\ lost \in BOOLEAN
    /\ grace \in {"off", "armed", "fired"}
    /\ exited \in {"no", "zero", "one"}

Init ==
    /\ runs \in {<<>>} \cup
         {<<[status |-> "running", first |-> 1, step |-> "settled"]>>}
    /\ request = [r \in Requests |-> NoRequest]
    /\ timers = {}
    /\ server = "listening" /\ client = TRUE /\ grace = "off"
    /\ lost = FALSE /\ exited = "no"

-----------------------------------------------------------------------------
(* The Temporal server *)

Latest == Len(runs)
Open(i) == i \in DOMAIN runs /\ runs[i].status = "running"
NewRun(first, step) == [status |-> "running", first |-> first, step |-> step]

(* The run a handle stands for: the pinned one or the latest. *)
Target(r) == IF request[r].pin # 0 THEN request[r].pin ELSE Latest

Alive == exited = "no"
Process == <<server, client, grace, lost, exited>>

(* The workflow by itself: its step advances, it closes, or it continues as new. *)
StepAdvances ==
    /\ Open(Latest)
    /\ \E s \in {<<"none", "scheduled">>, <<"scheduled", "settled">>} :
          runs[Latest].step = s[1] /\ runs' = [runs EXCEPT ![Latest].step = s[2]]
    /\ UNCHANGED <<request, timers, Process>>

RunCloses ==
    /\ Open(Latest)
    /\ runs' = [runs EXCEPT ![Latest].status = "ended"]
    /\ UNCHANGED <<request, timers, Process>>

ContinuesAsNew ==
    /\ Open(Latest) /\ Latest < MaxRuns
    /\ runs' = Append([runs EXCEPT ![Latest].status = "continued_as_new"],
                      NewRun(runs[Latest].first, "none"))
    /\ UNCHANGED <<request, timers, Process>>

Workflow == StepAdvances \/ RunCloses \/ ContinuesAsNew

-----------------------------------------------------------------------------
(* A request goes on, answers, or fails *)

(* The request waits for its next call, with the run it has seen and the run of what
   it has read. *)
Await(r, at, seen, mark) ==
    request' = [request EXCEPT ![r] =
        [op |-> request[r].op, pin |-> request[r].pin, at |-> at, seen |-> seen,
         mark |-> mark, socket |-> request[r].socket,
         ok |-> FALSE, run |-> 0, parts |-> {}]]

(* The request is over, of the run `pin` and with what `ok` says; a socket that was
   closed meanwhile takes no answer. *)
Over(r, pin, ok, run, parts) ==
    request' = [request EXCEPT ![r] =
        [op |-> request[r].op, pin |-> pin, at |-> "done", seen |-> 0, mark |-> 0,
         socket |-> IF request[r].socket = "open" THEN "answered" ELSE request[r].socket,
         ok |-> ok, run |-> run, parts |-> parts]]

(* The handler answers with what it has of the runs in `parts`. *)
Answer(r, run, parts) == Over(r, request[r].pin, TRUE, run, parts)

(* errorHandler answers the error. *)
Fail(r) == Over(r, 0, FALSE, 0, {})

At(r, ops, at) == Alive /\ client /\ request[r].op \in ops /\ request[r].at = at

(* What each operation waits for first; input and reset of a pinned run need no
   description. *)
FirstCall(op, pin) ==
    CASE op \in {"run", "start"} -> "catalog"
      [] op \in {"result", "trace", "status"} -> "describe"
      [] op = "input" -> IF pin # 0 THEN "page" ELSE "describe"
      [] op \in {"stop", "terminate", "message"} -> "act"
      [] op = "reset" -> IF pin # 0 THEN "history" ELSE "describe"
      [] op = "stream" -> "parked"

(* A request is routed.  Signals, queries, updates and starts have no pinned route.
   A body or a run id that does not parse is answered at once. *)
Arrives(r) ==
    /\ Alive /\ server = "listening" /\ request[r].op = "none"
    /\ \E op \in Ops[r], pin \in {0} \cup DOMAIN runs :
         /\ op \in {"run", "start", "message", "stream"} => pin = 0
         /\ \/ request' = [request EXCEPT ![r] = Routed(op, pin, FirstCall(op, pin), "open")]
            \/ request' = [request EXCEPT ![r] = Routed(op, 0, "done", "answered")]
    /\ UNCHANGED <<runs, timers, Process>>

(* A call of Temporal or S3 fails; once the client is closed it can only fail. *)
CallFails(r) ==
    /\ Alive /\ request[r].at \notin {"idle", "parked", "done"}
    /\ Fail(r)
    /\ UNCHANGED <<runs, timers, Process>>

-----------------------------------------------------------------------------
(* run and start *)

(* resolveWorkflowName reads the memo of the catalog workflow. *)
ResolvesName(r) ==
    /\ At(r, {"run", "start"}, "catalog")
    /\ \/ Await(r, "start", 0, 0)
       \/ Fail(r)
    /\ UNCHANGED <<runs, timers, Process>>

(* client.workflow.start: refused while a run of the id is open.  `run` also arms
   its execution timeout, which nothing clears. *)
Starts(r) ==
    /\ At(r, {"run", "start"}, "start")
    /\ \/ /\ Open(Latest)
          /\ Fail(r)
          /\ UNCHANGED <<runs, timers>>
       \/ /\ ~Open(Latest) /\ Latest < MaxRuns
          /\ runs' = Append(runs, NewRun(Latest + 1, "none"))
          /\ IF request[r].op = "start"
             THEN Answer(r, Latest + 1, {Latest + 1}) /\ UNCHANGED timers
             ELSE Await(r, "result", Latest + 1, 0) /\ timers' = timers \cup {r}
    /\ UNCHANGED Process

(* handle.result() follows the run that was started through its continuations, each
   of which is the next run of the id. *)
Continues(started, i) ==
    i >= started /\ \A j \in started .. i - 1 : runs[j].status = "continued_as_new"

ResultArrives(r) ==
    /\ At(r, {"run"}, "result")
    /\ \E i \in DOMAIN runs :
          /\ Continues(request[r].seen, i)
          /\ runs[i].status = "ended"
          /\ Await(r, "describe", request[r].seen, i)
    /\ UNCHANGED <<runs, timers, Process>>

(* The execution timeout fires; it only matters while the result is awaited. *)
ExecutionTimesOut(r) ==
    /\ Alive /\ r \in timers
    /\ timers' = timers \ {r}
    /\ IF request[r].at = "result" THEN Fail(r) ELSE UNCHANGED request
    /\ UNCHANGED <<runs, Process>>

(* The description that closes `run` is of the latest run of the id, whatever it
   is; the run id answered is that of the run that was started. *)
RunDescribes(r) ==
    /\ At(r, {"run"}, "describe")
    /\ Answer(r, request[r].seen, {request[r].mark, Latest})
    /\ UNCHANGED <<runs, timers, Process>>

-----------------------------------------------------------------------------
(* result, trace-log, status, input *)

(* Slip: the outcome is read through the handle of the request. *)
OutcomeUnpinned(r) ==
    /\ At(r, {"result", "trace"}, "outcome")
    /\ LET i == Target(r) IN
       IF request[r].op = "result" THEN Answer(r, request[r].seen, {request[r].seen, i})
       ELSE Await(r, "download", request[r].seen, i)
    /\ UNCHANGED <<runs, timers, Process>>

(* getResult: one description decides about the run, its first page gives the input,
   and the outcome is read of the run that was described. *)
ResultDescribes(r) ==
    /\ At(r, {"result", "trace"}, "describe")
    /\ IF Target(r) = 0 THEN Fail(r)
       ELSE IF Open(Target(r)) THEN Fail(r) ELSE Await(r, "page", Target(r), 0)
    /\ UNCHANGED <<runs, timers, Process>>

ResultPages(r) ==
    /\ At(r, {"result", "trace"}, "page")
    /\ IF runs[request[r].seen].status # "continued_as_new"
       THEN Await(r, "outcome", request[r].seen, 0)
       ELSE IF request[r].op = "result"
            THEN Answer(r, request[r].seen, {request[r].seen})
            ELSE Await(r, "download", request[r].seen, request[r].seen)
    /\ UNCHANGED <<runs, timers, Process>>

Outcome(r) ==
    /\ At(r, {"result", "trace"}, "outcome")
    /\ LET i == request[r].seen IN
       IF request[r].op = "result" THEN Answer(r, i, {i})
       ELSE Await(r, "download", request[r].seen, i)
    /\ UNCHANGED <<runs, timers, Process>>

(* The trace-log handler: a remote trace is fetched, a local one is named, and a run
   without a trace is not found. *)
TraceIsFetched(r) ==
    /\ At(r, {"trace"}, "download")
    /\ \/ Answer(r, request[r].seen, {request[r].seen, request[r].mark})
       \/ Fail(r)
    /\ UNCHANGED <<runs, timers, Process>>

StatusDescribes(r) ==
    /\ At(r, {"status"}, "describe")
    /\ IF Target(r) = 0 THEN Fail(r) ELSE Answer(r, Target(r), {Target(r)})
    /\ UNCHANGED <<runs, timers, Process>>

(* getInput: an unpinned read goes back to the first run of the chain. *)
InputDescribes(r) ==
    /\ At(r, {"input"}, "describe")
    /\ IF Latest = 0 THEN Fail(r) ELSE Await(r, "page", Latest, 0)
    /\ UNCHANGED <<runs, timers, Process>>

InputPages(r) ==
    /\ At(r, {"input"}, "page")
    /\ LET seen == request[r].seen
           first == runs[seen].first IN
       IF request[r].pin = 0 /\ first # seen THEN Await(r, "first", first, 0)
       ELSE Answer(r, seen, {seen})
    /\ UNCHANGED <<runs, timers, Process>>

InputOfFirst(r) ==
    /\ At(r, {"input"}, "first")
    /\ Answer(r, request[r].seen, {request[r].seen})
    /\ UNCHANGED <<runs, timers, Process>>

-----------------------------------------------------------------------------
(* stop, terminate, reset, messages *)

(* A closed run cannot be stopped: the server answers NOT_FOUND.  A stop asks the
   workflow to cancel itself, which it may do at any time; a terminate ends the run.
   A pinned request is answered at once, another describes the workflow to name the
   run. *)
Stops(r) ==
    /\ At(r, {"stop", "terminate"}, "act")
    /\ LET i == Target(r) IN
       IF ~Open(i) THEN Fail(r) /\ UNCHANGED runs
       ELSE /\ runs' = IF request[r].op = "stop" THEN runs
                       ELSE [runs EXCEPT ![i].status = "ended"]
            /\ IF request[r].pin # 0 THEN Answer(r, i, {i})
               ELSE Await(r, "describe", request[r].seen, i)
    /\ UNCHANGED <<timers, Process>>

StopDescribes(r) ==
    /\ At(r, {"stop", "terminate"}, "describe")
    /\ Answer(r, Latest, {request[r].mark})
    /\ UNCHANGED <<runs, timers, Process>>

ResetDescribes(r) ==
    /\ At(r, {"reset"}, "describe")
    /\ IF Latest = 0 THEN Fail(r) ELSE Await(r, "history", Latest, 0)
    /\ UNCHANGED <<runs, timers, Process>>

(* resolveResetEventId on the history of the run resolved before. *)
ReadsHistory(r) ==
    /\ At(r, {"reset"}, "history")
    /\ LET i == request[r].seen
           step == runs[i].step IN
       \/ step = "none" /\ Fail(r)
       \/ step = "scheduled" /\ Fail(r)
       \/ /\ step = "settled"
          /\ Await(r, "reset", request[r].seen, i)
    /\ UNCHANGED <<runs, timers, Process>>

(* resetWorkflowExecution: the open run is terminated and a new run of the chain of
   the run that was reset replays up to the event. *)
Resets(r) ==
    /\ At(r, {"reset"}, "reset") /\ Latest < MaxRuns
    /\ LET i == request[r].seen
           ended == [j \in DOMAIN runs |->
                       IF runs[j].status = "running" THEN [runs[j] EXCEPT !.status = "ended"]
                       ELSE runs[j]] IN
       /\ runs' = Append(ended, NewRun(runs[i].first, "settled"))
       /\ Answer(r, Latest + 1, {i, request[r].mark})
    /\ UNCHANGED <<timers, Process>>

(* A signal, query or update of the latest run; only a query reaches a closed one. *)
Messages(r) ==
    /\ At(r, {"message"}, "act")
    /\ \/ Latest # 0 /\ Answer(r, Latest, {Latest})
       \/ ~Open(Latest) /\ Fail(r)
    /\ UNCHANGED <<runs, timers, Process>>

Handles(r) ==
    \/ ResolvesName(r) \/ Starts(r) \/ ResultArrives(r) \/ RunDescribes(r)
    \/ ResultDescribes(r) \/ ResultPages(r) \/ Outcome(r) \/ TraceIsFetched(r)
    \/ StatusDescribes(r) \/ InputDescribes(r) \/ InputPages(r) \/ InputOfFirst(r)
    \/ Stops(r) \/ StopDescribes(r)
    \/ ResetDescribes(r) \/ ReadsHistory(r) \/ Resets(r) \/ Messages(r)

-----------------------------------------------------------------------------
(* The process *)

InFlight == {r \in Requests : request[r].socket = "open"}

(* Slip: every socket is closed up front. *)
BeginsShutdownAbruptly ==
    /\ server = "listening"
    /\ server' = "closing" /\ grace' = "armed"
    /\ request' = [r \in Requests |->
          IF r \in InFlight THEN [request[r] EXCEPT !.socket = "dropped"] ELSE request[r]]

(* shutdown up to its first await, once: no new connections, idle ones freed, the
   grace timer armed. *)
BeginsShutdown ==
    /\ server = "listening"
    /\ server' = "closing" /\ grace' = "armed"
    /\ UNCHANGED request

(* A signal, or the third failed check of the monitor.  The later one finds the
   shutdown begun and only waits for it. *)
SignalArrives ==
    /\ Alive
    /\ BeginsShutdown
    /\ UNCHANGED <<runs, timers, client, lost, exited>>

ConnectionLost ==
    /\ Alive /\ ~lost
    /\ lost' = TRUE
    /\ \/ BeginsShutdown
       \/ server # "listening" /\ UNCHANGED <<server, grace, request>>
    /\ UNCHANGED <<runs, timers, client, exited>>

(* Slip: the grace timer only frees idle connections. *)
GraceEndsGently ==
    /\ Alive /\ grace = "armed" /\ server = "closing"
    /\ grace' = "fired"
    /\ UNCHANGED <<runs, request, timers, server, client, lost, exited>>

(* The grace timer closes every socket; the handlers behind them go on. *)
GraceEnds ==
    /\ Alive /\ grace = "armed" /\ server = "closing"
    /\ grace' = "fired"
    /\ request' = [r \in Requests |->
          IF r \in InFlight THEN [request[r] EXCEPT !.socket = "dropped"] ELSE request[r]]
    /\ UNCHANGED <<runs, timers, server, client, lost, exited>>

(* The last socket is gone: the server is closed and the timer cleared. *)
ServerCloses ==
    /\ Alive /\ server = "closing" /\ InFlight = {}
    /\ server' = "closed"
    /\ grace' = IF grace = "armed" THEN "off" ELSE grace
    /\ UNCHANGED <<runs, request, timers, client, lost, exited>>

ClientCloses ==
    /\ Alive /\ server = "closed" /\ client
    /\ client' = FALSE
    /\ UNCHANGED <<runs, request, timers, server, grace, lost, exited>>

(* After a lost connection the process exits; after a signal it ends when nothing
   is left that keeps it: no call and no execution timeout. *)
Exits ==
    /\ Alive /\ ~client
    /\ \/ lost /\ exited' = "one"
       \/ /\ ~lost /\ timers = {}
          /\ \A r \in Requests : request[r].at \in {"idle", "parked", "done"}
          /\ exited' = "zero"
    /\ UNCHANGED <<runs, request, timers, server, client, grace, lost>>

Next ==
    \/ Workflow
    \/ \E r \in Requests : Arrives(r) \/ Handles(r) \/ CallFails(r) \/ ExecutionTimesOut(r)
    \/ SignalArrives \/ ConnectionLost \/ GraceEnds \/ ServerCloses \/ ClientCloses \/ Exits

(* Timers fire, a closed client's calls reject, and the closing goes on.  A call of
   an open client may take for ever, and nothing is asked of the workflow. *)
Fairness ==
    /\ \A r \in Requests : WF_vars(ExecutionTimesOut(r)) /\ WF_vars(~client /\ CallFails(r))
    /\ WF_vars(GraceEnds) /\ WF_vars(ServerCloses) /\ WF_vars(ClientCloses) /\ WF_vars(Exits)

Spec == Init /\ [][Next]_vars /\ Fairness

-----------------------------------------------------------------------------
(* However the workflow moves between the calls of one operation, an answer speaks of
   one run: what result, trace-log, status and input report is all of the run they
   name, a pinned request names the pinned run, a stopped run is the pinned one, and
   a reset goes to an event read from the history of the run that is reset
   (get_result.js, get_input.js, reset.js).  `run`, and stop or terminate without a
   pin, describe the workflow after the fact and promise less. *)
AboutOneRun ==
    \A r \in Requests :
        LET q == request[r] IN
        q.ok =>
          /\ q.op \in {"result", "trace", "status", "input"} => q.parts = {q.run}
          /\ q.op \in {"result", "trace", "status", "input", "stop", "terminate"} /\ q.pin # 0
                => q.run = q.pin /\ q.parts = {q.pin}
          /\ q.op = "reset" => Cardinality(q.parts) = 1 /\ (q.pin # 0 => q.parts = {q.pin})
          /\ q.op = "input" /\ q.pin = 0 => runs[q.run].first = q.run

(* A shutdown drops no ordinary request before the grace time is over, and closes the
   Temporal client only when no request is waiting for an answer (index.js:1800). *)
DroppedOnlyAfterGrace ==
    /\ \A r \in Requests : request[r].socket = "dropped" => grace = "fired"
    /\ ~client => InFlight = {}

(* A process told to stop ends, with 1 if the connection was lost and with 0 only
   otherwise, although streams never drain and a `run` keeps its timer. *)
ShutdownEnds ==
    /\ server = "closing" ~> exited # "no"
    /\ [](exited = "zero" => ~lost)
=============================================================================
