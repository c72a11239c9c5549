------------------------------ MODULE CliCommands ------------------------------
(***************************************************************************)
(* What a command of the CLI makes of one request to the API: what it      *)
(* refuses before it asks (utils/resolve_input.ts, workflow/start.ts),     *)
(* what is asked again when a request fails (api/http_client.ts, the retry *)
(* of workflow/run.ts), what it does with the answer, and the words and    *)
(* the exit code it ends with (utils/error_handler.ts).                    *)
(*                                                                         *)
(* `tries` says what becomes of the first, second, ... sending: an answer  *)
(* of the API, "unreachable" when nothing was sent, "lost" when the        *)
(* connection broke, "late" when the client gave up waiting.  `done` says  *)
(* whether the API did what was asked.                                     *)
(***************************************************************************)
EXTENDS ClientRequests

(* A command: the operation it calls, the statuses it has words of its own for, whether
   it needs data in the answer, and what else can go wrong before and after. *)
Command(operation, overrides) ==
    [calls |-> operation, overrides |-> overrides, needsData |-> TRUE, takesInput |-> FALSE,
     tellsStatus |-> FALSE, asksAgain |-> FALSE, after |-> Nothing, keepsExit |-> FALSE]

WorkflowStatus == Command(getWorkflowIdStatus, {404})
WorkflowStop == [Command(patchWorkflowIdStop, {404}) EXCEPT !.needsData = FALSE]
WorkflowTerminate == [Command(postWorkflowIdTerminate, {404}) EXCEPT !.needsData = FALSE]
WorkflowReset == Command(postWorkflowIdReset, {404, 409})
WorkflowResult == [Command(getWorkflowIdResult, {404}) EXCEPT !.tellsStatus = TRUE]

WorkflowInput(runId) ==
    [Command(IF runId THEN getWorkflowIdRunsRidInput ELSE getWorkflowIdInput, {404})
       EXCEPT !.after = "file"]

WorkflowRunCommand ==
    [Command(postWorkflowRun, {404, 500, 503})
       EXCEPT !.takesInput = TRUE, !.tellsStatus = TRUE, !.asksAgain = TRUE]

WorkflowStart ==
    [Command(postWorkflowStart, {404})
       EXCEPT !.takesInput = TRUE, !.after = "monitor", !.keepsExit = TRUE]

(* The trace of the latest run, from a file when it was kept on this machine. *)
WorkflowDebug == [Command(getWorkflowIdTraceLog, {404}) EXCEPT !.after = "trace"]
WorkflowCost == WorkflowDebug

WorkflowList(catalog) ==
    [Command(IF catalog THEN getWorkflowCatalogId ELSE getWorkflowCatalog, {404})
       EXCEPT !.needsData = FALSE]
WorkflowRunsList == Command(getWorkflowRuns, {400, 503})

(* Of a history of one page; with more, each page is such a request. *)
WorkflowHistory == Command(getWorkflowIdHistory, {404})

(* `dataset generate`: one run of a scenario, and the traces of the latest runs, of which
   some can be read and be written. *)
DatasetOfScenario ==
    [Command(postWorkflowRun, {404, 500}) EXCEPT !.takesInput = TRUE, !.after = "file"]
DatasetsOfRuns == [Command(getWorkflowRuns, {404, 500}) EXCEPT !.after = "file"]

Commands ==
    [status |-> WorkflowStatus, stop |-> WorkflowStop, terminate |-> WorkflowTerminate,
     reset |-> WorkflowReset, result |-> WorkflowResult, run |-> WorkflowRunCommand,
     start |-> WorkflowStart, debug |-> WorkflowDebug, cost |-> WorkflowCost,
     runs |-> WorkflowRunsList, history |-> WorkflowHistory,
     input |-> WorkflowInput(FALSE), input_of_run |-> WorkflowInput(TRUE), list |-> WorkflowList(FALSE),
     list_of_catalog |-> WorkflowList(TRUE), dataset |-> DatasetOfScenario,
     datasets_of_runs |-> DatasetsOfRuns]

Changes(command) == command.calls.method # "GET"

-----------------------------------------------------------------------------
(* http_client.ts *)

RetryLimit == 2

(* Slip: a command is retried as a question is. *)
EveryMethod == {"GET", "PUT", "HEAD", "DELETE", "OPTIONS", "TRACE", "POST", "PATCH"}

RetryMethods == {"GET", "PUT", "HEAD", "DELETE", "OPTIONS", "TRACE"}
RetryStatuses == {408, 413, 429, 502, 503, 504}

(* ky, on the n-th try: it repeats a method it may when the connection failed, not when
   it gave up waiting.  With throwHttpErrors off the versions of ky differ in whether
   they repeat a status at all; both are allowed for. *)
KyRepeats(method, try, n, repeatsStatuses) ==
    /\ method \in RetryMethods /\ n <= RetryLimit
    /\ \/ try.ended \in {"unreachable", "lost"}
       \/ try.ended = "answered" /\ repeatsStatuses /\ try.status \in RetryStatuses

-----------------------------------------------------------------------------
(* run.ts *)

MaxRetries == 3

(* Only an answer that says when to come back is asked again. *)
ExecuteWorkflowRepeats(try, n) == try.ended = "answered" /\ try.retryAfter /\ n <= MaxRetries

(* The last try: what the client or the command does not repeat. *)
Tries(command, request) ==
    Min({n \in DOMAIN request.tries :
           /\ ~KyRepeats(command.calls.method, request.tries[n], n, request.repeatsStatuses)
           /\ ~(command.asksAgain /\ ExecuteWorkflowRepeats(request.tries[n], n))})

-----------------------------------------------------------------------------
(* error_handler.ts *)

Outcome(words, exit) == [words |-> words, exit |-> exit]

(* What the API refused, in the words of the command, of the API or of the CLI. *)
HandleApiError(try, overrides) ==
    IF try.ended = "unreachable" THEN Outcome("connection", 1)
    ELSE IF try.ended # "answered" THEN Outcome("detail", 1)
    ELSE Outcome(IF try.status \in overrides THEN "own" ELSE IF try.body THEN "api"
              ELSE IF try.status \in {401, 404, 500} THEN "default" ELSE "detail", 1)

(* What the command refused itself: flattened by handleApiError, kept by
   handleCommandError. *)
HandleOwnError(command, exit) ==
    Outcome("detail", IF command.keepsExit THEN exit ELSE 1)

-----------------------------------------------------------------------------
(* resolve_input.ts; start.ts refuses to stream into json. *)

ResolveInput(input) ==
    IF input.flag /\ input.scenario THEN FALSE
    ELSE IF input.flag THEN input.readable
    ELSE input.scenario /\ input.found /\ input.readable

MonitorFailedExitCode == 3

(* How streamWorkflowUpdates leaves a command whose stream did not fail: with the run it
   follows ended in failure, or with its user gone. *)
MonitoredExit == [run_failed |-> 1, detached |-> 130]

(* What follows the answer: the file, unless it is there and is not to be overwritten;
   the trace from its path; the stream of updates of the run that was started, which also
   fails when the answer has no workflow id. *)
Afterwards(command, request) ==
    IF command.after = Nothing THEN Outcome("success", 0)
    ELSE IF request.afterwards = "fails"
    THEN HandleOwnError(command, IF command.after = "monitor" THEN MonitorFailedExitCode ELSE 1)
    ELSE IF command.after = "monitor" /\ request.afterwards \in DOMAIN MonitoredExit
    THEN Outcome("success", MonitoredExit[request.afterwards])
    ELSE Outcome("success", 0)

OfAnswer(command, request, try) ==
    IF command.needsData /\ ~try.body THEN HandleOwnError(command, 1)
    ELSE IF command.tellsStatus /\ try.failed THEN Outcome("success", 1)
    ELSE Afterwards(command, request)

(* How a command that sent its request so many times ends. *)
Sent(times, outcome) == [sent |-> times, words |-> outcome.words, exit |-> outcome.exit]

(* A whole command: what it was told and how often it sent its request. *)
Perform(request) ==
    LET command == Commands[request.command]
        n == Tries(command, request)
        last == request.tries[n] IN
    IF command.after = "monitor" /\ request.monitorAsJson
    THEN Sent(0, HandleOwnError(command, 2))
    ELSE IF command.takesInput /\ ~ResolveInput(request.input)
    THEN Sent(0, HandleOwnError(command, 1))
    ELSE Sent(n, IF last.ended = "answered" /\ last.status \in 200 .. 299
                 THEN OfAnswer(command, request, last)
                 ELSE HandleApiError(last, command.overrides))

(* What can befall a command: nothing that was not sent was done, what was answered with
   success was, and who is told when to come back was told so before anything began; and
   there is a fate for every try it may make. *)
CanBefall(request) ==
    /\ request.command \in DOMAIN Commands
    /\ DOMAIN request.tries = 1 .. Len(request.tries)
    /\ Len(request.tries) \in Nat /\ Len(request.tries) > MaxRetries
    /\ \A n \in DOMAIN request.tries :
         LET try == request.tries[n] IN
         /\ try.done => try.ended # "unreachable" /\ ~try.retryAfter
         /\ try.ended = "answered" /\ try.status \in 200 .. 299 => try.done

(* How a command ends says what it did, whatever happens on the way: a command that
   changes something changes it at most once, though questions and the start of a run
   without a catalog are asked again; exit 0 is an answered success; once a usable answer
   has come back a workflow that was started is told to be so: exit 1 then means that the
   run itself, which was followed, has failed, and where it was left running, by a stream
   that stopped or by its user, the exit is a code of its own, so that a caller who
   submits again on exit 1 does not submit beside a run it was told of; who is told that nothing could be
   reached, or got no further than the input, has changed nothing; and a status that the
   command has words for is told in them (http_client.ts, run.ts, start.ts,
   error_handler.ts). *)
EndsAsItDid(request, told) ==
    LET command == Commands[request.command]
        last == request.tries[told.sent]
        answered == told.sent > 0 /\ last.ended = "answered"
        succeeded == answered /\ last.status \in 200 .. 299
        carriedOut == {n \in 1 .. told.sent : request.tries[n].done}
    IN  /\ Changes(command) =>
             /\ Cardinality(carriedOut) <= 1
             /\ told.words = "connection" => carriedOut = {}
        /\ told.exit = 0 => succeeded /\ last.done
        /\ told.words = "success" <=>
             /\ succeeded /\ (command.needsData => last.body)
             /\ command.after # Nothing => request.afterwards # "fails"
        /\ command.after = "monitor" =>
             /\ told.exit = 3 <=> succeeded /\ last.body /\ request.afterwards = "fails"
             /\ told.exit = 130 <=> succeeded /\ last.body /\ request.afterwards = "detached"
             /\ succeeded /\ last.body =>
                  (told.exit = 1 <=> told.words = "success" /\ request.afterwards = "run_failed")
        /\ answered /\ last.status \in command.overrides => told.words = "own" /\ told.exit = 1
        /\ told.sent = 0 => told.exit # 0
=============================================================================
