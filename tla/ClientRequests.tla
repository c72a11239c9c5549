---------------------------- MODULE ClientRequests ----------------------------
(***************************************************************************)
(* The two sides of the HTTP API: the operations of the generated client   *)
(* of the CLI (sdk/cli/src/api/generated/api.ts), which is committed apart *)
(* from the API it was generated from, and the routes the API registers,   *)
(* in their order (api/src/index.js).                                      *)
(*                                                                         *)
(* A path is its segments; one that starts with a colon is a parameter.    *)
(* Ids are not encoded by the client: a segment here is what is left of an *)
(* id without a slash.                                                     *)
(***************************************************************************)
EXTENDS ApiErrors

Parameters == {":id", ":rid", ":signal", ":query", ":update"}

(* An operation: its method, its path and the statuses its response type knows. *)
Operation(method, path, expects) == [method |-> method, path |-> path, expects |-> expects]

OfWorkflow(rest) == <<"workflow", ":id">> \o rest
OfRun(rest) == <<"workflow", ":id", "runs", ":rid">> \o rest

getHealth == Operation("GET", <<"health">>, {200})
getReady == Operation("GET", <<"ready">>, {200, 503})
postHeartbeat == Operation("POST", <<"heartbeat">>, {204})

postWorkflowRun == Operation("POST", <<"workflow", "run">>, {200, 400, 404, 408, 424, 500, 503})
postWorkflowStart == Operation("POST", <<"workflow", "start">>, {200, 400, 404, 424, 500, 503})

getWorkflowIdStatus == Operation("GET", OfWorkflow(<<"status">>), {200, 404, 500})
getWorkflowIdRunsRidStatus == Operation("GET", OfRun(<<"status">>), {200, 400, 404, 500})
patchWorkflowIdStop == Operation("PATCH", OfWorkflow(<<"stop">>), {200, 404, 409, 500})
patchWorkflowIdRunsRidStop == Operation("PATCH", OfRun(<<"stop">>), {200, 400, 404, 409, 500})

postWorkflowIdTerminate ==
    Operation("POST", OfWorkflow(<<"terminate">>), {200, 400, 404, 409, 500})
postWorkflowIdRunsRidTerminate ==
    Operation("POST", OfRun(<<"terminate">>), {200, 400, 404, 409, 500})
postWorkflowIdReset == Operation("POST", OfWorkflow(<<"reset">>), {200, 400, 404, 409, 500})
postWorkflowIdRunsRidReset == Operation("POST", OfRun(<<"reset">>), {200, 400, 404, 409, 500})

getWorkflowIdResult == Operation("GET", OfWorkflow(<<"result">>), {200, 404, 424, 500})
getWorkflowIdRunsRidResult == Operation("GET", OfRun(<<"result">>), {200, 400, 404, 424, 500})
getWorkflowIdInput == Operation("GET", OfWorkflow(<<"input">>), {200, 404, 500})
getWorkflowIdRunsRidInput == Operation("GET", OfRun(<<"input">>), {200, 400, 404, 500})
getWorkflowIdTraceLog == Operation("GET", OfWorkflow(<<"trace-log">>), {200, 404, 424, 500})
getWorkflowIdRunsRidTraceLog == Operation("GET", OfRun(<<"trace-log">>), {200, 400, 404, 424, 500})

getWorkflowIdHistory == Operation("GET", OfWorkflow(<<"history">>), {200, 400, 404, 500})
getWorkflowIdRunsRidHistory == Operation("GET", OfRun(<<"history">>), {200, 400, 404, 500})
getWorkflowIdHistoryStream ==
    Operation("GET", OfWorkflow(<<"history", "stream">>), {200, 400, 404, 500})
getWorkflowIdRunsRidHistoryStream ==
    Operation("GET", OfRun(<<"history", "stream">>), {200, 400, 404, 500})

getWorkflowCatalog == Operation("GET", <<"workflow", "catalog">>, {200, 404, 500})
getWorkflowCatalogId == Operation("GET", <<"workflow", "catalog", ":id">>, {200, 404, 500})
getWorkflowRuns == Operation("GET", <<"workflow", "runs">>, {200, 400, 500})

postWorkflowIdFeedback == Operation("POST", OfWorkflow(<<"feedback">>), {200, 400, 404, 500})
postWorkflowIdSignalSignal ==
    Operation("POST", OfWorkflow(<<"signal", ":signal">>), {200, 400, 404, 500})
postWorkflowIdQueryQuery ==
    Operation("POST", OfWorkflow(<<"query", ":query">>), {200, 400, 404, 500})
postWorkflowIdUpdateUpdate ==
    Operation("POST", OfWorkflow(<<"update", ":update">>), {200, 400, 404, 500})

(* Those of one workflow, its latest run, or one of its runs. *)
OperationsOfWorkflow ==
    {getWorkflowIdStatus, patchWorkflowIdStop, postWorkflowIdTerminate, postWorkflowIdReset,
     getWorkflowIdResult, getWorkflowIdInput, getWorkflowIdTraceLog, getWorkflowIdHistory,
     getWorkflowIdHistoryStream, postWorkflowIdFeedback, postWorkflowIdSignalSignal,
     postWorkflowIdQueryQuery, postWorkflowIdUpdateUpdate}

OperationsOfRun ==
    {getWorkflowIdRunsRidStatus, patchWorkflowIdRunsRidStop, postWorkflowIdRunsRidTerminate,
     postWorkflowIdRunsRidReset, getWorkflowIdRunsRidResult, getWorkflowIdRunsRidInput,
     getWorkflowIdRunsRidTraceLog, getWorkflowIdRunsRidHistory, getWorkflowIdRunsRidHistoryStream}

Operations ==
    OperationsOfWorkflow \cup OperationsOfRun \cup
    {getHealth, getReady, postHeartbeat, postWorkflowRun, postWorkflowStart, getWorkflowCatalog,
     getWorkflowCatalogId, getWorkflowRuns}

(* The path an operation asks for. *)
UrlOf(operation, arguments) ==
    [i \in DOMAIN operation.path |->
        LET segment == operation.path[i]
        IN  IF segment \in Parameters THEN arguments[segment] ELSE segment]

-----------------------------------------------------------------------------
(* index.js *)

(* A registered route, with the key of what it throws in Routes of ApiErrors. *)
On(method, path, route) == <<[method |-> method, path |-> path, route |-> route]>>

OfEither(method, rest, route, routeOfRun) ==
    On(method, OfWorkflow(rest), route) \o On(method, OfRun(rest), routeOfRun)

OpenRoutes == On("GET", <<"health">>, Nothing) \o On("GET", <<"ready">>, Nothing)

RunAndStart ==
    On("POST", <<"workflow", "run">>, "run") \o On("POST", <<"workflow", "start">>, "start")

StatusAndStop ==
    OfEither("GET", <<"status">>, "status", "status_of_run")
    \o On("PATCH", OfRun(<<"stop">>), "stop_run") \o On("PATCH", OfWorkflow(<<"stop">>), "stop")

TerminateAndReset ==
    On("POST", OfRun(<<"terminate">>), "terminate")
    \o On("POST", OfWorkflow(<<"terminate">>), "terminate")
    \o On("POST", OfRun(<<"reset">>), "reset") \o On("POST", OfWorkflow(<<"reset">>), "reset")

ResultAndInput ==
    OfEither("GET", <<"result">>, "result", "result_of_run")
    \o OfEither("GET", <<"input">>, "input", "input_of_run")

TraceLog == OfEither("GET", <<"trace-log">>, "trace_log", "trace_log_of_run")

HistoryAndStream ==
    OfEither("GET", <<"history">>, "history", "history")
    \o OfEither("GET", <<"history", "stream">>, "history", "history")

CatalogAndRuns ==
    On("GET", <<"workflow", "catalog", ":id">>, Nothing)
    \o On("GET", <<"workflow", "catalog">>, Nothing) \o On("GET", <<"workflow", "runs">>, "runs")

Messages ==
    On("POST", OfWorkflow(<<"feedback">>), "feedback")
    \o On("POST", OfWorkflow(<<"signal", ":signal">>), "signal")
    \o On("POST", OfWorkflow(<<"query", ":query">>), "query")
    \o On("POST", OfWorkflow(<<"update", ":update">>), "update")

Heartbeat == On("POST", <<"heartbeat">>, Nothing)

(* Slip: the catalogs are registered before the workflows. *)
CatalogsFirst ==
    OpenRoutes \o RunAndStart \o CatalogAndRuns \o StatusAndStop \o TerminateAndReset
    \o ResultAndInput \o TraceLog \o HistoryAndStream \o Messages \o Heartbeat

RouteTable ==
    OpenRoutes \o RunAndStart \o StatusAndStop \o TerminateAndReset \o ResultAndInput
    \o TraceLog \o HistoryAndStream \o CatalogAndRuns \o Messages \o Heartbeat

Fits(path, pattern) ==
    /\ Len(path) = Len(pattern)
    /\ \A i \in DOMAIN path : pattern[i] \in Parameters \/ pattern[i] = path[i]

(* The first route that fits, and what it takes its parameters to be; none is a 404. *)
Dispatch(method, path) ==
    LET fitting == {i \in DOMAIN RouteTable :
                      RouteTable[i].method = method /\ Fits(path, RouteTable[i].path)}
        first == RouteTable[Min(fitting)]
    IN  IF fitting = {} THEN [route |-> Nothing, path |-> <<>>, taken |-> <<>>]
        ELSE [route |-> first.route, path |-> first.path,
              taken |-> {<<first.path[i], path[i]>> :
                           i \in {j \in DOMAIN path : first.path[j] \in Parameters}}]

(* What the client is called with: an id for each parameter of the path. *)
IsRequest(request) ==
    LET operation == request.operation IN
    /\ operation \in Operations
    /\ DOMAIN request.arguments = {operation.path[i] : i \in DOMAIN operation.path} \cap Parameters

(* The operations on a workflow whose route takes a request for a catalog, when that has
   the name of their last segment, for one on the workflow "catalog". *)
TakenFor(request) ==
    {o \in OperationsOfWorkflow :
        /\ request.operation = getWorkflowCatalogId
        /\ o.method = "GET" /\ o.path = OfWorkflow(<<request.arguments[":id"]>>)}

(* The client and the API mean the same: an operation comes to the one route it was
   generated for, which reads the ids it was called with, and whatever that route throws
   has a status the operation's type knows, so that no committed client is out of step
   with the API.  One route can hide behind others, and by these names only: that of a
   catalog called status, result, input, trace-log or history, which no check refuses; the
   route of the workflows answers for the workflow "catalog" (api.ts, index.js,
   error_handler.js). *)
ReachesItsRoute(request, told) ==
    LET operation == request.operation
        hidden == TakenFor(request) # {}
    IN  /\ hidden => told.path \in {o.path : o \in TakenFor(request)}
                     /\ told.taken = {<<":id", "catalog">>}
        /\ ~hidden =>
             /\ told.path = operation.path
             /\ told.taken = {<<p, request.arguments[p]>> : p \in DOMAIN request.arguments}
             /\ told.route # Nothing =>
                  \A e \in Routes[told.route].thrown :
                    StatusOf(<<[class |-> e, grpc |-> Nothing, http |-> 0]>>) \in operation.expects
=============================================================================
