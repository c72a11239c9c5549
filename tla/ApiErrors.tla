------------------------------ MODULE ApiErrors ------------------------------
(***************************************************************************)
(* What the API answers when something fails: the status of an error that  *)
(* a route throws (api/src/middleware/error_handler.js), the error a       *)
(* result tells of when the workflow failed (utils.js, workflow_result.js),*)
(* and the event a run is reset to (clients/temporal/workflow/reset.js).   *)
(*                                                                         *)
(* An error is the chain of its causes, outermost first.  A link has its   *)
(* class; the gRPC code, if it is a service error; the status a parser of  *)
(* requests gave it, or 0; the type that Temporal gives an application     *)
(* failure; the activity that failed; and the error the SDK embedded in    *)
(* its details.                                                            *)
(***************************************************************************)
EXTENDS Integers, Sequences, SequencesExt, FiniteSetsExt

Nothing == "nothing"

(* The first link that says something about a field, Nothing if none does. *)
FirstOf(chain, field) ==
    LET saying == {i \in DOMAIN chain : chain[i][field] # Nothing}
    IN  IF saying = {} THEN Nothing ELSE chain[Min(saying)][field]

-----------------------------------------------------------------------------
(* error_handler.js *)

NamedErrorStatuses ==
    [ZodError |-> 400, InvalidPageTokenError |-> 400, WorkflowNotFoundError |-> 404,
     StepNotFoundError |-> 404, TraceNotAvailableError |-> 404,
     WorkflowExecutionTimedOutError |-> 408, StepNotCompletedError |-> 409,
     UnsupportedWorkflowError |-> 424, WorkflowNotCompletedError |-> 424,
     CatalogNotAvailableError |-> 503]

GrpcStatusHttp == [INVALID_ARGUMENT |-> 400, FAILED_PRECONDITION |-> 409]

(* Slip: only the error itself is looked at. *)
GrpcHttpStatusOfOuter(chain) ==
    IF Head(chain).grpc \in DOMAIN GrpcStatusHttp THEN GrpcStatusHttp[Head(chain).grpc] ELSE 0

(* The first cause that is a service error of a code that is mapped; 0 if there is none. *)
GrpcHttpStatus(chain) ==
    LET mapped == {i \in DOMAIN chain : chain[i].grpc \in DOMAIN GrpcStatusHttp}
    IN  IF mapped = {} THEN 0 ELSE GrpcStatusHttp[chain[Min(mapped)].grpc]

StatusOf(chain) ==
    IF Head(chain).class \in DOMAIN NamedErrorStatuses
    THEN NamedErrorStatuses[Head(chain).class]
    ELSE IF GrpcHttpStatus(chain) # 0 THEN GrpcHttpStatus(chain)
    ELSE IF Head(chain).http # 0 THEN Head(chain).http
    ELSE 500

(* Of an answer that is already on its way nothing can be said any more; every 500 is
   logged with its causes, and so is an error after the headers. *)
ErrorHandler(chain, headersSent) ==
    IF headersSent THEN [answered |-> FALSE, status |-> 0, retryAfter |-> FALSE, logged |-> TRUE]
    ELSE [answered |-> TRUE, status |-> StatusOf(chain),
          retryAfter |-> StatusOf(chain) = 503 /\ Head(chain).class = "CatalogNotAvailableError",
          logged |-> StatusOf(chain) = 500]

(* A route of index.js: the statuses other than 200 it documents, and what it throws
   itself, which is the validation of the request and the errors of errors.js that its
   operation raises. *)
Route(documented, thrown) == [documented |-> documented, thrown |-> thrown]

NoWorkflow == "WorkflowNotFoundError"

RunRoute ==
    Route({400, 404, 408, 424, 503, 500},
          {"ZodError", "CatalogNotAvailableError", "UnsupportedWorkflowError",
           "WorkflowExecutionTimedOutError", NoWorkflow})

StartRoute ==
    Route({400, 404, 424, 503, 500},
          {"ZodError", "CatalogNotAvailableError", "UnsupportedWorkflowError"})

StatusRoutes ==
    [status |-> Route({404, 500}, {NoWorkflow}),
     status_of_run |-> Route({400, 404, 500}, {NoWorkflow})]

StopRoutes ==
    [stop |-> Route({404, 409, 500}, {NoWorkflow}),
     stop_run |-> Route({400, 404, 409, 500}, {NoWorkflow})]

TerminateRoute == Route({400, 404, 409, 500}, {"ZodError", NoWorkflow})

ResetRoute ==
    Route({400, 404, 409, 500},
          {"ZodError", NoWorkflow, "StepNotFoundError", "StepNotCompletedError"})

ResultRoutes ==
    LET thrown == {NoWorkflow, "WorkflowNotCompletedError"}
    IN  [result |-> Route({404, 424, 500}, thrown),
         result_of_run |-> Route({400, 404, 424, 500}, thrown)]

InputRoutes ==
    [input |-> Route({404, 500}, {NoWorkflow, "WorkflowMissingRunIdError"}),
     input_of_run |-> Route({400, 404, 500}, {NoWorkflow})]

TraceLogRoutes ==
    LET thrown == {NoWorkflow, "WorkflowNotCompletedError", "TraceNotAvailableError",
                   "TraceFileDownloadError", "TraceFileParseError", "InvalidTraceFileUrl"}
    IN  [trace_log |-> Route({404, 424, 500}, thrown),
         trace_log_of_run |-> Route({400, 404, 424, 500}, thrown)]

HistoryRoute == Route({400, 404, 500}, {"ZodError", NoWorkflow, "InvalidPageTokenError"})

RunsRoute == Route({400, 500}, {"ZodError"})

(* The routes that send the workflow a message. *)
FeedbackRoute == Route({400, 404, 500}, {"ZodError", NoWorkflow})
SignalRoute == Route({400, 404, 500}, {"ZodError", NoWorkflow})
QueryRoute == Route({400, 404, 500}, {"ZodError", NoWorkflow})
UpdateRoute == Route({400, 404, 500}, {"ZodError", NoWorkflow})

Routes ==
    [run |-> RunRoute, start |-> StartRoute, runs |-> RunsRoute, feedback |-> FeedbackRoute,
     signal |-> SignalRoute, query |-> QueryRoute, update |-> UpdateRoute,
     terminate |-> TerminateRoute, reset |-> ResetRoute, history |-> HistoryRoute,
     status |-> StatusRoutes.status, status_of_run |-> StatusRoutes.status_of_run,
     stop |-> StopRoutes.stop, stop_run |-> StopRoutes.stop_run,
     result |-> ResultRoutes.result, result_of_run |-> ResultRoutes.result_of_run,
     input |-> InputRoutes.input, input_of_run |-> InputRoutes.input_of_run,
     trace_log |-> TraceLogRoutes.trace_log, trace_log_of_run |-> TraceLogRoutes.trace_log_of_run]

-----------------------------------------------------------------------------
(* utils.js, workflow_result.js *)

TemporalFailureTypes ==
    {"ActivityFailure", "ChildWorkflowFailure", "TimeoutFailure", "CancelledFailure",
     "TerminatedFailure", "ServerFailure", "ApplicationFailure"}

Upto(chain, depth) == [i \in 1 .. Min({depth, Len(chain)}) |-> chain[i]]

(* extractFailure, for payloads of the first version: the deepest type that is not
   Temporal's, else the deepest, else the class. *)
ExtractFailure(error) ==
    LET chain == Upto(error, 20)
        typed == {i \in DOMAIN chain : chain[i].type # Nothing}
        users == {i \in typed : chain[i].type \notin TemporalFailureTypes}
    IN  [name |-> IF users # {} THEN chain[Max(users)].type
                  ELSE IF typed # {} THEN chain[Max(typed)].type ELSE Head(chain).class,
         activity |-> FirstOf(chain, "activity")]

(* serializeError, for payloads of the second: what the SDK embedded, else the deepest. *)
SerializeError(error) ==
    LET chain == Upto(error, 10) IN
    [name |-> IF FirstOf(chain, "embedded") # Nothing THEN FirstOf(chain, "embedded")
              ELSE IF Last(chain).type # Nothing THEN Last(chain).type ELSE Last(chain).class,
     activity |-> FirstOf(chain, "activity")]

(* buildWorkflowResult of a workflow that failed. *)
ResultOfFailure(error, payloadVersion) ==
    IF payloadVersion = 2 THEN SerializeError(error) ELSE ExtractFailure(error)

(* A body that is malformed, too large, or of a charset or encoding it does not know:
   what express.json and express.urlencoded refuse, on whatever route. *)
ParserStatuses == {400, 413, 415}

Refusals(error) == {i \in DOMAIN error : error[i].grpc \in DOMAIN GrpcStatusHttp}

(* What a route can fail with: an error it throws itself, whose causes are no refusals; a
   body that is not parsed; or what is not its own, a refusal of the server among its
   causes or none. *)
IsRouteFailure(failure) ==
    LET error == failure.error
        outer == Head(error)
    IN  /\ Len(error) \in Nat \ {0} /\ DOMAIN error = 1 .. Len(error)
        /\ failure.route \in DOMAIN Routes
        /\ \/ /\ outer.class \in Routes[failure.route].thrown
              /\ outer.http = 0 /\ Refusals(error) = {}
           \/ /\ outer.class \notin Routes[failure.route].thrown \cup DOMAIN NamedErrorStatuses
              /\ outer.http = 0 \/ (outer.http \in ParserStatuses /\ Refusals(error) = {})

(* A workflow that failed with the error a step, or the workflow itself, threw: innermost
   in what Temporal wrapped around it, and no deeper than the API looks. *)
IsWorkflowFailure(failure) ==
    LET chain == failure.error
        depth == Len(chain)
    IN  /\ failure.payloadVersion \in {1, 2}
        /\ depth \in 1 .. (IF failure.payloadVersion = 2 THEN 10 ELSE 20)
        /\ DOMAIN chain = 1 .. depth
        /\ failure.thrown \notin TemporalFailureTypes \cup {Nothing}
        /\ chain[depth].type = failure.thrown
        /\ \A i \in 1 .. depth - 1 : chain[i].type \in TemporalFailureTypes \cup {Nothing}
        /\ \A i \in 1 .. depth : /\ chain[i].embedded \in {Nothing, failure.thrown}
                                 /\ chain[i].activity \in {Nothing, failure.step}
        /\ \E i \in 1 .. depth : chain[i].activity = failure.step

IsFailure(failure) ==
    \/ failure.of = "route" /\ IsRouteFailure(failure)
    \/ failure.of = "workflow" /\ IsWorkflowFailure(failure)

(* Whatever a route throws itself is answered with a status it documents, whatever the
   cause.  A refusal of the server is answered by its code, however the client has wrapped
   it: a malformed run id or search attribute is the caller's fault, a run in the wrong
   state a conflict; and a refusal of a parser of the body by its own status.  These two
   are the only answers a route need not document: none has a 413, `start` has no 409.
   What nobody accounts for is a 500, and no other answer but an unnamed error is logged.
   A workflow's failure is told as the error the user's step threw and the step it threw
   it in, whatever Temporal wrapped around it and in both versions of the payload
   (error_handler.js, utils.js, workflow_result.js). *)
AnswersTellTheFailure(failure, told) ==
    CASE failure.of = "route" ->
           LET error == failure.error
               outer == Head(error) IN
           /\ told.answered <=> ~failure.headersSent
           /\ told.answered =>
                /\ Refusals(error) = {} /\ outer.http = 0 =>
                     told.status \in Routes[failure.route].documented
                /\ Refusals(error) = {} /\ outer.http # 0 => told.status = outer.http
                /\ Refusals(error) # {} =>
                     \E i \in Refusals(error) : told.status = GrpcStatusHttp[error[i].grpc]
                /\ told.logged <=> /\ outer.class \notin DOMAIN NamedErrorStatuses
                                   /\ outer.http = 0 /\ Refusals(error) = {}
                /\ told.status = 503 <=> told.retryAfter
           /\ ~told.answered => told.logged
      [] failure.of = "workflow" ->
           /\ told.name = failure.thrown
           /\ told.activity = failure.step

-----------------------------------------------------------------------------
(* reset.js *)

(* Slip: the newest decision. *)
LastDecisionAfter(events, completed) ==
    Max({i \in DOMAIN events : events[i].type = "task_completed" /\ i > completed})

FirstDecisionAfter(events, completed) ==
    Min({i \in DOMAIN events : events[i].type = "task_completed" /\ i > completed})

(* The last scheduling of the step, its completion, and the first decision after that;
   0 stands for StepNotFoundError and -1 for StepNotCompletedError. *)
ResolveResetEventId(events, step) ==
    LET scheduled == {i \in DOMAIN events : events[i].type = "scheduled" /\ events[i].step = step}
        completed == {i \in DOMAIN events :
                        events[i].type = "completed" /\ events[i].ref = Max(scheduled)}
        decided == {i \in DOMAIN events : events[i].type = "task_completed"}
    IN  IF scheduled = {} THEN 0
        ELSE IF completed = {} THEN -1
        ELSE IF \A i \in decided : i <= Max(completed) THEN -1
        ELSE FirstDecisionAfter(events, Max(completed))

(* A history as Temporal writes it: what a decision schedules comes before anything else
   completes or is decided, and an activity completes once. *)
IsHistory(events) ==
    LET ends == {i \in DOMAIN events : events[i].type = "completed"}
    IN  /\ Len(events) \in Nat /\ DOMAIN events = 1 .. Len(events)
        /\ \A i \in DOMAIN events :
             events[i].type = "scheduled" =>
               \E d \in 1 .. i - 1 :
                 /\ events[d].type = "task_completed"
                 /\ \A k \in d + 1 .. i - 1 : events[k].type \notin {"completed", "task_completed"}
        /\ \A i, j \in ends : events[i].ref = events[j].ref => i = j

(* A run that is reset keeps what it had up to the step asked for and nothing it decided
   upon it: the step's last result is before the point of the reset and everything that
   was scheduled after that result comes again.  A step that never ran, or whose last
   run did not complete, is refused (reset.js). *)
ResetKeepsTheStepOnly(request, told) ==
    LET events == request.events
        runs == {i \in DOMAIN events : events[i].type = "scheduled" /\ events[i].step = request.step}
        results == {i \in DOMAIN events : events[i].type = "completed" /\ events[i].ref \in runs}
    IN  /\ told = 0 <=> runs = {}
        /\ told > 0 =>
             /\ \E r \in results : r < told /\ events[r].ref = Max(runs)
             /\ \A i \in DOMAIN events :
                  events[i].type = "scheduled" /\ i < told => i < Max(results)
             /\ events[told].type = "task_completed"
        /\ told = -1 => \A r \in results : events[r].ref # Max(runs)
                                           \/ \A i \in DOMAIN events :
                                                i > r => events[i].type # "task_completed"
=============================================================================
