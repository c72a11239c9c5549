---------------------------- MODULE WorkflowRun ----------------------------
(***************************************************************************)
(* One root workflow run seen from the SDK: the wrapper around the         *)
(* workflow's function (interface/workflow.js), its interceptors and       *)
(* sinks, the attempts of its activities, the waits for a webhook, and the *)
(* trace that the local processor keeps of all this.                       *)
(*                                                                         *)
(* The function itself is any code: it calls steps and waits for webhooks  *)
(* in any order, at once or one by one, and ends in any way.  Temporal     *)
(* retries attempts, delivers signals, and gives a workflow task again     *)
(* when its completion was lost, so that the sinks are called again too.   *)
(***************************************************************************)
EXTENDS Naturals, Sequences, FiniteSets, SequencesExt

CONSTANTS
    Steps,          \* the steps and evaluators the function may call
    Waits,          \* the waits for a webhook it may begin
    Programs,       \* which of both one function makes use of
    MaxAttempts,    \* retry.maximumAttempts of each activity
    MaxFeedback,    \* bound: feedbacks sent to the run
    MaxFaults       \* bound: lost task completions and crashes of the worker

ASSUME NamesAssumption == Steps \cap Waits = {} /\ "destinations" \notin Steps \cup Waits
ASSUME ProgramsAssumption == Programs \subseteq SUBSET (Steps \cup Waits)
ASSUME BoundsAssumption ==
    /\ MaxAttempts \in [{"destinations"} \cup Steps \cup Waits -> Nat \ {0}]
    /\ MaxFeedback \in Nat /\ MaxFaults \in Nat

VARIABLES
    program,    \* the steps and waits of this function
    traced,     \* disableTrace is not set
    code,       \* where the wrapper and the function are
    status,     \* the status of the run at the server
    act,        \* activities at the server: how far, and which attempt
    live,       \* attempts a worker is executing
    wait,       \* the webhook waits
    handler,    \* the wait whose handler of `resume` is installed
    feedback,   \* feedbacks delivered so far, and those buffered
    entries,    \* the temporary file of the local processor: what it says of each id
    asked,      \* how many of its entries asked for a rewrite of the trace file
    writes,     \* trace files being written
    file,       \* the trace file
    faults

vars == <<program, traced, code, status, act, live, wait, handler, feedback, entries, asked,
          writes, file, faults>>

(* sendPostRequestAndAwaitWebhook begins with an HTTP request that is an activity too;
   the first activity of all asks for the trace destinations. *)
Activities == {"destinations"} \cup Steps \cup Waits
Attempts == UNION {{a} \X (1 .. MaxAttempts[a]) : a \in Activities}

Root == <<"run", 0>>
Webhook(w) == <<w, 0>>
Ids == Attempts \cup {Root} \cup {Webhook(w) : w \in Waits}

Closings == {"end", "error"}
Closed == {"completed", "continued", "failed", "cancelled", "terminated"}
NotWritten == [shows |-> 0, torn |-> FALSE]
NoWait == [at |-> "none", since |-> 0, by |-> 0]

TypeOK ==
    /\ program \in Programs /\ traced \in BOOLEAN
    /\ code \in {"pending", "resolving", "running", "task_failing", "over"}
    /\ status \in Closed \cup {"running"}
    /\ act \in [Activities ->
          [at : {"idle", "queued", "running", "handed_off", "done", "failed"},
           attempt : Nat]]
    /\ \A a \in Activities : act[a].attempt <= MaxAttempts[a]
    /\ live \subseteq Attempts
    /\ wait \in [Waits -> [at : {"none", "requesting", "waiting", "resumed"},
                           since : 0 .. MaxFeedback, by : 0 .. MaxFeedback]]
    /\ handler \in {<<>>} \cup {<<w>> : w \in Waits}
    /\ feedback \in [sent : 0 .. MaxFeedback, buffered : 0 .. MaxFeedback]
    /\ entries \in [Ids -> Seq({"start"} \cup Closings)]
    /\ asked \in Nat
    /\ writes \subseteq [shows : Nat, alone : BOOLEAN]
    /\ file \in [shows : Nat, torn : BOOLEAN]
    /\ faults \in 0 .. MaxFaults

Init ==
    /\ program \in Programs /\ traced \in BOOLEAN
    /\ code = "pending" /\ status = "running"
    /\ act = [a \in Activities |-> [at |-> "idle", attempt |-> 0]]
    /\ live = {}
    /\ wait = [w \in Waits |-> NoWait]
    /\ handler = <<>> /\ feedback = [sent |-> 0, buffered |-> 0]
    /\ entries = [id \in Ids |-> <<>>] /\ asked = 0 /\ writes = {} /\ file = NotWritten
    /\ faults = 0

-----------------------------------------------------------------------------
(* The trace *)

Trace == <<entries, asked, writes, file>>

(* Slip: the entries are read before the new one is appended. *)
RewrittenEarly(before, now) ==
    IF now = before THEN writes
    ELSE {[w EXCEPT !.alone = FALSE] : w \in writes}
           \cup {[shows |-> before, alone |-> writes = {}]}

(* The writes under way once a rewrite has been asked for: it shows all entries so far,
   and two writes of the file at a time leave what neither wrote. *)
Rewritten(before, now) ==
    IF now = before THEN writes
    ELSE {[w EXCEPT !.alone = FALSE] : w \in writes}
           \cup {[shows |-> now, alone |-> writes = {}]}

(* An error, and the end of the root, rewrite the trace file. *)
Rewrites(id, action) == action = "error" \/ (id = Root /\ action # "start")

(* addEventAction and exec of the local processor: the actions of `said` are appended
   for their ids.  A run without trace information has no entries. *)
Emit(said) ==
    LET now == asked + Cardinality({id \in DOMAIN said :
                          \E i \in DOMAIN said[id] : Rewrites(id, said[id][i])}) IN
    /\ IF traced
       THEN /\ entries' = [id \in Ids |-> IF id \in DOMAIN said
                                          THEN entries[id] \o said[id] ELSE entries[id]]
            /\ asked' = now
            /\ writes' = Rewritten(asked, now)
       ELSE UNCHANGED <<entries, asked, writes>>
    /\ UNCHANGED file

Of(id, actions) == [i \in {id} |-> actions]
Nothing == [id \in {} |-> <<>>]

WriteEnds ==
    /\ \E w \in writes, ok \in BOOLEAN :
         /\ writes' = writes \ {w}
         /\ file' = [shows |-> w.shows, torn |-> ~ok \/ ~w.alone]
    /\ UNCHANGED <<program, traced, code, status, act, live, wait, handler, feedback, entries,
                   asked, faults>>

-----------------------------------------------------------------------------
(* The workflow task *)

Server == <<status, act, wait, handler, feedback>>
Open == status = "running" /\ code # "over"

(* A task whose completion does not reach the server is given again: what it told the
   sinks has been said, and nothing else has happened. *)
Lost(new) ==
    /\ faults < MaxFaults
    /\ faults' = faults + 1
    /\ Emit(new)
    /\ UNCHANGED <<program, traced, code, Server, live>>

(* The interceptor and the wrapper up to their first await: the start of the run, and
   the activity that resolves the trace destinations.  A run that is not traced goes
   straight to the function. *)
RunStarts ==
    /\ Open /\ code = "pending"
    /\ \/ Lost(Of(Root, <<"start">>))
       \/ /\ Emit(Of(Root, <<"start">>))
          /\ IF traced
             THEN /\ code' = "resolving"
                  /\ act' = [act EXCEPT !["destinations"] = [at |-> "queued", attempt |-> 1]]
             ELSE code' = "running" /\ UNCHANGED act
          /\ UNCHANGED <<program, traced, status, live, wait, handler, feedback, faults>>

(* Options that do not parse, or a dispatcher of another run in the global context, are a
   FatalError before anything else is done. *)
RunIsRefused ==
    /\ Open /\ code = "pending"
    /\ \/ Lost(Of(Root, <<"start", "error">>))
       \/ /\ Emit(Of(Root, <<"start", "error">>))
          /\ status' = "failed" /\ code' = "over"
          /\ UNCHANGED <<program, traced, act, live, wait, handler, feedback, faults>>

DestinationsArrive ==
    /\ Open /\ code = "resolving" /\ act["destinations"].at = "done"
    /\ code' = "running"
    /\ UNCHANGED <<program, traced, Server, live, Trace, faults>>

(* The function calls a step through the dispatcher. *)
CallsStep ==
    /\ Open /\ code = "running"
    /\ \E s \in Steps \cap program :
         /\ act[s].at = "idle"
         /\ act' = [act EXCEPT ![s] = [at |-> "queued", attempt |-> 1]]
    /\ UNCHANGED <<program, traced, code, status, wait, handler, feedback, live, Trace, faults>>

(* sendPostRequestAndAwaitWebhook up to its request. *)
RequestsWebhook ==
    /\ Open /\ code = "running"
    /\ \E w \in Waits \cap program :
         /\ wait[w].at = "none"
         /\ wait' = [wait EXCEPT ![w].at = "requesting"]
         /\ act' = [act EXCEPT ![w] = [at |-> "queued", attempt |-> 1]]
    /\ UNCHANGED <<program, traced, code, status, handler, feedback, live, Trace, faults>>

(* The request is done: the handler of `resume` is installed in place of any other.
   The first handler of the run finds the feedbacks buffered until then; the first of
   them resolves the trigger. *)
AwaitsWebhook ==
    /\ Open /\ code = "running"
    /\ \E w \in Waits :
         LET early == feedback.buffered > 0
             new == Of(Webhook(w), IF early THEN <<"start", "end">> ELSE <<"start">>)
             since == feedback.sent - feedback.buffered IN
         /\ wait[w].at = "requesting" /\ act[w].at = "done"
         /\ \/ Lost(new)
            \/ /\ Emit(new)
               /\ wait' = [wait EXCEPT ![w] =
                     [at |-> IF early THEN "resumed" ELSE "waiting", since |-> since,
                      by |-> IF early THEN since + 1 ELSE 0]]
               /\ handler' = <<w>>
               /\ feedback' = [feedback EXCEPT !.buffered = 0]
               /\ UNCHANGED <<program, traced, code, status, act, live, faults>>

(* Slip: the handler installed first goes on hearing as well. *)
ResumesAll ==
    /\ Open /\ code # "pending" /\ feedback.sent < MaxFeedback
    /\ LET heard == {w \in Waits : wait[w].at = "waiting"}
           new == [id \in {Webhook(w) : w \in heard} |-> <<"end">>] IN
       /\ Emit(new)
       /\ wait' = [w \in Waits |-> IF w \in heard
             THEN [wait[w] EXCEPT !.at = "resumed", !.by = feedback.sent + 1] ELSE wait[w]]
       /\ feedback' = [sent |-> feedback.sent + 1,
                       buffered |-> feedback.buffered + IF handler = <<>> THEN 1 ELSE 0]
       /\ UNCHANGED <<program, traced, code, status, act, handler, live, faults>>

(* The signal `resume` is delivered: buffered before the first handler, heard by the
   handler that is installed, and swallowed when its trigger is resolved. *)
Resumes ==
    /\ Open /\ code # "pending" /\ feedback.sent < MaxFeedback
    /\ LET heard == {w \in Waits : handler = <<w>> /\ wait[w].at = "waiting"}
           new == [id \in {Webhook(w) : w \in heard} |-> <<"end">>] IN
       \/ heard # {} /\ Lost(new)
       \/ /\ Emit(new)
          /\ wait' = [w \in Waits |-> IF w \in heard
                THEN [wait[w] EXCEPT !.at = "resumed", !.by = feedback.sent + 1] ELSE wait[w]]
          /\ feedback' = [sent |-> feedback.sent + 1,
                          buffered |-> feedback.buffered + IF handler = <<>> THEN 1 ELSE 0]
          /\ UNCHANGED <<program, traced, code, status, act, handler, live, faults>>

(* Slip: only a failure closes the trace of the run. *)
OutcomeUntold(failure) ==
    CASE failure = "none" -> <<"end", "completed">>
      [] failure = "continue_as_new" -> <<"none", "continued">>
      [] failure = "cancellation" -> <<"error", "cancelled">>
      [] failure \in {"fatal", "temporal"} -> <<"error", "failed">>

(* What the interceptor tells the sinks about the end of the function, and how the run
   closes then.  An error that is none of these only fails the task. *)
Outcome(failure) ==
    CASE failure = "none" -> <<"end", "completed">>
      [] failure = "continue_as_new" -> <<"end", "continued">>
      [] failure = "cancellation" -> <<"error", "cancelled">>
      [] failure \in {"fatal", "temporal"} -> <<"error", "failed">>

(* The function ends.  It, or the wrapper before it, may let the failure of an activity
   through (a TemporalFailure); input, output and its own throws are FatalErrors. *)
Ends ==
    /\ Open
    /\ \E failure \in {"none", "continue_as_new", "cancellation", "fatal", "temporal"} :
         /\ \/ code = "running"
            \/ code = "resolving" /\ failure \in {"cancellation", "temporal"}
         /\ failure = "temporal" => \E a \in Activities : act[a].at = "failed"
         /\ LET new == IF Outcome(failure)[1] = "none" THEN Nothing
                       ELSE Of(Root, <<Outcome(failure)[1]>>) IN
            \/ Lost(new)
            \/ /\ Emit(new)
               /\ status' = Outcome(failure)[2] /\ code' = "over"
               /\ UNCHANGED <<program, traced, act, live, wait, handler, feedback, faults>>

(* Any other error: the task is retried with the same result until it is terminated. *)
FailsItsTask ==
    /\ Open /\ code = "running"
    /\ code' = "task_failing"
    /\ UNCHANGED <<program, traced, Server, live, Trace, faults>>

(* The server closes the run without asking the worker. *)
IsTerminated ==
    /\ Open
    /\ status' = "terminated" /\ code' = "over"
    /\ UNCHANGED <<program, traced, act, wait, handler, feedback, live, Trace, faults>>

-----------------------------------------------------------------------------
(* The attempts of an activity *)

NoWorkflow == UNCHANGED <<program, traced, code, status, wait, handler, feedback>>

(* Slip: the id of the trace entries is that of the activity. *)
EntryOfActivity(a, n) == <<a, 1>>

(* The id of the trace entries of an attempt. *)
EntryOf(a, n) == <<a, n>>

(* execute of the interceptor up to the handler. *)
AttemptStarts(a) ==
    /\ Open /\ act[a].at = "queued"
    /\ act' = [act EXCEPT ![a].at = "running"]
    /\ live' = live \cup {<<a, act[a].attempt>>}
    /\ Emit(Of(EntryOf(a, act[a].attempt), <<"start">>))
    /\ NoWorkflow /\ UNCHANGED faults

(* The report of attempt n reaches the server, which drops it if the run is closed or
   the attempt was given up. *)
Reported(a, n, at) ==
    act' = IF Open /\ act[a] = [at |-> "running", attempt |-> n]
           THEN [act EXCEPT ![a] = [at |-> at,
                    attempt |-> IF at = "queued" THEN n + 1 ELSE n]]
           ELSE act

(* A failed attempt that may be retried, and that has attempts left, is. *)
Retried(a, n) == IF n < MaxAttempts[a] THEN "queued" ELSE "failed"

(* The handler returns, hands over to an external completion, or throws.  A FatalError,
   or one named by the retry policy, is not retried. *)
AttemptEnds(a, n) ==
    /\ <<a, n>> \in live
    /\ live' = live \ {<<a, n>>}
    /\ \/ Emit(Of(EntryOf(a, n), <<"end">>)) /\ Reported(a, n, "done")
       \/ a \in Steps /\ Emit(Of(EntryOf(a, n), <<"end">>)) /\ Reported(a, n, "handed_off")
       \/ /\ Emit(Of(EntryOf(a, n), <<"error">>))
          /\ \/ a # "destinations" /\ Reported(a, n, "failed")
             \/ Reported(a, n, Retried(a, n))
    /\ NoWorkflow /\ UNCHANGED faults

(* Somebody completes the activity that was handed over. *)
CompletesHandedOff(a) ==
    /\ Open /\ act[a].at = "handed_off"
    /\ \E at \in {"done", "failed"} : act' = [act EXCEPT ![a].at = at]
    /\ NoWorkflow /\ UNCHANGED <<live, Trace, faults>>

(* Slip: without a start-to-close timeout a worker may execute for ever. *)
TimesOutIfAbandoned(a) ==
    /\ Open /\ act[a].at \in {"running", "handed_off"}
    /\ <<a, act[a].attempt>> \notin live
    /\ LET n == act[a].attempt IN
       act' = [act EXCEPT ![a] = [at |-> Retried(a, n),
                  attempt |-> IF n < MaxAttempts[a] THEN n + 1 ELSE n]]
    /\ NoWorkflow /\ UNCHANGED <<live, Trace, faults>>

(* No heartbeat or no end in time: the server gives the attempt up; the worker may go
   on executing it. *)
AttemptTimesOut(a) ==
    /\ Open /\ act[a].at \in {"running", "handed_off"}
    /\ LET n == act[a].attempt IN
       act' = [act EXCEPT ![a] = [at |-> Retried(a, n),
                  attempt |-> IF n < MaxAttempts[a] THEN n + 1 ELSE n]]
    /\ NoWorkflow /\ UNCHANGED <<live, Trace, faults>>

(* The worker process dies, and another one goes on with the same files. *)
WorkerCrashes ==
    /\ faults < MaxFaults
    /\ (live # {} \/ writes # {})
    /\ faults' = faults + 1
    /\ live' = {} /\ writes' = {}
    /\ file' = IF writes # {} THEN [file EXCEPT !.torn = TRUE] ELSE file
    /\ UNCHANGED <<program, traced, code, Server, entries, asked>>

Next ==
    \/ RunStarts \/ RunIsRefused \/ DestinationsArrive \/ CallsStep \/ RequestsWebhook \/ AwaitsWebhook
    \/ Resumes \/ Ends \/ FailsItsTask \/ IsTerminated
    \/ \E a \in Activities : AttemptStarts(a) \/ CompletesHandedOff(a) \/ AttemptTimesOut(a)
    \/ \E id \in live : AttemptEnds(id[1], id[2])
    \/ WriteEnds \/ WorkerCrashes

(* The server dispatches what is queued and keeps its timeouts; nothing is asked of the
   function, of the activities or of whoever gives feedback. *)
Fairness ==
    \A a \in Activities : WF_vars(AttemptStarts(a)) /\ WF_vars(AttemptTimesOut(a))

Spec == Init /\ [][Next]_vars /\ Fairness

-----------------------------------------------------------------------------
(* A retried attempt and the one it replaces, which a worker may still be executing,
   keep entries of their own: an attempt is started once and closed at most once, in
   that order (interceptors/activity.js:58). *)
AttemptsApart ==
    \A id \in Attempts :
        entries[id] \in {<<>>, <<"start">>, <<"start", "end">>, <<"start", "error">>}

(* The last word the trace has on a run is how the run closed, although a task may be
   given twice with different outcomes; only a terminated run, and one that is open,
   may end with another word or none (interceptors/workflow.js:54). *)
TraceTellsOutcome ==
    traced /\ status \notin {"running", "terminated"} =>
        Last(entries[Root]) = IF status \in {"completed", "continued"} THEN "end" ELSE "error"

(* A wait resumes with the first feedback delivered once its handler is there (for the
   first wait: the first of all), never with one that another wait took, and not after
   another wait has replaced its handler (webhook.js:58). *)
ResumesWithItsFeedback ==
    /\ \A w \in Waits : wait[w].at = "resumed" => wait[w].by = wait[w].since + 1
    /\ \A v, w \in Waits :
          wait[v].at = "resumed" /\ wait[w].at = "resumed" /\ v # w =>
              /\ wait[v].by # wait[w].by
              /\ wait[v].since < wait[w].since => wait[v].by <= wait[w].since

(* Unless two writes met, a write failed or the worker died in one, the trace file at rest
   shows the run up to the last entry that asks for a rewrite: every error, and the end
   (processors/local/index.js:130). *)
FileIsCurrent == writes = {} /\ ~file.torn => file.shows = asked

(* Every activity of a run that stays open is done or failed in the end: an attempt
   that hangs, or whose worker died, is given up and retried only so often. *)
ActivitiesSettle ==
    \A a \in Activities :
        act[a].at \in {"queued", "running", "handed_off"} ~> act[a].at \in {"done", "failed"} \/ ~Open
=============================================================================
