--------------------------- MODULE WorkflowMonitor ---------------------------
(***************************************************************************)
(* `output workflow monitor`: a loop in the CLI follows a workflow run     *)
(* page by page through the API, prints what became of each of its steps,  *)
(* goes on to the next run when the run continues as new, and stops when   *)
(* the run is closed.  The run, the Temporal server and the API move on    *)
(* between any two calls: the API answers one request with two calls of    *)
(* its own, the description of the run and then a page of its history.     *)
(*   sdk/cli/src/services/monitor_stream.ts, workflow_history.ts           *)
(*   api/src/clients/temporal/.../get_history.js, fetch_history_page.js    *)
(***************************************************************************)
EXTENDS Naturals, Sequences, HistoryPages

CONSTANTS
  Spans,                 \* the steps a run may execute
  PageSize,              \* PAGE_SIZE
  MaxConsecutiveErrors,  \* MAX_CONSECUTIVE_ERRORS
  MaxRuns                \* bound on the chain of continue-as-new runs

ASSUME PageSizeAssumption == PageSize \in Nat \ {0}
ASSUME MaxConsecutiveErrorsAssumption == MaxConsecutiveErrors \in Nat \ {0}
ASSUME MaxRunsAssumption == MaxRuns \in Nat \ {0}

VARIABLES
  runs,               \* at Temporal: the runs of the workflow id, a run id is an index
  pc,                 \* the await the loop is in, or "ended"
  runId,              \* state.runId, 0 while undefined
  cursor,             \* state.cursor, or None
  acc,                \* the cursor of the walk in progress (fetchPages)
  consecutiveErrors,
  seen,               \* per span, the status last printed of it in this run
  detached,
  outcome,            \* how streamWorkflowUpdates ended
  printed             \* per run and span, the statuses printed, in order

server == <<runs>>
monitorVars == <<runs, pc, runId, cursor, acc, consecutiveErrors, seen, detached, outcome, printed>>

-----------------------------------------------------------------------------
(***************************************************************************)
(* The workflow at Temporal.                                               *)
(***************************************************************************)
Kinds == {"scheduled", "started", "ended"}
Events == [kind : Kinds, span : Spans] \cup [kind : {"begun", "closed", "continued"}]
Terminal == {"completed", "failed"}
Statuses == {"running", "continued_as_new"} \cup Terminal

NewRun == [events |-> <<[kind |-> "begun"]>>, status |-> "running"]

Happened(r, k, s) ==
  \E i \in 1 .. Len(runs[r].events) : runs[r].events[i] = [kind |-> k, span |-> s]

\* The run that executes; the earlier ones have all continued as new.
Latest == Len(runs)
Running == runs[Latest].status = "running"

Record(event, status) ==
  [runs EXCEPT ![Latest] = [events |-> Append(@.events, event), status |-> status]]

\* A step is scheduled once, and then starts, ends, or ends without a start.
StepMoves(s) ==
  /\ Running
  /\ \E k \in Kinds :
       /\ ~Happened(Latest, k, s) /\ ~Happened(Latest, "ended", s)
       /\ k # "scheduled" => Happened(Latest, "scheduled", s)
       /\ runs' = Record([kind |-> k, span |-> s], "running")

RunCloses ==
  /\ Running
  /\ \E status \in Terminal : runs' = Record([kind |-> "closed"], status)

RunContinues ==
  /\ Running
  /\ Latest < MaxRuns
  /\ runs' = Append(Record([kind |-> "continued"], "continued_as_new"), NewRun)

Workflow ==
  /\ (\E s \in Spans : StepMoves(s)) \/ RunCloses \/ RunContinues
  /\ UNCHANGED <<pc, runId, cursor, acc, consecutiveErrors, seen, detached, outcome, printed>>
-----------------------------------------------------------------------------
(***************************************************************************)
(* Reading the history.  A cursor has the position of the page to ask for  *)
(* (pageToken, 0 for none), the ids of the events collected so far, the    *)
(* last of them, and the status the last description gave.                 *)
(***************************************************************************)
None == [run |-> 0, pageToken |-> 0, lastEventId |-> 0, events |-> <<>>, meta |-> "none"]

Unseen == [s \in Spans |-> "none"]

\* A poll long-polls when it resumes from a cursor: the first walk of a run does not.
Resumes == cursor # None

isRunClosed(meta) == meta \in Terminal \cup {"continued_as_new"}

\* What a span's events come to (correlate); "none" where there is no span.
\* events is a sequence of event ids of run r.
SpanStatus(r, events, s) ==
  LET has(k) == \E i \in 1 .. Len(events) : runs[r].events[events[i]] = [kind |-> k, span |-> s]
  IN  IF ~has("scheduled") THEN "none"
      ELSE IF has("ended") THEN "ended"
      ELSE IF has("started") THEN "running"
      ELSE "pending"

\* The id of the run this one continued as, 0 when its event is not among those collected.
continuedAsNewRunId(r, events) ==
  IF \E i \in 1 .. Len(events) : runs[r].events[events[i]].kind = "continued"
  THEN r + 1 ELSE 0

\* diffSpanUpdates: the spans whose status is not the one last printed; pending ones
\* are skipped.
Updates(a) ==
  {s \in Spans : SpanStatus(a.run, a.events, s) \notin {"none", "pending", seen[s]}}

SeenAfter(a) ==
  [s \in Spans |-> IF s \in Updates(a) THEN SpanStatus(a.run, a.events, s) ELSE seen[s]]

PrintedAfter(a) ==
  [printed EXCEPT ![a.run] =
    [s \in Spans |->
      IF s \in Updates(a) THEN Append(@[s], SpanStatus(a.run, a.events, s)) ELSE @[s]]]
-----------------------------------------------------------------------------
(***************************************************************************)
(* The loop of streamWorkflowUpdates.                                      *)
(***************************************************************************)
MonitorInit ==
  /\ runs = <<NewRun>>
  /\ pc = "loop"
  /\ runId \in {0, 1}
  /\ cursor = None
  /\ acc = None
  /\ consecutiveErrors = 0
  /\ seen = Unseen
  /\ detached = FALSE
  /\ outcome = "none"
  /\ printed = [r \in 1 .. MaxRuns |-> [s \in Spans |-> <<>>]]

End(how) == pc' = "ended" /\ outcome' = how

\* The head of the loop, entered at once or after a sleep, up to the request.
Poll ==
  /\ pc = "loop"
  /\ IF detached
     THEN End("detached") /\ UNCHANGED acc
     ELSE /\ pc' = "describe"
          /\ acc' = IF Resumes THEN cursor ELSE [None EXCEPT !.run = runId]
          /\ UNCHANGED outcome
  /\ UNCHANGED <<server, runId, cursor, consecutiveErrors, seen, detached, printed>>

\* Slip: the description comes with the first page only.
DescribeFirstPageOnly ==
  /\ pc = "describe"
  /\ pc' = "page"
  /\ IF acc.pageToken = 0
     THEN LET r == IF acc.run = 0 THEN Latest ELSE acc.run
          IN  acc' = [acc EXCEPT !.run = r, !.meta = runs[r].status]
     ELSE UNCHANGED acc
  /\ UNCHANGED <<server, runId, cursor, consecutiveErrors, seen, detached, outcome, printed>>

\* getHistory: the run is described for the first page and for every long poll; with no
\* run id it is the latest run that is described.
Describe ==
  /\ pc = "describe"
  /\ pc' = "page"
  /\ IF acc.pageToken = 0 \/ Resumes
     THEN LET r == IF acc.run = 0 THEN Latest ELSE acc.run
          IN  acc' = [acc EXCEPT !.run = r, !.meta = runs[r].status]
     ELSE UNCHANGED acc
  /\ UNCHANGED <<server, runId, cursor, consecutiveErrors, seen, detached, outcome, printed>>

\* The run continued: on to the next one, with nothing read or printed of it.
Follow(next) ==
  /\ pc' = "loop"
  /\ runId' = next
  /\ cursor' = None
  /\ seen' = Unseen
  /\ UNCHANGED outcome

\* The rest of the loop's body, when a poll has answered with the cursor a.
Report(a) ==
  /\ acc' = None
  /\ UNCHANGED <<server, detached>>
  /\ IF detached
     THEN End("detached") /\ UNCHANGED <<runId, cursor, consecutiveErrors, seen, printed>>
     ELSE /\ consecutiveErrors' = 0
          /\ printed' = PrintedAfter(a)
          /\ LET next == continuedAsNewRunId(a.run, a.events)
             IN  IF a.meta = "continued_as_new" /\ next # 0
                 THEN Follow(next)
                 ELSE /\ cursor' = a
                      /\ runId' = a.run
                      /\ seen' = SeenAfter(a)
                      /\ \/ a.meta = "running" /\ pc' = "loop" /\ UNCHANGED outcome
                         \/ a.meta \in Terminal /\ End(a.meta)
                         \/ a.meta = "continued_as_new" /\ End("undetermined")

\* Slip: a resumed walk hands back the first news, be the run closed or not.
StopsEagerly(a, news, nextToken) ==
  \/ Resumes /\ news # <<>>
  \/ Resumes /\ nextToken = acc.pageToken
  \/ nextToken = 0

\* fetchPages ends its walk: news of an open run, a deadline that elapsed (the token
\* comes back unchanged), or nothing more to read.
Stops(a, news, nextToken) ==
  \/ Resumes /\ news # <<>> /\ ~isRunClosed(a.meta)
  \/ Resumes /\ nextToken = acc.pageToken
  \/ nextToken = 0

\* Slip: a page that is read again is taken in again.
WholePage(page) == page

\* The events of a page that were not collected yet.
NewEvents(page) == Above(page, acc.lastEventId)

\* fetchPages takes in one answer of the API.
Take(page, nextToken) ==
  LET news == NewEvents(page)
      a == [acc EXCEPT
             !.events = @ \o news,
             !.lastEventId = IF news = <<>> THEN @ ELSE news[Len(news)],
             !.pageToken = IF nextToken = 0 THEN @ ELSE nextToken]
  IN  IF Stops(a, news, nextToken)
      THEN Report(a)
      ELSE /\ pc' = "describe"
           /\ acc' = a
           /\ UNCHANGED <<server, runId, cursor, consecutiveErrors, seen, detached, outcome, printed>>

Tip == Len(runs[acc.run].events)
Open == runs[acc.run].status = "running"

\* Temporal answers at once unless a long poll has caught up with an open run.  The
\* next token is empty at the tip, except for a long poll of an open run.
PageArrives ==
  /\ pc = "page"
  /\ acc.pageToken < Tip \/ ~Resumes \/ ~Open
  /\ LET last == IF acc.pageToken + PageSize < Tip THEN acc.pageToken + PageSize ELSE Tip
     IN  Take(Ids(acc.pageToken, last),
              IF last < Tip \/ (Resumes /\ Open) THEN last ELSE 0)

\* The deadline of a long poll, which is the user's --interval up to the server's own: the
\* API echoes the token, whether the run had nothing new or its page came too slowly.
DeadlineElapses ==
  /\ pc = "page"
  /\ Resumes
  /\ Take(<<>>, acc.pageToken)

\* This failure is the last the budget allows.
BudgetSpent == consecutiveErrors + 1 >= MaxConsecutiveErrors

\* A request fails, and what the walk had collected with it; a transient error is
\* retried while the budget lasts.
PollFails(transient) ==
  /\ pc \in {"describe", "page"}
  /\ acc' = None
  /\ IF detached THEN End("detached") /\ UNCHANGED consecutiveErrors
     ELSE IF ~transient \/ BudgetSpent
     THEN End("error") /\ UNCHANGED consecutiveErrors
     ELSE pc' = "loop" /\ consecutiveErrors' = consecutiveErrors + 1 /\ UNCHANGED outcome
  /\ UNCHANGED <<server, runId, cursor, seen, detached, printed>>

\* SIGINT: the loop goes on until it sees it, or until the process has flushed and exits.
Detach ==
  /\ pc # "ended"
  /\ ~detached
  /\ detached' = TRUE
  /\ UNCHANGED <<server, pc, runId, cursor, acc, consecutiveErrors, seen, outcome, printed>>

ProcessExits ==
  /\ detached
  /\ pc # "ended"
  /\ End("detached")
  /\ acc' = None
  /\ UNCHANGED <<server, runId, cursor, consecutiveErrors, seen, detached, printed>>

Answered == Describe \/ PageArrives \/ DeadlineElapses

MonitorNext ==
  \/ Workflow
  \/ Poll
  \/ Answered
  \/ \E transient \in BOOLEAN : PollFails(transient)
  \/ Detach
  \/ ProcessExits

MonitorSpec == MonitorInit /\ [][MonitorNext]_monitorVars

\* The loop wakes up, and a request is answered or fails in the end; nothing is asked
\* of the workflow or of the user.
MonitorFairSpec ==
  /\ MonitorSpec
  /\ WF_monitorVars(Poll)
  /\ WF_monitorVars(Answered \/ \E transient \in BOOLEAN : PollFails(transient))
-----------------------------------------------------------------------------
Cursors ==
  [run : 0 .. MaxRuns, pageToken : Nat, lastEventId : Nat, events : Seq(Nat \ {0}),
   meta : {"none"} \cup Statuses]

\* Type invariant: in particular the errors in a row stay under the budget while the loop
\* goes on.
MonitorTypeOK ==
  /\ runs \in Seq([events : Seq(Events), status : Statuses])
  /\ pc \in {"loop", "describe", "page", "ended"}
  /\ runId \in 0 .. MaxRuns
  /\ cursor \in Cursors /\ acc \in Cursors
  /\ consecutiveErrors \in 0 .. MaxConsecutiveErrors - 1
  /\ seen \in [Spans -> {"none", "running", "ended"}]
  /\ detached \in BOOLEAN
  /\ outcome \in {"none", "error", "detached", "undetermined"} \cup Terminal
  /\ printed \in [1 .. MaxRuns -> [Spans -> Seq({"running", "ended"})]]

Contiguous(c) ==
  /\ c.events = Ids(0, c.lastEventId)
  /\ c.pageToken <= c.lastEventId
  /\ c.run # 0 => c.lastEventId <= Len(runs[c.run].events)

\* What a cursor has collected is the history up to lastEventId, each event once, and
\* the position it resumes from skips nothing: walks that were cut short by an error, a
\* deadline or a batch of news are always taken up without a gap or a repetition.
NoGap == Contiguous(cursor) /\ Contiguous(acc)

\* A line is printed once, and running never after ended.
PrintedInOrder ==
  \A r \in 1 .. MaxRuns, s \in Spans :
    printed[r][s] \in {<<>>, <<"running">>, <<"ended">>, <<"running", "ended">>}

\* What the user reads of a run is its history, in order and without a gap.
TellsTheHistory == MonitorTypeOK /\ NoGap /\ PrintedInOrder

\* The long poll ran into its deadline although the run has events that were not read.
CutShort == DeadlineElapses /\ acc.lastEventId < Tip

LeavesRun(r) == acc.run = r /\ pc' # "describe" /\ (runId' > r \/ outcome' \in Terminal)
HasLastWord(r) ==
  \A s \in Spans :
    LET status == SpanStatus(r, Ids(0, Len(runs[r].events)), s)
        lines == printed[r][s]
    IN  status \in {"running", "ended"} => lines # <<>> /\ lines[Len(lines)] = status

\* The monitor leaves a run, for its successor or for good, only when it has printed the
\* last word on every step of it, although it learns that the run is closed before it has
\* read the end of its history.  The one exception is the code's own: a deadline that
\* elapses before a page of a closed run has come is taken for the end of its history.
LastWord == [][\A r \in 1 .. MaxRuns : LeavesRun(r) => HasLastWord(r)' \/ CutShort]_monitorVars

\* A chain of continued runs is followed to its end: the run id of the successor has been
\* read by the time the status tells the monitor to go there, with the same exception.
NeverLosesTheChain ==
  [][outcome = "none" /\ outcome' = "undetermined" => CutShort]_monitorVars

\* Once the user has been told "Detached", nothing is printed, and the process does not
\* end as if it had seen the workflow's end or an error.
QuietOnceDetached ==
  [][detached => UNCHANGED printed /\ outcome' \in {"none", "detached"}]_monitorVars

\* The monitor leaves a run, or is left by its user, with the right last line, unless a
\* deadline cut the history of a closed run short.
LeavesInTime == LastWord /\ NeverLosesTheChain /\ QuietOnceDetached

\* When the workflow is over, the monitor ends (at last by giving up on an API that
\* keeps failing), wherever in the history it was.
EndsWithTheWorkflow == ~Running ~> pc = "ended"

==============================================================================
