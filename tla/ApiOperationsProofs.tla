------------------------ MODULE ApiOperationsProofs ------------------------
(***************************************************************************)
(* Proofs about ApiOperations: for any requests, operations and number of  *)
(* runs, an answer is about one run, and a shutdown drops no request       *)
(* before its grace time is over.                                          *)
(*                                                                         *)
(* A step changes the runs, one request, or the process.  What a request   *)
(* relies on, RequestFits, only looks at the runs' first runs, which no    *)
(* step changes (Grown); so a request that a step leaves alone still fits  *)
(* (StillFits), and each action is left to show its own request fitting.   *)
(***************************************************************************)
EXTENDS ApiOperations, FiniteSetTheorems, TLAPS

(* What a request relies on while it waits: a pinned one stays on its run, and what is
   read later is of the run seen first. *)
Waits(q, rs) ==
    /\ q.at \in {"page", "outcome", "download", "first", "history", "reset"} =>
          q.seen \in DOMAIN rs /\ (q.pin # 0 => q.seen = q.pin)
    /\ q.pin # 0 => q.pin \in DOMAIN rs
    /\ q.at \in {"download", "reset"} => q.mark = q.seen
    /\ q.at = "first" => q.pin = 0 /\ rs[q.seen].first = q.seen
    /\ q.op \in {"stop", "terminate", "input", "reset"} /\ q.at = "describe" => q.pin = 0
    /\ q.op \in {"run", "stop", "terminate"} /\ q.at = "describe" => q.mark \in DOMAIN rs

(* What AboutOneRun says of one request, and that an input was read of a run the
   server knows. *)
Tells(q, rs) ==
    q.ok =>
      /\ q.op \in {"result", "trace", "status", "input"} => q.parts = {q.run}
      /\ q.op \in {"result", "trace", "status", "input", "stop", "terminate"} /\ q.pin # 0
            => q.run = q.pin /\ q.parts = {q.pin}
      /\ q.op = "reset" => Cardinality(q.parts) = 1 /\ (q.pin # 0 => q.parts = {q.pin})
      /\ q.op = "input" /\ q.pin = 0 => q.run \in DOMAIN rs /\ rs[q.run].first = q.run

RequestFits(q, rs) == q \in RequestType /\ Waits(q, rs) /\ Tells(q, rs)

(* The runs the server knows: each has a first run, which is its own first. *)
Rooted ==
    /\ runs \in Seq(RunType) /\ Len(runs) <= MaxRuns
    /\ \A i \in DOMAIN runs :
          runs[i].first \in DOMAIN runs /\ runs[runs[i].first].first = runs[i].first

AnswersKept ==
    /\ Rooted
    /\ request \in [Requests -> RequestType]
    /\ \A r \in Requests : RequestFits(request[r], runs)

(* Runs are only added, and none changes its first run. *)
Grown == \A i \in DOMAIN runs : i \in DOMAIN runs' /\ runs'[i].first = runs[i].first

(* One request changes. *)
Changes(r, q) == request' = [request EXCEPT ![r] = q]

(* No request has come, and a run that is open already is its own first. *)
LEMMA InitAnswers == Init => AnswersKept
<1> SUFFICES ASSUME Init PROVE AnswersKept
    OBVIOUS
<1> USE MaxRunsAssumption
<1>1. NoRequest \in RequestType
  BY DEF NoRequest, Routed, RequestType, Places, AllOps, RunIds
<1>2. Rooted
  <2>1. CASE runs = <<>>
    BY <2>1 DEF Rooted
  <2>2. CASE runs = <<[status |-> "running", first |-> 1, step |-> "settled"]>>
    BY <2>2 DEF Rooted, RunType, RunIds, Closed, Progress
  <2> QED BY <2>1, <2>2 DEF Init
<1>3. RequestFits(NoRequest, runs)
  BY <1>1 DEF RequestFits, NoRequest, Routed, Waits, Tells
<1> QED BY <1>1, <1>2, <1>3 DEF AnswersKept, Init

(* A request that fits goes on fitting while the runs only grow. *)
LEMMA StillFits ==
  ASSUME Rooted, Grown, NEW q, RequestFits(q, runs)
  PROVE  RequestFits(q, runs')
<1>1. runs \in Seq(RunType)
  BY DEF Rooted
<1>2. Waits(q, runs')
  BY <1>1 DEF RequestFits, Waits, Grown, RequestType
<1>3. Tells(q, runs')
  BY <1>1 DEF RequestFits, Tells, Grown, RequestType
<1> QED BY <1>2, <1>3 DEF RequestFits, RequestType, RunIds

(* A step that leaves the requests alone. *)
LEMMA RequestsStay ==
  ASSUME AnswersKept, Rooted', Grown, request' = request
  PROVE  AnswersKept'
BY StillFits DEF AnswersKept, Rooted

(* A step that changes one of them. *)
LEMMA OneChanges ==
  ASSUME AnswersKept, Rooted', Grown, NEW r \in Requests,
         \E q : Changes(r, q) /\ RequestFits(q, runs')
  PROVE  AnswersKept'
<1> PICK q : Changes(r, q) /\ RequestFits(q, runs')
  OBVIOUS
<1>1. q \in RequestType
  BY DEF RequestFits
<1>2. request' \in [Requests -> RequestType]
  BY <1>1 DEF AnswersKept, Changes
<1>3. ASSUME NEW s \in Requests PROVE RequestFits(request'[s], runs')
  <2>1. CASE s = r
    BY <2>1 DEF Changes, AnswersKept
  <2>2. CASE s # r
    <3>1. request'[s] = request[s]
      BY <2>2 DEF Changes, AnswersKept
    <3> QED BY <3>1, StillFits DEF AnswersKept
  <2> QED BY <2>1, <2>2
<1> QED BY <1>2, <1>3 DEF AnswersKept

(***************************************************************************)
(* The runs: an entry's status or progress changes, or a run is added.     *)
(***************************************************************************)
LEMMA RunsStay ==
  ASSUME Rooted, runs' = runs
  PROVE  Rooted' /\ Grown
BY DEF Rooted, Grown, RunType, RunIds, Closed, Progress

(* Every run keeps its first run, whatever else becomes of it. *)
LEMMA RunsMove ==
  ASSUME Rooted, runs' \in Seq(RunType), Len(runs') = Len(runs),
         \A i \in DOMAIN runs : runs'[i].first = runs[i].first
  PROVE  Rooted' /\ Grown
<1>1. runs \in Seq(RunType)
  BY DEF Rooted
<1>2. DOMAIN runs' = DOMAIN runs
  BY <1>1
<1> QED BY <1>1, <1>2 DEF Rooted, Grown, RunType, RunIds, Closed, Progress

(* A run is added to such runs: a first one, or one of the chain of another. *)
LEMMA RunAdded ==
  ASSUME Rooted, NEW rs \in Seq(RunType), Len(rs) = Len(runs), Len(runs) < MaxRuns,
         \A i \in DOMAIN runs : rs[i].first = runs[i].first,
         NEW f, NEW step \in Progress,
         f = Len(runs) + 1 \/ (\E i \in DOMAIN runs : f = runs[i].first),
         runs' = Append(rs, NewRun(f, step))
  PROVE  Rooted' /\ Grown
<1> USE MaxRunsAssumption
<1>1. /\ runs \in Seq(RunType) /\ Len(runs) \in Nat
      /\ DOMAIN runs = 1 .. Len(runs) /\ DOMAIN rs = DOMAIN runs
  BY DEF Rooted
<1>2. f \in RunIds
  BY <1>1 DEF Rooted, RunIds
<1>3. NewRun(f, step) \in RunType /\ NewRun(f, step).first = f
  BY <1>2 DEF NewRun, RunType
<1>4. /\ runs' \in Seq(RunType) /\ Len(runs') = Len(runs) + 1
      /\ DOMAIN runs' = 1 .. Len(runs) + 1
      /\ runs'[Len(runs) + 1].first = f
      /\ \A i \in DOMAIN runs : runs'[i].first = runs[i].first
  BY <1>1, <1>3
<1>5. Len(runs') <= MaxRuns
  BY <1>1, <1>4
<1>6. ASSUME NEW i \in DOMAIN runs'
      PROVE  runs'[i].first \in DOMAIN runs' /\ runs'[runs'[i].first].first = runs'[i].first
  <2>1. CASE i \in DOMAIN runs
    BY <1>1, <1>4, <2>1 DEF Rooted
  <2>2. CASE i = Len(runs) + 1 /\ f = Len(runs) + 1
    BY <1>1, <1>4, <2>2
  <2>3. CASE i = Len(runs) + 1 /\ \E j \in DOMAIN runs : f = runs[j].first
    BY <1>1, <1>4, <2>3 DEF Rooted
  <2> QED BY <1>1, <1>4, <2>1, <2>2, <2>3
<1>7. Rooted'
  <2>1. RunType' = RunType
    BY DEF RunType, RunIds, Closed, Progress
  <2> QED BY <1>4, <1>5, <1>6, <2>1 DEF Rooted
<1> QED BY <1>1, <1>4, <1>7 DEF Grown

(* A field of one entry is set. *)
LEMMA StatusSet ==
  ASSUME NEW rs \in Seq(RunType), NEW i \in DOMAIN rs, NEW status \in Closed
  PROVE  /\ [rs EXCEPT ![i].status = status] \in Seq(RunType)
         /\ Len([rs EXCEPT ![i].status = status]) = Len(rs)
         /\ \A j \in DOMAIN rs : [rs EXCEPT ![i].status = status][j].first = rs[j].first
<1>1. rs[i] \in RunType
  OBVIOUS
<1>2. [rs[i] EXCEPT !.status = status] \in RunType
  BY <1>1 DEF RunType
<1>3. [rs[i] EXCEPT !.status = status].first = rs[i].first
  BY <1>1 DEF RunType
<1> QED BY <1>2, <1>3

(* The same for the progress of a run's step. *)
LEMMA StepSet ==
  ASSUME NEW rs \in Seq(RunType), NEW i \in DOMAIN rs, NEW step \in Progress
  PROVE  /\ [rs EXCEPT ![i].step = step] \in Seq(RunType)
         /\ Len([rs EXCEPT ![i].step = step]) = Len(rs)
         /\ \A j \in DOMAIN rs : [rs EXCEPT ![i].step = step][j].first = rs[j].first
<1>1. rs[i] \in RunType
  OBVIOUS
<1>2. [rs[i] EXCEPT !.step = step] \in RunType
  BY <1>1 DEF RunType
<1>3. [rs[i] EXCEPT !.step = step].first = rs[i].first
  BY <1>1 DEF RunType
<1> QED BY <1>2, <1>3

(* The workflow by itself keeps its runs rooted and touches no request. *)
LEMMA WorkflowMoves ==
  ASSUME AnswersKept, Workflow
  PROVE  Rooted' /\ Grown /\ request' = request
<1> USE MaxRunsAssumption
<1>1. Rooted /\ runs \in Seq(RunType) /\ "none" \in Progress
      /\ (Open(Latest) => Latest \in DOMAIN runs)
  BY DEF AnswersKept, Rooted, Progress, Open
<1>2. CASE StepAdvances
  <2>1. PICK s \in {<<"none", "scheduled">>, <<"scheduled", "settled">>} :
               runs' = [runs EXCEPT ![Latest].step = s[2]]
    BY <1>2 DEF StepAdvances
  <2>2. s[2] \in Progress
    BY DEF Progress
  <2>3. Latest \in DOMAIN runs /\ request' = request
    BY <1>1, <1>2 DEF StepAdvances
  <2>4. /\ runs' \in Seq(RunType) /\ Len(runs') = Len(runs)
        /\ \A i \in DOMAIN runs : runs'[i].first = runs[i].first
    <3> DEFINE step == s[2]
    <3> HIDE DEF step
    <3>1. step \in Progress /\ runs' = [runs EXCEPT ![Latest].step = step]
      BY <2>1, <2>2 DEF step
    <3> QED BY <1>1, <2>3, <3>1, StepSet
  <2> QED BY <1>1, <2>3, <2>4, RunsMove
<1>3. CASE RunCloses
  <2>1. Open(Latest) /\ runs' = [runs EXCEPT ![Latest].status = "ended"] /\ request' = request
    BY <1>3 DEF RunCloses
  <2> QED BY <1>1, <2>1, StatusSet, RunsMove DEF Closed
<1>4. CASE ContinuesAsNew
  <2> DEFINE rs == [runs EXCEPT ![Latest].status = "continued_as_new"]
  <2>1. Latest \in DOMAIN runs /\ Len(runs) < MaxRuns /\ request' = request
        /\ runs' = Append(rs, NewRun(runs[Latest].first, "none"))
    BY <1>1, <1>4 DEF ContinuesAsNew, Latest
  <2>2. rs \in Seq(RunType) /\ Len(rs) = Len(runs)
        /\ \A i \in DOMAIN runs : rs[i].first = runs[i].first
    BY <1>1, <2>1, StatusSet DEF Closed
  <2> HIDE DEF rs
  <2> QED BY <1>1, <2>1, <2>2, RunAdded
<1> QED BY <1>2, <1>3, <1>4 DEF Workflow

(* It changes and still fits, and its socket at most takes the answer. *)
Moves(r, q) ==
    /\ Changes(r, q)
    /\ RequestFits(q, runs')
    /\ q.socket = request[r].socket \/ (request[r].socket = "open" /\ q.socket = "answered")

(***************************************************************************)
(* One request: it fails, waits for the next call, or answers.             *)
(***************************************************************************)
LEMMA FailFits ==
  ASSUME AnswersKept, NEW r \in Requests, Fail(r)
  PROVE  \E q : Moves(r, q)
<1> DEFINE q == [op |-> request[r].op, pin |-> 0, at |-> "done", seen |-> 0, mark |-> 0,
                 socket |-> IF request[r].socket = "open" THEN "answered"
                            ELSE request[r].socket,
                 ok |-> FALSE, run |-> 0, parts |-> {}]
<1>1. request[r] \in RequestType
  BY DEF AnswersKept
<1>2. RequestFits(q, runs')
  BY <1>1, MaxRunsAssumption DEF RequestFits, RequestType, Places, Waits, Tells, RunIds
<1>3. Changes(r, q) /\ (q.socket = request[r].socket
                         \/ (request[r].socket = "open" /\ q.socket = "answered"))
  BY DEF Fail, Over, Changes
<1> HIDE DEF q
<1> QED BY <1>2, <1>3 DEF Moves

(* An answer fits when what it tells does. *)
LEMMA AnswerFits ==
  ASSUME AnswersKept, Grown, NEW r \in Requests,
         NEW run \in 0 .. MaxRuns, NEW parts \in SUBSET RunIds, Answer(r, run, parts),
         Tells([op |-> request[r].op, pin |-> request[r].pin, ok |-> TRUE,
                run |-> run, parts |-> parts], runs')
  PROVE  \E q : Moves(r, q)
<1> DEFINE q == [op |-> request[r].op, pin |-> request[r].pin, at |-> "done",
                 seen |-> 0, mark |-> 0,
                 socket |-> IF request[r].socket = "open" THEN "answered"
                            ELSE request[r].socket,
                 ok |-> TRUE, run |-> run, parts |-> parts]
<1>1. request[r] \in RequestType /\ (request[r].pin # 0 => request[r].pin \in DOMAIN runs')
  BY DEF AnswersKept, RequestFits, Waits, Grown
<1>2. q \in RequestType
  BY <1>1, MaxRunsAssumption DEF RequestType, Places
<1>3. Waits(q, runs') /\ Tells(q, runs')
  BY <1>1 DEF Waits, Tells
<1>4. Changes(r, q) /\ (q.socket = request[r].socket
                         \/ (request[r].socket = "open" /\ q.socket = "answered"))
  BY DEF Answer, Over, Changes
<1> HIDE DEF q
<1> QED BY <1>2, <1>3, <1>4 DEF Moves, RequestFits

(* A request that waits again fits when what it relies on is there. *)
LEMMA AwaitFits ==
  ASSUME AnswersKept, Grown, NEW r \in Requests, NEW at \in Places,
         NEW seen \in 0 .. MaxRuns, NEW mark \in 0 .. MaxRuns, Await(r, at, seen, mark),
         Waits([op |-> request[r].op, pin |-> request[r].pin, at |-> at,
                seen |-> seen, mark |-> mark], runs')
  PROVE  \E q : Moves(r, q)
<1> DEFINE q == [op |-> request[r].op, pin |-> request[r].pin, at |-> at, seen |-> seen,
                 mark |-> mark, socket |-> request[r].socket,
                 ok |-> FALSE, run |-> 0, parts |-> {}]
<1>1. request[r] \in RequestType
  BY DEF AnswersKept
<1>2. q \in RequestType
  BY <1>1, MaxRunsAssumption DEF RequestType
<1>3. Waits(q, runs') /\ Tells(q, runs')
  BY <1>1 DEF Waits, Tells
<1>4. Changes(r, q) /\ q.socket = request[r].socket
  BY DEF Await, Changes
<1> HIDE DEF q
<1> QED BY <1>2, <1>3, <1>4 DEF Moves, RequestFits

(***************************************************************************)
(* The operations, each from what its request waits for.                   *)
(***************************************************************************)
Fits(r) == Rooted' /\ Grown /\ \E q : Moves(r, q)

(* What the invariant says of a request that is waiting, and of its run. *)
LEMMA WaitingFor ==
  ASSUME AnswersKept, NEW r \in Requests
  PROVE  /\ Rooted /\ runs \in Seq(RunType)
         /\ Latest \in 0 .. MaxRuns /\ DOMAIN runs = 1 .. Latest
         /\ DOMAIN runs \subseteq RunIds
         /\ request[r].op \in AllOps \cup {"none"} /\ request[r].pin \in 0 .. MaxRuns
         /\ request[r].at \in Places
         /\ request[r].seen \in 0 .. MaxRuns /\ request[r].mark \in 0 .. MaxRuns
         /\ request[r].pin # 0 => request[r].pin \in DOMAIN runs
         /\ Target(r) \in 0 .. MaxRuns
         /\ Target(r) # 0 => Target(r) \in DOMAIN runs
<1>1. Rooted /\ runs \in Seq(RunType) /\ Latest \in 0 .. MaxRuns
      /\ DOMAIN runs = 1 .. Latest
  BY MaxRunsAssumption DEF AnswersKept, Rooted, Latest
<1>2. request[r] \in RequestType /\ Waits(request[r], runs)
  BY DEF AnswersKept, RequestFits
<1>3. /\ request[r].op \in AllOps \cup {"none"} /\ request[r].pin \in 0 .. MaxRuns
      /\ request[r].at \in Places
      /\ request[r].seen \in 0 .. MaxRuns /\ request[r].mark \in 0 .. MaxRuns
  BY <1>2 DEF RequestType
<1> QED BY <1>1, <1>2, <1>3, MaxRunsAssumption DEF Waits, Target, RunIds

(* run, start: the catalog comes before any run is seen. *)
LEMMA ResolvesNameFits ==
  ASSUME AnswersKept, NEW r \in Requests, ResolvesName(r)
  PROVE  Fits(r)
<1>1. /\ Rooted /\ Rooted' /\ Grown /\ runs' = runs
      /\ request[r].op \in {"run", "start"}
      /\ Waits(request[r], runs) /\ request[r].at = "catalog"
  BY WaitingFor, RunsStay DEF ResolvesName, At, AnswersKept, RequestFits
<1>2. CASE Fail(r)
  BY <1>1, <1>2, FailFits DEF Fits
<1>3. CASE Await(r, "start", 0, 0)
  <2>1. Waits([op |-> request[r].op, pin |-> request[r].pin, at |-> "start",
             seen |-> 0, mark |-> 0], runs')
    BY <1>1, <1>3, WaitingFor DEF Waits, Target, Rooted
  <2>2. 0 \in 0 .. MaxRuns /\ 0 \in 0 .. MaxRuns
    BY <1>1, <1>3, WaitingFor, MaxRunsAssumption DEF Rooted, RunIds, Waits
  <2> QED BY <1>1, <1>3, <2>1, <2>2, AwaitFits DEF Fits, Places
<1> QED BY <1>1, <1>2, <1>3, WaitingFor DEF ResolvesName

(* run: the answer names the run that was started, and promises no more. *)
LEMMA RunDescribesFits ==
  ASSUME AnswersKept, NEW r \in Requests, RunDescribes(r)
  PROVE  Fits(r)
<1>1. /\ Rooted /\ Rooted' /\ Grown /\ runs' = runs
      /\ request[r].op \in {"run"}
      /\ Waits(request[r], runs) /\ request[r].at = "describe"
  BY WaitingFor, RunsStay DEF RunDescribes, At, AnswersKept, RequestFits
<1>2. CASE Answer(r, request[r].seen, {request[r].mark, Latest})
  <2>1. Tells([op |-> request[r].op, pin |-> request[r].pin, ok |-> TRUE,
             run |-> request[r].seen, parts |-> {request[r].mark, Latest}], runs')
    BY <1>1, <1>2, WaitingFor DEF Waits, Tells, Target
  <2>2. request[r].seen \in 0 .. MaxRuns /\ {request[r].mark, Latest} \in SUBSET RunIds
    BY <1>1, <1>2, WaitingFor DEF Waits, Target
  <2> QED BY <1>1, <1>2, <2>1, <2>2, AnswerFits DEF Fits
<1> QED BY <1>1, <1>2, WaitingFor DEF RunDescribes

(* result, trace-log: the run described is the pinned one, or the latest. *)
LEMMA ResultDescribesFits ==
  ASSUME AnswersKept, NEW r \in Requests, ResultDescribes(r)
  PROVE  Fits(r)
<1>1. /\ Rooted /\ Rooted' /\ Grown /\ runs' = runs
      /\ request[r].op \in {"result", "trace"}
      /\ Waits(request[r], runs) /\ request[r].at = "describe"
  BY WaitingFor, RunsStay DEF ResultDescribes, At, AnswersKept, RequestFits
<1>2. CASE Fail(r)
  BY <1>1, <1>2, FailFits DEF Fits
<1>3. CASE Target(r) # 0 /\ Await(r, "page", Target(r), 0)
  <2>1. Waits([op |-> request[r].op, pin |-> request[r].pin, at |-> "page",
             seen |-> Target(r), mark |-> 0], runs')
    BY <1>1, <1>3, WaitingFor DEF Waits, Target, Rooted
  <2>2. Target(r) \in 0 .. MaxRuns /\ 0 \in 0 .. MaxRuns
    BY <1>1, <1>3, WaitingFor, MaxRunsAssumption DEF Rooted, RunIds, Waits
  <2> QED BY <1>1, <1>3, <2>1, <2>2, AwaitFits DEF Fits, Places
<1> QED BY <1>1, <1>2, <1>3, WaitingFor DEF ResultDescribes

(* result, trace-log: the input is of the run described. *)
LEMMA ResultPagesFits ==
  ASSUME AnswersKept, NEW r \in Requests, ResultPages(r)
  PROVE  Fits(r)
<1>1. /\ Rooted /\ Rooted' /\ Grown /\ runs' = runs
      /\ request[r].op \in {"result", "trace"}
      /\ Waits(request[r], runs) /\ request[r].at = "page"
  BY WaitingFor, RunsStay DEF ResultPages, At, AnswersKept, RequestFits
<1>2. CASE Await(r, "outcome", request[r].seen, 0)
  <2>1. Waits([op |-> request[r].op, pin |-> request[r].pin, at |-> "outcome",
             seen |-> request[r].seen, mark |-> 0], runs')
    BY <1>1, <1>2, WaitingFor DEF Waits, Target, Rooted
  <2>2. request[r].seen \in 0 .. MaxRuns /\ 0 \in 0 .. MaxRuns
    BY <1>1, <1>2, WaitingFor, MaxRunsAssumption DEF Rooted, RunIds, Waits
  <2> QED BY <1>1, <1>2, <2>1, <2>2, AwaitFits DEF Fits, Places
<1>3. CASE request[r].op = "result" /\ Answer(r, request[r].seen, {request[r].seen})
  <2>1. Tells([op |-> request[r].op, pin |-> request[r].pin, ok |-> TRUE,
             run |-> request[r].seen, parts |-> {request[r].seen}], runs')
    BY <1>1, <1>3, WaitingFor DEF Waits, Tells, Target
  <2>2. request[r].seen \in 0 .. MaxRuns /\ {request[r].seen} \in SUBSET RunIds
    BY <1>1, <1>3, WaitingFor DEF Waits, Target
  <2> QED BY <1>1, <1>3, <2>1, <2>2, AnswerFits DEF Fits
<1>4. CASE Await(r, "download", request[r].seen, request[r].seen)
  <2>1. Waits([op |-> request[r].op, pin |-> request[r].pin, at |-> "download",
             seen |-> request[r].seen, mark |-> request[r].seen], runs')
    BY <1>1, <1>4, WaitingFor DEF Waits, Target, Rooted
  <2>2. request[r].seen \in 0 .. MaxRuns /\ request[r].seen \in 0 .. MaxRuns
    BY <1>1, <1>4, WaitingFor, MaxRunsAssumption DEF Rooted, RunIds, Waits
  <2> QED BY <1>1, <1>4, <2>1, <2>2, AwaitFits DEF Fits, Places
<1> QED BY <1>1, <1>2, <1>3, <1>4, WaitingFor DEF ResultPages

(* result, trace-log: and so is the outcome. *)
LEMMA OutcomeFits ==
  ASSUME AnswersKept, NEW r \in Requests, Outcome(r)
  PROVE  Fits(r)
<1>1. /\ Rooted /\ Rooted' /\ Grown /\ runs' = runs
      /\ request[r].op \in {"result", "trace"}
      /\ Waits(request[r], runs) /\ request[r].at = "outcome"
  BY WaitingFor, RunsStay DEF Outcome, At, AnswersKept, RequestFits
<1>2. CASE request[r].op = "result" /\ Answer(r, request[r].seen, {request[r].seen})
  <2>1. Tells([op |-> request[r].op, pin |-> request[r].pin, ok |-> TRUE,
             run |-> request[r].seen, parts |-> {request[r].seen}], runs')
    BY <1>1, <1>2, WaitingFor DEF Waits, Tells, Target
  <2>2. request[r].seen \in 0 .. MaxRuns /\ {request[r].seen} \in SUBSET RunIds
    BY <1>1, <1>2, WaitingFor DEF Waits, Target
  <2> QED BY <1>1, <1>2, <2>1, <2>2, AnswerFits DEF Fits
<1>3. CASE Await(r, "download", request[r].seen, request[r].seen)
  <2>1. Waits([op |-> request[r].op, pin |-> request[r].pin, at |-> "download",
             seen |-> request[r].seen, mark |-> request[r].seen], runs')
    BY <1>1, <1>3, WaitingFor DEF Waits, Target, Rooted
  <2>2. request[r].seen \in 0 .. MaxRuns /\ request[r].seen \in 0 .. MaxRuns
    BY <1>1, <1>3, WaitingFor, MaxRunsAssumption DEF Rooted, RunIds, Waits
  <2> QED BY <1>1, <1>3, <2>1, <2>2, AwaitFits DEF Fits, Places
<1> QED BY <1>1, <1>2, <1>3, WaitingFor DEF Outcome

(* trace-log: the trace is the one the outcome named. *)
LEMMA TraceIsFetchedFits ==
  ASSUME AnswersKept, NEW r \in Requests, TraceIsFetched(r)
  PROVE  Fits(r)
<1>1. /\ Rooted /\ Rooted' /\ Grown /\ runs' = runs
      /\ request[r].op \in {"trace"}
      /\ Waits(request[r], runs) /\ request[r].at = "download"
  BY WaitingFor, RunsStay DEF TraceIsFetched, At, AnswersKept, RequestFits
<1>2. CASE Fail(r)
  BY <1>1, <1>2, FailFits DEF Fits
<1>3. CASE Answer(r, request[r].seen, {request[r].seen, request[r].mark})
  <2>1. Tells([op |-> request[r].op, pin |-> request[r].pin, ok |-> TRUE,
             run |-> request[r].seen, parts |-> {request[r].seen, request[r].mark}], runs')
    BY <1>1, <1>3, WaitingFor DEF Waits, Tells, Target
  <2>2. request[r].seen \in 0 .. MaxRuns /\ {request[r].seen, request[r].mark} \in SUBSET RunIds
    BY <1>1, <1>3, WaitingFor DEF Waits, Target
  <2> QED BY <1>1, <1>3, <2>1, <2>2, AnswerFits DEF Fits
<1> QED BY <1>1, <1>2, <1>3, WaitingFor DEF TraceIsFetched

(* status: one description. *)
LEMMA StatusDescribesFits ==
  ASSUME AnswersKept, NEW r \in Requests, StatusDescribes(r)
  PROVE  Fits(r)
<1>1. /\ Rooted /\ Rooted' /\ Grown /\ runs' = runs
      /\ request[r].op \in {"status"}
      /\ Waits(request[r], runs) /\ request[r].at = "describe"
  BY WaitingFor, RunsStay DEF StatusDescribes, At, AnswersKept, RequestFits
<1>2. CASE Fail(r)
  BY <1>1, <1>2, FailFits DEF Fits
<1>3. CASE Target(r) # 0 /\ Answer(r, Target(r), {Target(r)})
  <2>1. Tells([op |-> request[r].op, pin |-> request[r].pin, ok |-> TRUE,
             run |-> Target(r), parts |-> {Target(r)}], runs')
    BY <1>1, <1>3, WaitingFor DEF Waits, Tells, Target
  <2>2. Target(r) \in 0 .. MaxRuns /\ {Target(r)} \in SUBSET RunIds
    BY <1>1, <1>3, WaitingFor DEF Waits, Target
  <2> QED BY <1>1, <1>3, <2>1, <2>2, AnswerFits DEF Fits
<1> QED BY <1>1, <1>2, <1>3, WaitingFor DEF StatusDescribes

(* input: an unpinned request is about the latest run. *)
LEMMA InputDescribesFits ==
  ASSUME AnswersKept, NEW r \in Requests, InputDescribes(r)
  PROVE  Fits(r)
<1>1. /\ Rooted /\ Rooted' /\ Grown /\ runs' = runs
      /\ request[r].op \in {"input"}
      /\ Waits(request[r], runs) /\ request[r].at = "describe"
  BY WaitingFor, RunsStay DEF InputDescribes, At, AnswersKept, RequestFits
<1>2. CASE Fail(r)
  BY <1>1, <1>2, FailFits DEF Fits
<1>3. CASE Latest # 0 /\ Await(r, "page", Latest, 0)
  <2>1. Waits([op |-> request[r].op, pin |-> request[r].pin, at |-> "page",
             seen |-> Latest, mark |-> 0], runs')
    BY <1>1, <1>3, WaitingFor DEF Waits, Target, Rooted
  <2>2. Latest \in 0 .. MaxRuns /\ 0 \in 0 .. MaxRuns
    BY <1>1, <1>3, WaitingFor, MaxRunsAssumption DEF Rooted, RunIds, Waits
  <2> QED BY <1>1, <1>3, <2>1, <2>2, AwaitFits DEF Fits, Places
<1> QED BY <1>1, <1>2, <1>3, WaitingFor DEF InputDescribes

(* input: unpinned, a page of a continued run leads to the first run of its chain. *)
LEMMA InputPagesFits ==
  ASSUME AnswersKept, NEW r \in Requests, InputPages(r)
  PROVE  Fits(r)
<1>1. /\ Rooted /\ Rooted' /\ Grown /\ runs' = runs
      /\ request[r].op \in {"input"}
      /\ Waits(request[r], runs) /\ request[r].at = "page"
  BY WaitingFor, RunsStay DEF InputPages, At, AnswersKept, RequestFits
<1>2. CASE /\ request[r].pin = 0
           /\ runs[request[r].seen].first # request[r].seen
           /\ Await(r, "first", runs[request[r].seen].first, 0)
  <2>1. Waits([op |-> request[r].op, pin |-> request[r].pin, at |-> "first",
             seen |-> runs[request[r].seen].first, mark |-> 0], runs')
    BY <1>1, <1>2, WaitingFor DEF Waits, Target, Rooted
  <2>2. runs[request[r].seen].first \in 0 .. MaxRuns /\ 0 \in 0 .. MaxRuns
    BY <1>1, <1>2, WaitingFor, MaxRunsAssumption DEF Rooted, RunIds, Waits
  <2> QED BY <1>1, <1>2, <2>1, <2>2, AwaitFits DEF Fits, Places
<1>3. CASE /\ (request[r].pin # 0 \/ runs[request[r].seen].first = request[r].seen)
           /\ Answer(r, request[r].seen, {request[r].seen})
  <2>1. Tells([op |-> request[r].op, pin |-> request[r].pin, ok |-> TRUE,
             run |-> request[r].seen, parts |-> {request[r].seen}], runs')
    BY <1>1, <1>3, WaitingFor DEF Waits, Tells, Target
  <2>2. request[r].seen \in 0 .. MaxRuns /\ {request[r].seen} \in SUBSET RunIds
    BY <1>1, <1>3, WaitingFor DEF Waits, Target
  <2> QED BY <1>1, <1>3, <2>1, <2>2, AnswerFits DEF Fits
<1> QED BY <1>1, <1>2, <1>3, WaitingFor DEF InputPages

(* input: the first run's page is the answer. *)
LEMMA InputOfFirstFits ==
  ASSUME AnswersKept, NEW r \in Requests, InputOfFirst(r)
  PROVE  Fits(r)
<1>1. /\ Rooted /\ Rooted' /\ Grown /\ runs' = runs
      /\ request[r].op \in {"input"}
      /\ Waits(request[r], runs) /\ request[r].at = "first"
  BY WaitingFor, RunsStay DEF InputOfFirst, At, AnswersKept, RequestFits
<1>2. CASE Answer(r, request[r].seen, {request[r].seen})
  <2>1. Tells([op |-> request[r].op, pin |-> request[r].pin, ok |-> TRUE,
             run |-> request[r].seen, parts |-> {request[r].seen}], runs')
    BY <1>1, <1>2, WaitingFor DEF Waits, Tells, Target
  <2>2. request[r].seen \in 0 .. MaxRuns /\ {request[r].seen} \in SUBSET RunIds
    BY <1>1, <1>2, WaitingFor DEF Waits, Target
  <2> QED BY <1>1, <1>2, <2>1, <2>2, AnswerFits DEF Fits
<1> QED BY <1>1, <1>2, WaitingFor DEF InputOfFirst

(* stop, terminate: the description after the fact, of an unpinned request. *)
LEMMA StopDescribesFits ==
  ASSUME AnswersKept, NEW r \in Requests, StopDescribes(r)
  PROVE  Fits(r)
<1>1. /\ Rooted /\ Rooted' /\ Grown /\ runs' = runs
      /\ request[r].op \in {"stop", "terminate"}
      /\ Waits(request[r], runs) /\ request[r].at = "describe"
  BY WaitingFor, RunsStay DEF StopDescribes, At, AnswersKept, RequestFits
<1>2. CASE Answer(r, Latest, {request[r].mark})
  <2>1. Tells([op |-> request[r].op, pin |-> request[r].pin, ok |-> TRUE,
             run |-> Latest, parts |-> {request[r].mark}], runs')
    BY <1>1, <1>2, WaitingFor DEF Waits, Tells, Target
  <2>2. Latest \in 0 .. MaxRuns /\ {request[r].mark} \in SUBSET RunIds
    BY <1>1, <1>2, WaitingFor DEF Waits, Target
  <2> QED BY <1>1, <1>2, <2>1, <2>2, AnswerFits DEF Fits
<1> QED BY <1>1, <1>2, WaitingFor DEF StopDescribes

(* reset: the run to reset is resolved before its history is read. *)
LEMMA ResetDescribesFits ==
  ASSUME AnswersKept, NEW r \in Requests, ResetDescribes(r)
  PROVE  Fits(r)
<1>1. /\ Rooted /\ Rooted' /\ Grown /\ runs' = runs
      /\ request[r].op \in {"reset"}
      /\ Waits(request[r], runs) /\ request[r].at = "describe"
  BY WaitingFor, RunsStay DEF ResetDescribes, At, AnswersKept, RequestFits
<1>2. CASE Fail(r)
  BY <1>1, <1>2, FailFits DEF Fits
<1>3. CASE Latest # 0 /\ Await(r, "history", Latest, 0)
  <2>1. Waits([op |-> request[r].op, pin |-> request[r].pin, at |-> "history",
             seen |-> Latest, mark |-> 0], runs')
    BY <1>1, <1>3, WaitingFor DEF Waits, Target, Rooted
  <2>2. Latest \in 0 .. MaxRuns /\ 0 \in 0 .. MaxRuns
    BY <1>1, <1>3, WaitingFor, MaxRunsAssumption DEF Rooted, RunIds, Waits
  <2> QED BY <1>1, <1>3, <2>1, <2>2, AwaitFits DEF Fits, Places
<1> QED BY <1>1, <1>2, <1>3, WaitingFor DEF ResetDescribes

(* reset: the event found is of the run resolved. *)
LEMMA ReadsHistoryFits ==
  ASSUME AnswersKept, NEW r \in Requests, ReadsHistory(r)
  PROVE  Fits(r)
<1>1. /\ Rooted /\ Rooted' /\ Grown /\ runs' = runs
      /\ request[r].op \in {"reset"}
      /\ Waits(request[r], runs) /\ request[r].at = "history"
  BY WaitingFor, RunsStay DEF ReadsHistory, At, AnswersKept, RequestFits
<1>2. CASE Fail(r)
  BY <1>1, <1>2, FailFits DEF Fits
<1>3. CASE Await(r, "reset", request[r].seen, request[r].seen)
  <2>1. Waits([op |-> request[r].op, pin |-> request[r].pin, at |-> "reset",
             seen |-> request[r].seen, mark |-> request[r].seen], runs')
    BY <1>1, <1>3, WaitingFor DEF Waits, Target, Rooted
  <2>2. request[r].seen \in 0 .. MaxRuns /\ request[r].seen \in 0 .. MaxRuns
    BY <1>1, <1>3, WaitingFor, MaxRunsAssumption DEF Rooted, RunIds, Waits
  <2> QED BY <1>1, <1>3, <2>1, <2>2, AwaitFits DEF Fits, Places
<1> QED BY <1>1, <1>2, <1>3, WaitingFor DEF ReadsHistory

(* Signals, queries and updates: one call. *)
LEMMA MessagesFits ==
  ASSUME AnswersKept, NEW r \in Requests, Messages(r)
  PROVE  Fits(r)
<1>1. /\ Rooted /\ Rooted' /\ Grown /\ runs' = runs
      /\ request[r].op \in {"message"}
      /\ Waits(request[r], runs) /\ request[r].at = "act"
  BY WaitingFor, RunsStay DEF Messages, At, AnswersKept, RequestFits
<1>2. CASE Fail(r)
  BY <1>1, <1>2, FailFits DEF Fits
<1>3. CASE Latest # 0 /\ Answer(r, Latest, {Latest})
  <2>1. Tells([op |-> request[r].op, pin |-> request[r].pin, ok |-> TRUE,
             run |-> Latest, parts |-> {Latest}], runs')
    BY <1>1, <1>3, WaitingFor DEF Waits, Tells, Target
  <2>2. Latest \in 0 .. MaxRuns /\ {Latest} \in SUBSET RunIds
    BY <1>1, <1>3, WaitingFor DEF Waits, Target
  <2> QED BY <1>1, <1>3, <2>1, <2>2, AnswerFits DEF Fits
<1> QED BY <1>1, <1>2, <1>3, WaitingFor DEF Messages

(* `run` and `start` add a run that begins a chain. *)
LEMMA StartsFits ==
  ASSUME AnswersKept, NEW r \in Requests, Starts(r)
  PROVE  Fits(r)
<1>1. request[r].op \in {"run", "start"} /\ "none" \in Progress
  BY DEF Starts, At, Progress
<1>2. CASE Fail(r) /\ runs' = runs
  BY <1>1, <1>2, FailFits, WaitingFor, RunsStay DEF Fits
<1>3. CASE /\ Latest < MaxRuns /\ runs' = Append(runs, NewRun(Latest + 1, "none"))
           /\ IF request[r].op = "start" THEN Answer(r, Latest + 1, {Latest + 1})
              ELSE Await(r, "result", Latest + 1, 0)
  <2>1. Rooted' /\ Grown
    BY <1>1, <1>3, WaitingFor, RunAdded DEF Latest
  <2>2. Latest + 1 \in 0 .. MaxRuns /\ {Latest + 1} \in SUBSET RunIds
    BY <1>3, WaitingFor, MaxRunsAssumption DEF RunIds
  <2>3. request[r].pin # 0 => request[r].pin \in DOMAIN runs'
    BY <2>1, WaitingFor DEF Grown
  <2>4. CASE request[r].op = "start"
    <3>1. Tells([op |-> request[r].op, pin |-> request[r].pin, ok |-> TRUE,
                 run |-> Latest + 1, parts |-> {Latest + 1}], runs')
      BY <2>4 DEF Tells
    <3> QED BY <1>3, <2>1, <2>2, <2>4, <3>1, AnswerFits DEF Fits
  <2>5. CASE request[r].op # "start"
    <3>1. Waits([op |-> request[r].op, pin |-> request[r].pin, at |-> "result",
                 seen |-> Latest + 1, mark |-> 0], runs')
      BY <2>3 DEF Waits
    <3> QED BY <1>3, <2>1, <2>2, <2>5, <3>1, AwaitFits, MaxRunsAssumption DEF Fits, Places
  <2> QED BY <2>4, <2>5
<1> QED BY <1>2, <1>3 DEF Starts

(* run: the result is of a run in the chain of the one started. *)
LEMMA ResultArrivesFits ==
  ASSUME AnswersKept, NEW r \in Requests, ResultArrives(r)
  PROVE  Fits(r)
<1>1. Rooted' /\ Grown /\ runs' = runs /\ request[r].op = "run"
  BY WaitingFor, RunsStay DEF ResultArrives, At
<1>2. PICK i \in DOMAIN runs : Await(r, "describe", request[r].seen, i)
  BY DEF ResultArrives
<1>3. Waits([op |-> request[r].op, pin |-> request[r].pin, at |-> "describe",
             seen |-> request[r].seen, mark |-> i], runs')
  BY <1>1, <1>2, WaitingFor DEF Waits
<1>4. i \in 0 .. MaxRuns
  BY WaitingFor, MaxRunsAssumption DEF RunIds
<1> QED BY <1>1, <1>2, <1>3, <1>4, WaitingFor, AwaitFits DEF Fits, Places

(* A terminate ends the run it is about. *)
LEMMA StopsFits ==
  ASSUME AnswersKept, NEW r \in Requests, Stops(r)
  PROVE  Fits(r)
<1>1. request[r].op \in {"stop", "terminate"}
  BY DEF Stops, At
<1>2. CASE Fail(r) /\ runs' = runs
  BY <1>2, FailFits, WaitingFor, RunsStay DEF Fits
<1>3. CASE /\ Open(Target(r))
           /\ runs' = IF request[r].op = "stop" THEN runs
                      ELSE [runs EXCEPT ![Target(r)].status = "ended"]
           /\ IF request[r].pin # 0 THEN Answer(r, Target(r), {Target(r)})
              ELSE Await(r, "describe", request[r].seen, Target(r))
  <2>1. Target(r) \in DOMAIN runs
    BY <1>3 DEF Open
  <2>2. Rooted' /\ Grown
    <3>1. CASE request[r].op = "stop"
      BY <1>3, <3>1, WaitingFor, RunsStay
    <3>2. CASE request[r].op # "stop"
      <4>1. runs' = [runs EXCEPT ![Target(r)].status = "ended"]
        BY <1>3, <3>2
      <4>2. runs \in Seq(RunType)
        BY WaitingFor
      <4>3. runs' \in Seq(RunType) /\ Len(runs') = Len(runs)
            /\ \A j \in DOMAIN runs : runs'[j].first = runs[j].first
        BY <2>1, <4>1, <4>2, StatusSet DEF Closed
      <4> QED BY <4>3, WaitingFor, RunsMove
    <3> QED BY <3>1, <3>2
  <2>3. /\ Target(r) \in 0 .. MaxRuns /\ {Target(r)} \in SUBSET RunIds
        /\ Target(r) \in DOMAIN runs'
    BY <2>1, <2>2, WaitingFor, MaxRunsAssumption DEF Grown
  <2>4. CASE request[r].pin # 0
    <3>1. Tells([op |-> request[r].op, pin |-> request[r].pin, ok |-> TRUE,
                 run |-> Target(r), parts |-> {Target(r)}], runs')
      BY <1>1, <2>4 DEF Tells, Target
    <3> QED BY <1>3, <2>2, <2>3, <2>4, <3>1, AnswerFits DEF Fits
  <2>5. CASE request[r].pin = 0
    <3>1. Waits([op |-> request[r].op, pin |-> request[r].pin, at |-> "describe",
                 seen |-> request[r].seen, mark |-> Target(r)], runs')
      BY <2>3, <2>5 DEF Waits
    <3> QED BY <1>3, <2>2, <2>3, <2>5, <3>1, WaitingFor, AwaitFits DEF Fits, Places
  <2> QED BY <2>4, <2>5, WaitingFor
<1> QED BY <1>2, <1>3 DEF Stops

(* A reset ends what is open and adds a run of the chain of the run that is reset. *)
LEMMA ResetsFits ==
  ASSUME AnswersKept, NEW r \in Requests, Resets(r)
  PROVE  Fits(r)
<1> DEFINE i == request[r].seen
           ended == [j \in DOMAIN runs |->
                       IF runs[j].status = "running" THEN [runs[j] EXCEPT !.status = "ended"]
                       ELSE runs[j]]
<1>1. request[r].op = "reset" /\ request[r].at = "reset" /\ Latest < MaxRuns
  BY DEF Resets, At
<1>2. i \in DOMAIN runs /\ (request[r].pin # 0 => i = request[r].pin) /\ request[r].mark = i
  BY <1>1 DEF AnswersKept, RequestFits, Waits
<1>3. /\ ended \in Seq(RunType) /\ Len(ended) = Len(runs)
      /\ \A j \in DOMAIN runs : ended[j].first = runs[j].first
  <2>1. runs \in Seq(RunType) /\ Len(runs) \in Nat /\ DOMAIN runs = 1 .. Len(runs)
    BY WaitingFor
  <2>2. ASSUME NEW j \in DOMAIN runs PROVE ended[j] \in RunType
    <3>1. runs[j] \in RunType
      BY <2>1
    <3>2. [runs[j] EXCEPT !.status = "ended"] \in RunType
      BY <3>1 DEF RunType, Closed
    <3> QED BY <3>1, <3>2
  <2>3. ASSUME NEW j \in DOMAIN runs PROVE ended[j].first = runs[j].first
    <3>1. runs[j] \in RunType
      BY <2>1
    <3>2. [runs[j] EXCEPT !.status = "ended"].first = runs[j].first
      BY <3>1 DEF RunType
    <3> QED BY <3>2
  <2>4. ended \in [1 .. Len(runs) -> RunType]
    BY <2>1, <2>2
  <2> HIDE DEF ended
  <2> QED BY <2>1, <2>3, <2>4
<1>4. runs' = Append(ended, NewRun(runs[i].first, "settled")) /\ Answer(r, Latest + 1, {i})
  BY <1>2 DEF Resets
<1> HIDE DEF ended
<1>5. Rooted' /\ Grown
  BY <1>1, <1>2, <1>3, <1>4, WaitingFor, RunAdded DEF Latest, Progress
<1>6. Tells([op |-> request[r].op, pin |-> request[r].pin, ok |-> TRUE,
             run |-> Latest + 1, parts |-> {i}], runs')
  BY <1>1, <1>2, FS_Singleton DEF Tells
<1>7. Latest + 1 \in 0 .. MaxRuns /\ {i} \in SUBSET RunIds
  BY <1>1, <1>2, WaitingFor, MaxRunsAssumption DEF RunIds
<1> QED BY <1>4, <1>5, <1>6, <1>7, AnswerFits DEF Fits

(* Every call of every operation. *)
LEMMA HandlesFits ==
  ASSUME AnswersKept, NEW r \in Requests, Handles(r)
  PROVE  Fits(r)
BY ResolvesNameFits, StartsFits, ResultArrivesFits, RunDescribesFits, ResultDescribesFits,
   ResultPagesFits, OutcomeFits, TraceIsFetchedFits, StatusDescribesFits,
   InputDescribesFits, InputPagesFits, InputOfFirstFits, StopsFits, StopDescribesFits,
   ResetDescribesFits, ReadsHistoryFits, ResetsFits, MessagesFits
   DEF Handles

(* A request that is routed, and one that fails, its timeout included. *)
LEMMA ArrivesFits ==
  ASSUME AnswersKept, NEW r \in Requests, Arrives(r)
  PROVE  /\ Rooted' /\ Grown
         /\ \E q : Changes(r, q) /\ RequestFits(q, runs') /\ q.socket # "dropped"
<1> USE MaxRunsAssumption
<1>1. Rooted' /\ Grown /\ runs' = runs
  BY WaitingFor, RunsStay DEF Arrives
<1>2. PICK op \in Ops[r], pin \in {0} \cup DOMAIN runs :
        /\ op \in {"run", "start", "message", "stream"} => pin = 0
        /\ \/ Changes(r, Routed(op, pin, FirstCall(op, pin), "open"))
           \/ Changes(r, Routed(op, 0, "done", "answered"))
  BY DEF Arrives, Changes
<1>3. op \in AllOps /\ pin \in 0 .. MaxRuns
  BY WaitingFor, OpsAssumption
<1>4. CASE Changes(r, Routed(op, pin, FirstCall(op, pin), "open"))
  <2> DEFINE at == FirstCall(op, pin)
             q == Routed(op, pin, at, "open")
  <2>1. /\ at \in {"catalog", "describe", "page", "act", "history", "parked"}
        /\ at \in {"page", "history"} => pin # 0
        /\ op \in {"input", "reset"} /\ at = "describe" => pin = 0
        /\ op \in {"run", "stop", "terminate"} => at # "describe"
    BY <1>3 DEF FirstCall, AllOps
  <2> HIDE DEF at
  <2>2. q \in RequestType
    BY <1>3, <2>1 DEF RequestType, Places, Routed
  <2>3. Waits(q, runs') /\ Tells(q, runs') /\ q.socket # "dropped"
    BY <1>1, <1>2, <2>1 DEF Waits, Tells, Routed
  <2>4. Changes(r, q)
    BY <1>4 DEF at
  <2> HIDE DEF q
  <2> QED BY <1>1, <2>2, <2>3, <2>4 DEF RequestFits
<1>5. CASE Changes(r, Routed(op, 0, "done", "answered"))
  <2> DEFINE q == Routed(op, 0, "done", "answered")
  <2>1. q \in RequestType
    BY <1>3 DEF RequestType, Places, Routed
  <2>2. Waits(q, runs') /\ Tells(q, runs') /\ q.socket # "dropped"
    BY DEF Waits, Tells, Routed
  <2>3. Changes(r, q)
    BY <1>5
  <2> HIDE DEF q
  <2> QED BY <1>1, <2>1, <2>2, <2>3 DEF RequestFits
<1> QED BY <1>2, <1>4, <1>5

(* A failed call is an error, which tells nothing. *)
LEMMA CallFailsFits ==
  ASSUME AnswersKept, NEW r \in Requests, CallFails(r)
  PROVE  Fits(r)
BY FailFits, WaitingFor, RunsStay DEF CallFails, Fits

(* So is the execution timeout, if the result is still awaited. *)
LEMMA TimesOutFits ==
  ASSUME AnswersKept, NEW r \in Requests, ExecutionTimesOut(r)
  PROVE  Fits(r) \/ (Rooted' /\ Grown /\ request' = request)
BY FailFits, WaitingFor, RunsStay DEF ExecutionTimesOut, Fits

(* The grace timer closes sockets; no other step of the process touches a request. *)
LEMMA GraceKeeps ==
  ASSUME AnswersKept, GraceEnds
  PROVE  AnswersKept'
<1>1. Rooted /\ Rooted' /\ Grown /\ runs' = runs
  BY RunsStay DEF AnswersKept, GraceEnds
<1>2. ASSUME NEW q \in RequestType, RequestFits(q, runs)
      PROVE  RequestFits([q EXCEPT !.socket = "dropped"], runs)
  <2> DEFINE d == [q EXCEPT !.socket = "dropped"]
  <2>1. /\ d \in RequestType /\ d.op = q.op /\ d.pin = q.pin /\ d.at = q.at
        /\ d.seen = q.seen /\ d.mark = q.mark /\ d.ok = q.ok /\ d.run = q.run
        /\ d.parts = q.parts
    BY DEF RequestType
  <2> HIDE DEF d
  <2>2. Waits(d, runs)
    BY <1>2, <2>1 DEF RequestFits, Waits
  <2>3. Tells(d, runs)
    BY <1>2, <2>1 DEF RequestFits, Tells
  <2>4. RequestFits(d, runs)
    BY <2>1, <2>2, <2>3 DEF RequestFits
  <2> QED BY <2>4 DEF d
<1>3. ASSUME NEW r \in Requests PROVE RequestFits(request'[r], runs')
  <2>1. request[r] \in RequestType /\ RequestFits(request[r], runs)
    BY DEF AnswersKept
  <2>2. request'[r] = request[r] \/ request'[r] = [request[r] EXCEPT !.socket = "dropped"]
    BY DEF GraceEnds
  <2> QED BY <1>1, <1>2, <2>1, <2>2
<1>4. request' \in [Requests -> RequestType]
  <2>1. request' = [r \in Requests |-> request'[r]]
    BY DEF GraceEnds
  <2> QED BY <1>3, <2>1 DEF RequestFits
<1> QED BY <1>1, <1>3, <1>4 DEF AnswersKept

(* The invariant of the answers is inductive. *)
LEMMA NextAnswers == AnswersKept /\ [Next]_vars => AnswersKept'
<1> SUFFICES ASSUME AnswersKept, [Next]_vars PROVE AnswersKept'
    OBVIOUS
<1>1. CASE Workflow
  BY <1>1, WorkflowMoves, RequestsStay
<1>2. ASSUME NEW r \in Requests, Fits(r) PROVE AnswersKept'
  BY <1>2, OneChanges DEF Fits, Moves
<1>3. ASSUME NEW r \in Requests, Arrives(r) PROVE AnswersKept'
  BY <1>3, ArrivesFits, OneChanges
<1>4. ASSUME NEW r \in Requests, Handles(r) PROVE AnswersKept'
  BY <1>2, <1>4, HandlesFits
<1>5. ASSUME NEW r \in Requests, CallFails(r) PROVE AnswersKept'
  BY <1>2, <1>5, CallFailsFits
<1>6. ASSUME NEW r \in Requests, ExecutionTimesOut(r) PROVE AnswersKept'
  BY <1>2, <1>6, TimesOutFits, RequestsStay
<1>7. CASE GraceEnds
  BY <1>7, GraceKeeps
<1>8. CASE SignalArrives \/ ConnectionLost \/ ServerCloses \/ ClientCloses \/ Exits
           \/ UNCHANGED vars
  <2>1. runs' = runs /\ request' = request
    BY <1>8 DEF SignalArrives, ConnectionLost, BeginsShutdown, ServerCloses,
                ClientCloses, Exits, vars
  <2> QED BY <2>1, RunsStay, RequestsStay DEF AnswersKept
<1> QED BY <1>1, <1>3, <1>4, <1>5, <1>6, <1>7, <1>8 DEF Next

(* However the workflow moves between the calls of an operation, whatever fails and
   whenever the process goes down, for any requests and any number of runs, an answer
   speaks of one run. *)
THEOREM SpeaksOfOneRun == Spec => []AboutOneRun
<1>1. AnswersKept => AboutOneRun
  BY DEF AnswersKept, RequestFits, Tells, AboutOneRun
<1> QED BY <1>1, InitAnswers, NextAnswers, PTL DEF Spec

(***************************************************************************)
(* The sockets as the process goes down.                                   *)
(***************************************************************************)
SocketsKept ==
    /\ \A r \in Requests : request[r].socket = "dropped" => grace = "fired"
    /\ grace # "off" => server # "listening"
    /\ server = "closed" => InFlight = {} /\ grace # "armed"
    /\ ~client => server = "closed"
    /\ server \in {"listening", "closing", "closed"} /\ grace \in {"off", "armed", "fired"}

(* A step of a request that is not new opens no socket and drops none. *)
SocketsCalm ==
    /\ \A r \in Requests :
          \/ request'[r].socket = request[r].socket
          \/ request[r].socket = "open" /\ request'[r].socket = "answered"
    /\ UNCHANGED Process

(* Sockets that open and drop nowhere stay in step with a process that stands still. *)
LEMMA CalmKeeps ==
  ASSUME SocketsKept, SocketsCalm
  PROVE  SocketsKept'
BY DEF SocketsKept, SocketsCalm, Process, InFlight

(* A request that moves does so calmly. *)
LEMMA MovesCalmly ==
  ASSUME AnswersKept, NEW r \in Requests, Fits(r), UNCHANGED Process
  PROVE  SocketsCalm
<1> PICK q : Moves(r, q)
  BY DEF Fits
<1> QED BY DEF Moves, Changes, AnswersKept, SocketsCalm

(* No handler touches the process. *)
LEMMA HandlersLeaveTheProcess ==
  ASSUME NEW r \in Requests, Handles(r)
  PROVE  UNCHANGED Process
BY DEF Handles, ResolvesName, Starts, ResultArrives, RunDescribes, ResultDescribes,
       ResultPages, Outcome, TraceIsFetched, StatusDescribes, InputDescribes, InputPages,
       InputOfFirst, Stops, StopDescribes, ResetDescribes, ReadsHistory, Resets, Messages

(* The invariant of the sockets is inductive beside that of the answers. *)
LEMMA NextSockets == AnswersKept /\ SocketsKept /\ [Next]_vars => SocketsKept'
<1> SUFFICES ASSUME AnswersKept, SocketsKept, [Next]_vars PROVE SocketsKept'
    OBVIOUS
<1>1. CASE Workflow \/ UNCHANGED vars
  BY <1>1, CalmKeeps DEF Workflow, StepAdvances, RunCloses, ContinuesAsNew, vars,
                         SocketsCalm, Process
<1>2. ASSUME NEW r \in Requests, Fits(r), UNCHANGED Process PROVE SocketsKept'
  BY <1>2, MovesCalmly, CalmKeeps
<1>3. ASSUME NEW r \in Requests, Handles(r) PROVE SocketsKept'
  BY <1>2, <1>3, HandlesFits, HandlersLeaveTheProcess
<1>4. ASSUME NEW r \in Requests, CallFails(r) PROVE SocketsKept'
  BY <1>2, <1>4, CallFailsFits DEF CallFails
<1>5. ASSUME NEW r \in Requests, ExecutionTimesOut(r) PROVE SocketsKept'
  <2>1. UNCHANGED Process
    BY <1>5 DEF ExecutionTimesOut
  <2>2. CASE request' = request
    BY <2>1, <2>2, CalmKeeps DEF SocketsCalm
  <2> QED BY <1>2, <1>5, <2>1, <2>2, TimesOutFits
<1>6. ASSUME NEW r \in Requests, Arrives(r) PROVE SocketsKept'
  <2>1. server = "listening" /\ UNCHANGED Process
    BY <1>6 DEF Arrives
  <2>2. PICK q : Changes(r, q) /\ q.socket # "dropped"
    BY <1>6, ArrivesFits
  <2>3. \A s \in Requests : request'[s].socket = "dropped" => request[s].socket = "dropped"
    BY <2>2 DEF Changes, AnswersKept
  <2> QED BY <2>1, <2>3 DEF SocketsKept, Process
<1>7. CASE SignalArrives \/ ConnectionLost
  BY <1>7 DEF SignalArrives, ConnectionLost, BeginsShutdown, SocketsKept, InFlight
<1>8. CASE GraceEnds
  <2>1. grace' = "fired" /\ server = "closing" /\ UNCHANGED <<server, client>>
    BY <1>8 DEF GraceEnds
  <2> QED BY <2>1 DEF SocketsKept
<1>9. CASE ServerCloses
  BY <1>9 DEF ServerCloses, SocketsKept, InFlight
<1>10. CASE ClientCloses \/ Exits
  BY <1>10 DEF ClientCloses, Exits, SocketsKept, InFlight
<1> QED BY <1>1, <1>3, <1>4, <1>5, <1>6, <1>7, <1>8, <1>9, <1>10 DEF Next

(* For any requests, a shutdown drops none of them before its grace time is over, and
   closes the Temporal client only when none of them waits for an answer. *)
THEOREM DropsLate == Spec => []DroppedOnlyAfterGrace
<1>1. Init => SocketsKept
  BY DEF Init, SocketsKept, NoRequest, Routed, InFlight
<1>2. SocketsKept => DroppedOnlyAfterGrace
  BY DEF SocketsKept, DroppedOnlyAfterGrace
<1> QED BY <1>1, <1>2, InitAnswers, NextAnswers, NextSockets, PTL DEF Spec

(* Types, for any requests and any number of runs. *)
THEOREM TypeCorrect == Spec => []TypeOK
<1> DEFINE Rest == /\ timers \subseteq Requests
                   /\ client \in BOOLEAN /\ lost \in BOOLEAN /\ exited \in {"no", "zero", "one"}
<1>1. Init => Rest /\ SocketsKept
  <2>1. Init => Rest
    BY DEF Init
  <2>2. Init => SocketsKept
    BY DEF Init, SocketsKept, NoRequest, Routed, InFlight
  <2> QED BY <2>1, <2>2
<1>2. Rest /\ [Next]_vars => Rest'
  <2> SUFFICES ASSUME Rest, [Next]_vars PROVE Rest'
      OBVIOUS
  <2>1. CASE Workflow \/ UNCHANGED vars
    BY <2>1 DEF Workflow, StepAdvances, RunCloses, ContinuesAsNew, Process, vars
  <2>2. ASSUME NEW r \in Requests, Handles(r) PROVE Rest'
    <3>1. timers' = timers \/ timers' = timers \cup {r}
      BY <2>2 DEF Handles, ResolvesName, Starts, ResultArrives, RunDescribes,
            ResultDescribes, ResultPages, Outcome, TraceIsFetched, StatusDescribes,
            InputDescribes, InputPages, InputOfFirst, Stops, StopDescribes,
            ResetDescribes, ReadsHistory, Resets, Messages
    <3> QED BY <2>2, <3>1, HandlersLeaveTheProcess DEF Process
  <2>3. ASSUME NEW r \in Requests, Arrives(r) \/ CallFails(r) \/ ExecutionTimesOut(r)
        PROVE  Rest'
    BY <2>3 DEF Arrives, CallFails, ExecutionTimesOut, Process
  <2>4. CASE SignalArrives \/ ConnectionLost \/ GraceEnds \/ ServerCloses
    BY <2>4 DEF SignalArrives, ConnectionLost, GraceEnds, ServerCloses
  <2>5. CASE ClientCloses \/ Exits
    BY <2>5 DEF ClientCloses, Exits
  <2> QED BY <2>1, <2>2, <2>3, <2>4, <2>5 DEF Next
<1>3. AnswersKept /\ SocketsKept /\ Rest => TypeOK
  <2>1. AnswersKept => runs \in Seq(RunType) /\ Len(runs) <= MaxRuns
                       /\ request \in [Requests -> RequestType]
    BY DEF AnswersKept, Rooted
  <2>2. SocketsKept => server \in {"listening", "closing", "closed"}
                       /\ grace \in {"off", "armed", "fired"}
    BY DEF SocketsKept
  <2> QED BY <2>1, <2>2 DEF TypeOK
<1> HIDE DEF Rest
<1> QED BY <1>1, <1>2, <1>3, InitAnswers, NextAnswers, NextSockets, PTL DEF Spec

=============================================================================
