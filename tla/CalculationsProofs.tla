------------------------- MODULE CalculationsProofs -------------------------
(***************************************************************************)
(* All ten algorithms, for every input that meets the assumptions of       *)
(* Calculations: the bill of a call and the cost report of a trace, whose  *)
(* lemmas are in ChargeProofs, a history of any length and its picture, a  *)
(* command with any fate of its tries, any machine with any credentials,   *)
(* any failure however it is wrapped, a request with any ids, a test run   *)
(* of any project, and the worker that is built of one.                    *)
(*                                                                         *)
(* An answer is computed in one step, so that the inductive invariant says *)
(* only what an answer was computed of; the theorems are in the lemmas     *)
(* about the algorithms.                                                   *)
(***************************************************************************)
EXTENDS Calculations, ChargeProofs, TLAPS

(* What was computed of what. *)
AnswersAsComputed ==
    /\ given.algorithm = "bill" =>
         given.input \in Calls /\ (told # <<>> => told[1] = CalculateCosts(given.input))
    /\ given.algorithm = "report" =>
         /\ given.input \in Reports
         /\ told # <<>> => told[1] = CalculateCost(given.input.trace, given.input.config)
    /\ given.algorithm = "test" =>
         given.input \in Projects /\ (told # <<>> => told[1] = WorkflowTest(given.input))
    /\ given.algorithm = "build" =>
         /\ given.input \in Builds
         /\ told # <<>> => told[1] = BuildWorker(given.input.project)
    /\ given.algorithm = "fail" =>
         /\ given.input \in Failures
         /\ told # <<>> =>
              told[1] = IF given.input.of = "route"
                        THEN ErrorHandler(given.input.error, given.input.headersSent)
                        ELSE ResultOfFailure(given.input.error, given.input.payloadVersion)
    /\ given.algorithm = "draw" =>
         /\ given.input \in Histories
         /\ told # <<>> =>
              LET h == given.input
              IN  told[1] = RenderWaterfall(h.events, h.closeTime, h.width)
    /\ given.algorithm = "reset" =>
         /\ given.input \in Resets
         /\ told # <<>> => told[1] = ResolveResetEventId(given.input.events, given.input.step)
    /\ given.algorithm = "request" =>
         /\ given.input \in Requests
         /\ told # <<>> =>
              LET o == given.input.operation
              IN  told[1] = Dispatch(o.method, UrlOf(o, given.input.arguments))
    /\ given.algorithm = "command" =>
         given.input \in Runs /\ (told # <<>> => told[1] = Perform(given.input))
    /\ given.algorithm = "credentials" =>
         given.input \in Secrets /\ (told # <<>> => told[1] = Handle(given.input))

LEMMA ComputedInitially == Init => AnswersAsComputed
BY DEF Init, Asks, AnswersAsComputed

LEMMA ComputedNext == AnswersAsComputed /\ [Next]_vars => AnswersAsComputed'
<1> SUFFICES ASSUME AnswersAsComputed, [Next]_vars PROVE AnswersAsComputed'
  OBVIOUS
<1> USE DEF AnswersAsComputed
<1>1. CASE Bill      BY <1>1 DEF Bill
<1>2. CASE Report    BY <1>2 DEF Report
<1>3. CASE Draw      BY <1>3 DEF Draw
<1>4. CASE Test      BY <1>4 DEF Test
<1>5. CASE Fail      BY <1>5 DEF Fail
<1>6. CASE Bundle    BY <1>6 DEF Bundle
<1>7. CASE Reset     BY <1>7 DEF Reset
<1>8. CASE Request   BY <1>8 DEF Request
<1>9. CASE Run       BY <1>9 DEF Run
<1>10. CASE Credit   BY <1>10 DEF Credit
<1>11. CASE UNCHANGED vars  BY <1>11 DEF vars
<1> QED BY <1>1, <1>2, <1>3, <1>4, <1>5, <1>6, <1>7, <1>8, <1>9, <1>10, <1>11 DEF Next

LEMMA AlwaysComputed == Spec => []AnswersAsComputed
BY ComputedInitially, ComputedNext, PTL DEF Spec

-----------------------------------------------------------------------------
(* The reset. *)

(* The decision that scheduled an event stands directly before it; were the event behind
   the result and before the decision that is told, that decision would not be the first. *)
LEMMA ResetIsRight ==
  ASSUME NEW r, IsHistory(r.events)
  PROVE  ResetKeepsTheStepOnly(r, ResolveResetEventId(r.events, r.step))
<1> DEFINE events == r.events
           n == Len(events)
           runs == {i \in DOMAIN events : events[i].type = "scheduled" /\ events[i].step = r.step}
           results == {i \in DOMAIN events : events[i].type = "completed" /\ events[i].ref \in runs}
           completed == {i \in DOMAIN events :
                           events[i].type = "completed" /\ events[i].ref = Max(runs)}
           decided == {i \in DOMAIN events : events[i].type = "task_completed"}
           later == {i \in DOMAIN events : events[i].type = "task_completed" /\ i > Max(completed)}
           point == ResolveResetEventId(events, r.step)
<1>1. n \in Nat /\ DOMAIN events = 1 .. n
  BY DEF IsHistory
<1>2. point = IF runs = {} THEN 0
             ELSE IF completed = {} THEN -1
             ELSE IF \A i \in decided : i <= Max(completed) THEN -1
             ELSE Min(later)
  BY DEF ResolveResetEventId, FirstDecisionAfter
<1> DEFINE Result(i) == i \in results /\ i < point /\ events[i].ref = Max(runs)
           Before(i) == events[i].type = "scheduled" /\ i < point => i < Max(results)
           Undecided(i) == events[i].ref # Max(runs)
                           \/ \A j \in DOMAIN events : j > i => events[j].type # "task_completed"
<1>3. ResetKeepsTheStepOnly(r, point) <=>
        /\ point = 0 <=> runs = {}
        /\ point > 0 => /\ \E i \in results : Result(i)
                       /\ \A i \in DOMAIN events : Before(i)
                       /\ events[point].type = "task_completed"
        /\ point = -1 => \A i \in results : Undecided(i)
  BY DEF ResetKeepsTheStepOnly
<1> HIDE DEF point
<1> SUFFICES ResetKeepsTheStepOnly(r, point)
  BY DEF point
<1>4. CASE runs = {}
  <2>1. point = 0
    BY <1>2, <1>4
  <2> HIDE DEF runs, results, Result, Before, Undecided
  <2> QED BY <1>3, <1>4, <2>1
<1>5. CASE runs # {} /\ completed = {}
  <2>1. point = -1
    BY <1>2, <1>5
  <2>2. \A i \in results : Undecided(i)
    BY <1>5
  <2> HIDE DEF runs, results, Result, Before, Undecided
  <2> QED BY <1>3, <1>5, <2>1, <2>2
<1>6. CASE runs # {} /\ completed # {}
  <2>1. Max(runs) \in runs
    BY <1>1, <1>6, LastPosition
  <2>2. Max(completed) \in completed
    BY <1>1, <1>6, LastPosition
  <2>3. completed \subseteq results
    BY <2>1
  <2>4. Max(results) \in results /\ \A i \in results : i <= Max(results)
    BY <1>1, <2>2, <2>3, LastPosition, Zenon
  <2> DEFINE end == Max(completed)
  <2>5. end \in 1 .. n /\ end \in results /\ events[end].type = "completed"
        /\ events[end].ref = Max(runs)
    BY <1>1, <2>2, <2>3, Zenon
  <2>6. Max(results) \in 1 .. n /\ end <= Max(results)
    BY <1>1, <2>4, <2>5, Zenon
  <2> HIDE DEF end
  <2>7. CASE \A i \in decided : i <= Max(completed)
    <3>1. point = -1
      BY <1>2, <1>6, <2>7
    <3>2. ASSUME NEW i \in results, events[i].ref = Max(runs)
          PROVE  i = end
      <4>1. i \in {k \in DOMAIN events : events[k].type = "completed"}
            /\ end \in {k \in DOMAIN events : events[k].type = "completed"}
        BY <1>1, <2>5
      <4> QED BY <2>5, <3>2, <4>1 DEF IsHistory
    <3>3. ASSUME NEW j \in DOMAIN events, j > end
          PROVE  events[j].type # "task_completed"
      <4>1. j \in Nat /\ end \in Nat
        BY <1>1, <2>5
      <4> QED BY <2>7, <3>3, <4>1 DEF end
    <3>4. \A i \in results : Undecided(i)
      BY <3>2, <3>3
    <3> HIDE DEF runs, results, Result, Before, Undecided
    <3> QED BY <1>3, <1>6, <3>1, <3>4
  <2>8. CASE ~ \A i \in decided : i <= Max(completed)
    <3>1. point = Min(later)
      BY <1>2, <1>6, <2>8
    <3>2. later \in SUBSET Nat /\ later # {}
      <4>1. PICK i \in decided : ~(i <= Max(completed))
        BY <2>8
      <4>2. i \in 1 .. n /\ end \in 1 .. n /\ ~(i <= end)
        BY <1>1, <2>5, <4>1, Zenon DEF end
      <4>3. i > end
        BY <1>1, <4>2
      <4>4. i \in later
        BY <4>1, <4>3 DEF end
      <4>5. \A k \in later : k \in Nat
        BY <1>1
      <4> QED BY <4>4, <4>5
    <3>3. point \in later /\ \A i \in later : point <= i
      BY <3>1, <3>2, FirstPosition
    <3>4. point \in 1 .. n /\ point > end /\ events[point].type = "task_completed"
      BY <1>1, <3>3 DEF end
    <3>5. ASSUME NEW i \in DOMAIN events, events[i].type = "scheduled", i < point
          PROVE  i < Max(results)
      <4>1. PICK d \in 1 .. i - 1 :
              /\ events[d].type = "task_completed"
              /\ \A k \in d + 1 .. i - 1 : events[k].type \notin {"completed", "task_completed"}
        BY <3>5 DEF IsHistory
      <4>2. i \in 1 .. n /\ d \in 1 .. n /\ d < i
        BY <1>1, <4>1
      <4>3. ~(d > end)
        <5>1. d > end => d \in later
          BY <1>1, <4>1, <4>2 DEF end
        <5>2. d > end => point <= d
          BY <3>3, <5>1
        <5> HIDE DEF later, end
        <5> QED BY <1>1, <3>4, <3>5, <4>2, <5>2
      <4>4. d < end
        BY <2>5, <4>1, <4>2, <4>3
      <4>5. end \notin d + 1 .. i - 1
        BY <2>5, <4>1
      <4>6. end # i
        BY <2>5, <3>5
      <4>7. i < end
        BY <2>5, <4>2, <4>4, <4>5, <4>6
      <4> HIDE DEF results, completed, runs
      <4>8. Max(results) \in Int /\ end \in Int /\ i \in Int /\ end <= Max(results)
        BY <2>5, <2>6, <4>2
      <4> QED BY <4>7, <4>8
    <3>6. point # 0 /\ point > 0 /\ point # -1
      BY <1>1, <3>4
    <3>7. end < point
      BY <1>1, <2>5, <3>4
    <3>8. \E i \in results : Result(i)
      BY <2>5, <3>7
    <3>9. \A i \in DOMAIN events : Before(i)
      BY <3>5
    <3> HIDE DEF runs, results, Result, Before, Undecided
    <3> QED BY <1>3, <1>6, <3>4, <3>6, <3>8, <3>9
  <2> QED BY <2>7, <2>8
<1> QED BY <1>4, <1>5, <1>6

(* A reset of any history goes to just after the step, or is refused (reset.js). *)
THEOREM ResetsGoAfterTheStep == Spec => []ResetsKeepTheStep
<1>1. AnswersAsComputed => ResetsKeepTheStep
  BY ResetIsRight, ResetsAssumption DEF AnswersAsComputed, ResetsKeepTheStep, Told
<1> QED BY <1>1, AlwaysComputed, PTL

-----------------------------------------------------------------------------
(* The commands. *)

(* The commands differ in a few facts, from which all else about them follows. *)
LEMMA EveryCommand ==
  ASSUME NEW name \in DOMAIN Commands
  PROVE  LET command == Commands[name] IN
         /\ command.overrides \subseteq {400, 404, 409, 500, 503}
         /\ Changes(command) => command.calls.method \notin RetryMethods
         /\ command.tellsStatus => command.after = Nothing
         /\ command.after = "monitor" => command.needsData /\ command.keepsExit
         /\ command.keepsExit => command.after = "monitor"
<1> USE DEF Commands, Command, Operation, Changes, RetryMethods, Nothing
<1>1. CASE name = "status"             BY <1>1 DEF WorkflowStatus, getWorkflowIdStatus
<1>2. CASE name = "stop"               BY <1>2 DEF WorkflowStop, patchWorkflowIdStop
<1>3. CASE name = "terminate"          BY <1>3 DEF WorkflowTerminate, postWorkflowIdTerminate
<1>4. CASE name = "reset"              BY <1>4 DEF WorkflowReset, postWorkflowIdReset
<1>5. CASE name = "result"             BY <1>5 DEF WorkflowResult, getWorkflowIdResult
<1>6. CASE name = "run"
  <2> DEFINE c == WorkflowRunCommand
  <2>1. Commands[name] = c
    BY <1>6
  <2>2. c.calls = postWorkflowRun /\ c.overrides = {404, 500, 503}
        /\ c.after = Nothing /\ ~c.keepsExit
    BY DEF WorkflowRunCommand
  <2> HIDE DEF c
  <2> QED BY <2>1, <2>2 DEF postWorkflowRun
<1>7. CASE name = "start"
  <2> DEFINE c == WorkflowStart
  <2>1. Commands[name] = c
    BY <1>7
  <2>2. c.calls = postWorkflowStart /\ c.overrides = {404}
        /\ c.after = "monitor" /\ c.needsData /\ c.keepsExit /\ ~c.tellsStatus
    BY DEF WorkflowStart
  <2> HIDE DEF c
  <2> QED BY <2>1, <2>2 DEF postWorkflowStart
<1>8. CASE name = "debug"              BY <1>8 DEF WorkflowDebug, getWorkflowIdTraceLog
<1>9. CASE name = "cost"               BY <1>9 DEF WorkflowCost, WorkflowDebug, getWorkflowIdTraceLog
<1>10. CASE name = "runs"              BY <1>10 DEF WorkflowRunsList, getWorkflowRuns
<1>11. CASE name = "history"           BY <1>11 DEF WorkflowHistory, getWorkflowIdHistory
<1>12. CASE name = "input"             BY <1>12 DEF WorkflowInput, getWorkflowIdInput
<1>13. CASE name = "input_of_run"      BY <1>13 DEF WorkflowInput, getWorkflowIdRunsRidInput
<1>14. CASE name = "list"              BY <1>14 DEF WorkflowList, getWorkflowCatalog
<1>15. CASE name = "list_of_catalog"   BY <1>15 DEF WorkflowList, getWorkflowCatalogId
<1>16. CASE name = "dataset"
  <2> DEFINE c == DatasetOfScenario
  <2>1. Commands[name] = c
    BY <1>16
  <2>2. c.calls = postWorkflowRun /\ c.overrides = {404, 500}
        /\ c.after = "file" /\ ~c.keepsExit /\ ~c.tellsStatus
    BY DEF DatasetOfScenario
  <2> HIDE DEF c
  <2> QED BY <2>1, <2>2 DEF postWorkflowRun
<1>17. CASE name = "datasets_of_runs"  BY <1>17 DEF DatasetsOfRuns, getWorkflowRuns
<1> QED
  BY <1>1, <1>2, <1>3, <1>4, <1>5, <1>6, <1>7, <1>8, <1>9,
     <1>10, <1>11, <1>12, <1>13, <1>14, <1>15, <1>16, <1>17, Zenon

(* A command comes to a last try, and what changes something is tried again only after
   answers that say when to come back. *)
LEMMA LastTry ==
  ASSUME NEW r, CanBefall(r)
  PROVE  LET command == Commands[r.command]
             n == Tries(command, r) IN
         /\ n \in DOMAIN r.tries /\ n \in Nat /\ n >= 1
         /\ \A i \in 1 .. n - 1 : i \in DOMAIN r.tries
         /\ Changes(command) => \A i \in 1 .. n - 1 : ~r.tries[i].done
<1> DEFINE command == Commands[r.command]
           Again(i) == \/ KyRepeats(command.calls.method, r.tries[i], i, r.repeatsStatuses)
                       \/ command.asksAgain /\ ExecuteWorkflowRepeats(r.tries[i], i)
           final == {i \in DOMAIN r.tries : ~Again(i)}
           n == Min(final)
           length == Len(r.tries)
<1>1. length \in Nat /\ length > 3 /\ DOMAIN r.tries = 1 .. length
  BY DEF CanBefall, MaxRetries
<1>2. length \in final
  <2>1. length \in DOMAIN r.tries
    BY <1>1
  <2>2. ~Again(length)
    BY <1>1 DEF KyRepeats, ExecuteWorkflowRepeats, RetryLimit, MaxRetries
  <2> QED BY <2>1, <2>2
<1>3. n \in final /\ \A i \in final : n <= i
  <2>1. final \in SUBSET Nat
    BY <1>1
  <2> HIDE DEF final
  <2> QED BY <1>2, <2>1, FirstPosition
<1>4. Tries(command, r) = n
  <2>1. final = {i \in DOMAIN r.tries :
                   /\ ~KyRepeats(command.calls.method, r.tries[i], i, r.repeatsStatuses)
                   /\ ~(command.asksAgain /\ ExecuteWorkflowRepeats(r.tries[i], i))}
    OBVIOUS
  <2> QED BY <2>1 DEF Tries
<1>5. n \in 1 .. length
  BY <1>1, <1>3, Zenon
<1>6. ASSUME Changes(command), NEW i \in 1 .. n - 1
      PROVE  ~r.tries[i].done
  <2>1. i \in DOMAIN r.tries /\ i < n
    BY <1>1, <1>5
  <2>2. Again(i)
    <3>1. i \in final => n <= i
      BY <1>3
    <3>2. ~(n <= i)
      BY <1>5, <2>1
    <3> QED BY <2>1, <3>1, <3>2, SMTT(30)
  <2>3. r.command \in DOMAIN Commands
    BY DEF CanBefall
  <2>4. command.calls.method \notin RetryMethods
    BY <1>6, <2>3, EveryCommand
  <2>5. r.tries[i].retryAfter
    BY <2>2, <2>4 DEF KyRepeats, ExecuteWorkflowRepeats
  <2> QED BY <2>1, <2>5 DEF CanBefall
<1> HIDE DEF n
<1> QED BY <1>1, <1>4, <1>5, <1>6

LEMMA CommandIsTold ==
  ASSUME NEW r, CanBefall(r)
  PROVE  EndsAsItDid(r, Perform(r))
<1> DEFINE command == Commands[r.command]
           n == Tries(command, r)
           last == r.tries[n]
           success == last.ended = "answered" /\ last.status \in 200 .. 299
           refused == \/ command.after = "monitor" /\ r.monitorAsJson
                      \/ command.takesInput /\ ~ResolveInput(r.input)
           p == Perform(r)
           carriedOut == {i \in 1 .. p.sent : r.tries[i].done}
           fails == r.afterwards = "fails"
           failed == r.afterwards = "run_failed"
           detached == r.afterwards = "detached"
<1>0. ~(fails /\ failed) /\ ~(fails /\ detached) /\ ~(failed /\ detached)
  OBVIOUS
<1>1. r.command \in DOMAIN Commands
  BY DEF CanBefall
<1>2. /\ n \in DOMAIN r.tries /\ n \in Nat /\ n >= 1
      /\ Changes(command) => \A i \in 1 .. n - 1 : ~r.tries[i].done
  BY LastTry
<1>3. /\ last.done => last.ended # "unreachable"
      /\ success => last.done
  BY <1>2 DEF CanBefall
<1>4. /\ command.overrides \subseteq {400, 404, 409, 500, 503}
      /\ command.tellsStatus => command.after = Nothing
      /\ command.after = "monitor" => command.needsData
      /\ command.keepsExit <=> command.after = "monitor"
  BY <1>1, EveryCommand
<1>5. Nothing # "monitor"
  BY DEF Nothing
<1> HIDE DEF command, n
(* What there is to show, by how often the command sent its request. *)
<1> DEFINE answered == p.sent > 0 /\ r.tries[p.sent].ended = "answered"
           succeeded == answered /\ r.tries[p.sent].status \in 200 .. 299
<1>6. SUFFICES
        /\ Changes(command) => Cardinality(carriedOut) <= 1
        /\ Changes(command) /\ p.words = "connection" => carriedOut = {}
        /\ p.exit = 0 => succeeded /\ r.tries[p.sent].done
        /\ p.words = "success" <=>
             /\ succeeded /\ (command.needsData => r.tries[p.sent].body)
             /\ command.after # Nothing => ~fails
        /\ command.after = "monitor" =>
             /\ p.exit = 3 <=> succeeded /\ r.tries[p.sent].body /\ fails
             /\ p.exit = 130 <=> succeeded /\ r.tries[p.sent].body /\ detached
             /\ succeeded /\ r.tries[p.sent].body => (p.exit = 1 <=> p.words = "success" /\ failed)
        /\ answered /\ r.tries[p.sent].status \in command.overrides => p.words = "own" /\ p.exit = 1
        /\ p.sent = 0 => p.exit # 0
  BY ZenonT(30) DEF EndsAsItDid, command
<1>7. CASE refused
  <2>1. p = Sent(0, HandleOwnError(command, 2)) \/ p = Sent(0, HandleOwnError(command, 1))
    BY <1>7 DEF Perform, command
  <2>2. p.sent = 0 /\ p.words = "detail" /\ p.exit \in {1, 2}
    BY <2>1 DEF Sent, HandleOwnError, Outcome
  <2>3. carriedOut = {}
    BY <2>2
  <2>4. Cardinality(carriedOut) = 0
    BY <2>3, FS_EmptySet, SMTT(30)
  <2> HIDE DEF p
  <2> QED BY <2>2, <2>3, <2>4
<1>8. CASE ~refused
  <2> DEFINE outcome == IF success THEN OfAnswer(command, r, last)
                        ELSE HandleApiError(last, command.overrides)
  <2>1. p = Sent(n, outcome)
    BY <1>8 DEF Perform, command, n
  <2>2. p.sent = n /\ p.words = outcome.words /\ p.exit = outcome.exit
    BY <2>1 DEF Sent
  <2>3. Changes(command) => carriedOut \subseteq {n} /\ (~last.done => carriedOut = {})
    <3>1. ASSUME Changes(command), NEW i \in carriedOut
          PROVE  i = n
      <4>1. i \in 1 .. n /\ r.tries[i].done
        BY <2>2, <3>1
      <4>2. i \in 1 .. n - 1 \/ i = n
        BY <1>2, <4>1
      <4> QED BY <1>2, <3>1, <4>1, <4>2
    <3> QED BY <3>1
  <2>4. Changes(command) => Cardinality(carriedOut) <= 1
    <3>1. Cardinality({}) = 0 /\ Cardinality({n}) = 1
      BY FS_EmptySet, FS_Singleton
    <3>2. Changes(command) => carriedOut \in {{}, {n}}
      BY <2>3
    <3> HIDE DEF carriedOut
    <3> QED BY <3>1, <3>2
  <2>5. /\ p.sent # 0 /\ r.tries[p.sent] = last
        /\ answered <=> last.ended = "answered"
        /\ succeeded <=> success
    BY <1>2, <2>2
  <2> HIDE DEF carriedOut, p, outcome
  <2>6. SUFFICES
          /\ outcome.words = "connection" => ~last.done
          /\ outcome.exit = 0 => success
          /\ outcome.words = "success" <=>
               /\ success /\ (command.needsData => last.body)
               /\ command.after # Nothing => ~fails
          /\ command.after = "monitor" =>
               /\ outcome.exit = 3 <=> success /\ last.body /\ fails
               /\ outcome.exit = 130 <=> success /\ last.body /\ detached
               /\ success /\ last.body => (outcome.exit = 1 <=> outcome.words = "success" /\ failed)
          /\ last.ended = "answered" /\ last.status \in command.overrides =>
               outcome.words = "own" /\ outcome.exit = 1
    <3> HIDE DEF success, fails, failed, detached, answered, succeeded, last
    <3> QED BY <1>3, <2>2, <2>3, <2>4, <2>5
  <2>7. CASE ~success
    <3>1. outcome = HandleApiError(last, command.overrides)
      BY <2>7 DEF outcome
    <3>2. /\ outcome.exit = 1
          /\ outcome.words \in {"connection", "detail", "own", "api", "default"}
          /\ outcome.words = "connection" => last.ended = "unreachable"
          /\ last.ended = "answered" /\ last.status \in command.overrides => outcome.words = "own"
      BY <3>1, SMTT(30) DEF HandleApiError, Outcome
    <3> HIDE DEF success, fails, failed, detached
    <3> QED BY <1>3, <2>7, <3>2
  <2>8. CASE success
    <3>1. outcome = OfAnswer(command, r, last)
      BY <2>8 DEF outcome
    <3>2. last.status \notin command.overrides
      BY <1>4, <2>8
    <3>3. CASE command.needsData /\ ~last.body
      <4>1. outcome = Outcome("detail", 1)
        BY <3>1, <3>3 DEF OfAnswer, HandleOwnError
      <4>2. outcome.words = "detail" /\ outcome.exit = 1
        BY <4>1 DEF Outcome
      <4> HIDE DEF success, fails, failed, detached
      <4> QED BY <2>8, <3>2, <3>3, <4>2
    <3>4. CASE ~(command.needsData /\ ~last.body) /\ command.tellsStatus /\ last.failed
      <4>1. outcome = Outcome("success", 1)
        BY <3>1, <3>4 DEF OfAnswer
      <4>2. outcome.words = "success" /\ outcome.exit = 1
        BY <4>1 DEF Outcome
      <4>3. command.after = Nothing /\ command.after # "monitor"
        BY <1>4, <1>5, <3>4, SMTT(30)
      <4> HIDE DEF success, fails, failed, detached
      <4> QED BY <2>8, <3>2, <3>4, <4>2, <4>3
    <3>5. CASE ~(command.needsData /\ ~last.body) /\ ~(command.tellsStatus /\ last.failed)
      <4>1. outcome = Afterwards(command, r)
        BY <3>1, <3>5 DEF OfAnswer
      <4>2. CASE command.after = Nothing \/ ~fails
        <5> DEFINE exit == IF command.after = "monitor" /\ (failed \/ detached)
                           THEN IF failed THEN 1 ELSE 130 ELSE 0
        <5>1. outcome = Outcome("success", exit)
          <6>1. MonitoredExit["run_failed"] = 1 /\ MonitoredExit["detached"] = 130
                /\ (r.afterwards \in DOMAIN MonitoredExit <=> failed \/ detached)
            BY DEF MonitoredExit
          <6> QED BY <1>0, <1>5, <4>1, <4>2, <6>1 DEF Afterwards
        <5>2. outcome.words = "success" /\ outcome.exit = exit
          BY <5>1 DEF Outcome
        <5>3. command.after = "monitor" => ~fails
          BY <1>5, <4>2
        <5>4. command.after # "monitor" => exit = 0
          OBVIOUS
        <5>5. command.after = "monitor" =>
                /\ exit # 3 /\ (exit = 130 <=> detached) /\ (exit = 1 <=> failed)
          BY <1>0
        <5> HIDE DEF success, fails, failed, detached, exit
        <5>6. command.after = "monitor" =>
                /\ outcome.exit = 3 <=> success /\ last.body /\ fails
                /\ outcome.exit = 130 <=> success /\ last.body /\ detached
                /\ success /\ last.body => (outcome.exit = 1 <=> outcome.words = "success" /\ failed)
          <6> SUFFICES ASSUME command.after = "monitor"
                       PROVE  /\ outcome.exit = 3 <=> success /\ last.body /\ fails
                              /\ outcome.exit = 130 <=> success /\ last.body /\ detached
                              /\ success /\ last.body =>
                                   (outcome.exit = 1 <=> outcome.words = "success" /\ failed)
            OBVIOUS
          <6>1. ~fails /\ success /\ last.body
            BY <1>4, <2>8, <3>5, <5>3
          <6> QED BY <5>2, <5>5, <6>1, Zenon
        <5>7. outcome.words = "success" /\ outcome.words # "connection"
          BY <5>2
        <5>8. command.after # Nothing => ~fails
          BY <4>2
        <5> QED BY <2>8, <3>2, <3>5, <5>6, <5>7, <5>8, Zenon
      <4>3. CASE command.after # Nothing /\ fails
        <5>1. outcome = Outcome("detail", IF command.after = "monitor" THEN 3 ELSE 1)
          BY <1>4, <4>1, <4>3 DEF Afterwards, HandleOwnError, MonitorFailedExitCode
        <5>2. outcome.words = "detail"
              /\ outcome.exit = IF command.after = "monitor" THEN 3 ELSE 1
          BY <5>1 DEF Outcome
        <5>3. command.after = "monitor" => last.body
          BY <1>4, <3>5
        <5>4. ~failed /\ ~detached
          BY <1>0, <4>3
        <5> HIDE DEF success, fails, failed, detached
        <5> QED BY <2>8, <3>2, <4>3, <5>2, <5>3, <5>4
      <4> QED BY <4>2, <4>3
    <3> QED BY <3>3, <3>4, <3>5
  <2> QED BY <2>7, <2>8, ZenonT(60)
<1> QED BY <1>7, <1>8, Zenon

(* Whatever befalls its tries, a command does what it was asked to once at most, and its
   words and its exit code say what became of it (commands/workflow/, http_client.ts,
   run.ts, start.ts, error_handler.ts). *)
THEOREM CommandsTellWhatTheyDid == Spec => []CommandsEndAsTheyDid
<1>1. AnswersAsComputed => CommandsEndAsTheyDid
  BY CommandIsTold, RunsAssumption DEF AnswersAsComputed, CommandsEndAsTheyDid, Told
<1> QED BY <1>1, AlwaysComputed, PTL

-----------------------------------------------------------------------------
(* The credentials. *)

IsWorker(worker) ==
  /\ worker.environment = Project \/ worker.environment.of = "environment"
  /\ worker.directory.of = "workflow"

(* The worker and the commands find the same key, each by its own rules, unless the
   environment knows a workflow by two names. *)
LEMMA SameKey ==
  ASSUME NEW machine, NEW worker, IsWorker(worker), NEW target,
         target.of = "workflow" => target = worker.directory /\ ~NamesApart(machine, worker)
  PROVE  ProviderKey(machine, worker, target) = ResolveKey(machine, target)
<1>1. CASE target.of # "workflow"
  BY <1>1 DEF ProviderKey, ResolveKey
<1>2. CASE target.of = "workflow" /\ worker.type = KeyEnvVar(target)
  BY <1>2 DEF ProviderKey, ResolveKey
<1>3. CASE target.of = "workflow" /\ worker.type # KeyEnvVar(target)
  <2>1. worker.type \notin DOMAIN machine.env /\ KeyEnvVar(target) \notin DOMAIN machine.env
    BY <1>3 DEF NamesApart
  <2>2. KeyIn(machine, worker.type, target) = KeyIn(machine, KeyEnvVar(target), target)
    BY <2>1 DEF KeyIn
  <2> QED BY <1>3, <2>2 DEF ProviderKey, ResolveKey
<1> QED BY <1>1, <1>2, <1>3

LEMMA DecryptsWhatMatches ==
  ASSUME NEW machine, NEW worker, IsWorker(worker), NEW target,
         target.of = "workflow" => target = worker.directory /\ ~NamesApart(machine, worker)
  PROVE  DecryptYaml(machine, worker, target) =
           IF KeyMatches(machine, target) THEN <<machine.files[target].values>> ELSE <<>>
BY SameKey DEF DecryptYaml, KeyMatches

(* What a worker goes by when it is asked for the credentials of a target. *)
GoesBy(machine, worker, target) ==
  IF target.of = "workflow" THEN Loaded(machine, worker).workflow ELSE Loaded(machine, worker).other

(* The file a worker goes by is read with its key, and what is in it is what the worker
   has; and it does not start only where there is a file whose key is not found. *)
LEMMA WorkerFollowsTheFiles ==
  ASSUME NEW machine, NEW worker, IsWorker(worker), NEW target,
         \/ target \in {worker.directory, worker.environment}
         \/ target = Project /\ ~CredentialsExist(machine, worker.environment)
  PROVE  LET goesBy == GoesBy(machine, worker, target)
             values == machine.files[target].values
             apart == target.of = "workflow" /\ NamesApart(machine, worker)
         IN  /\ goesBy # <<>> /\ CredentialsExist(machine, target) =>
                  /\ KeyMatches(machine, target) \/ apart
                  /\ \A p \in DOMAIN values : p \in DOMAIN goesBy[1] /\ goesBy[1][p] = values[p]
             /\ goesBy = <<>> =>
                  \/ \E t \in DOMAIN machine.files \cap {worker.environment, Project, worker.directory} :
                       ~KeyMatches(machine, t)
                  \/ apart
<1> DEFINE goesBy == GoesBy(machine, worker, target)
           values == machine.files[target].values
           apart == target.of = "workflow" /\ NamesApart(machine, worker)
           global == LoadGlobal(machine, worker)
           own == IF worker.directory \in DOMAIN machine.files
                  THEN DecryptYaml(machine, worker, worker.directory) ELSE <<NoValues>>
           unread == \E t \in DOMAIN machine.files \cap {worker.environment, Project, worker.directory} :
                       ~KeyMatches(machine, t)
<1>0. /\ Project.of = "project" /\ worker.environment.of # "workflow"
      /\ worker.directory.of = "workflow"
  <2>1. Project.of = "project"
    BY DEF Project
  <2>2. Project.of # "workflow"
    BY <2>1
  <2>3. worker.environment = Project => worker.environment.of = Project.of
    OBVIOUS
  <2>4. worker.environment.of = "environment" => worker.environment.of # "workflow"
    OBVIOUS
  <2> QED BY <2>1, <2>2, <2>3, <2>4 DEF IsWorker
<1>1. \A v : <<v>> # <<>> /\ <<v>>[1] = v
  OBVIOUS
<1>2. \A t : t.of # "workflow" =>
        DecryptYaml(machine, worker, t) =
          IF KeyMatches(machine, t) THEN <<machine.files[t].values>> ELSE <<>>
  BY DecryptsWhatMatches
<1>3. ~NamesApart(machine, worker) =>
        DecryptYaml(machine, worker, worker.directory) =
          IF KeyMatches(machine, worker.directory) THEN <<machine.files[worker.directory].values>> ELSE <<>>
  BY DecryptsWhatMatches
<1>4. DecryptYaml(machine, worker, worker.directory) \in {<<machine.files[worker.directory].values>>, <<>>}
  BY DEF DecryptYaml
<1>5. global = <<>> => unread
  BY <1>0, <1>1, <1>2 DEF LoadGlobal
<1>6. own = <<>> => unread \/ NamesApart(machine, worker)
  BY <1>1, <1>3
<1>7. CASE target.of = "workflow"
  <2>0. target = worker.directory
    BY <1>0, <1>7
  <2>1. goesBy = IF global = <<>> \/ own = <<>> THEN <<>> ELSE <<Overwrite(global[1], own[1])>>
    BY <1>7 DEF GoesBy, Loaded, LoadForWorkflow
  <2>2. ASSUME goesBy # <<>>, CredentialsExist(machine, target)
        PROVE  /\ KeyMatches(machine, target) \/ apart
               /\ \A p \in DOMAIN values : p \in DOMAIN goesBy[1] /\ goesBy[1][p] = values[p]
    <3>1. own # <<>> /\ goesBy = <<Overwrite(global[1], own[1])>>
      BY <2>1, <2>2
    <3>2. own = DecryptYaml(machine, worker, target)
      BY <2>0, <2>2 DEF CredentialsExist
    <3>3. own[1] = values
      BY <1>1, <1>4, <2>0, <3>1, <3>2
    <3>4. KeyMatches(machine, target) \/ apart
      BY <1>3, <1>7, <2>0, <3>1, <3>2
    <3>5. goesBy[1] = Overwrite(global[1], values)
      BY <1>1, <3>1, <3>3
    <3>6. \A p \in DOMAIN values : /\ p \in DOMAIN Overwrite(global[1], values)
                                   /\ Overwrite(global[1], values)[p] = values[p]
      BY DEF Overwrite, Over
    <3> QED BY <3>4, <3>5, <3>6
  <2>3. goesBy = <<>> => global = <<>> \/ own = <<>>
    BY <1>1, <2>1
  <2>4. goesBy = <<>> => unread \/ apart
    BY <1>5, <1>6, <1>7, <2>3
  <2> QED BY <2>2, <2>4
<1>8. CASE target.of # "workflow"
  <2>1. goesBy = global
    BY <1>8 DEF GoesBy, Loaded
  <2>2. CredentialsExist(machine, target) => global = DecryptYaml(machine, worker, target)
    BY <1>0, <1>8 DEF CredentialsExist, LoadGlobal
  <2> HIDE DEF goesBy, global
  <2> QED BY <1>1, <1>2, <1>5, <1>8, <2>1, <2>2 DEF goesBy, global
<1> QED BY <1>7, <1>8

(* What is encrypted is read again, and the other files with the keys they had. *)
LEMMA Encrypting ==
  ASSUME NEW machine, IsMachine(machine), NEW target, NEW values, ResolveKey(machine, target) # {}
  PROVE  LET after == WriteEncrypted(machine, target, values) IN
         /\ DOMAIN after.files = {target} \cup DOMAIN machine.files
         /\ after.files[target].values = values
         /\ KeyMatches(after, target)
         /\ \A t \in DOMAIN machine.files \ {target} :
              after.files[t] = machine.files[t] /\ KeyMatches(after, t) = KeyMatches(machine, t)
<1> DEFINE after == WriteEncrypted(machine, target, values)
           file == [key |-> CHOOSE k \in ResolveKey(machine, target) : TRUE, values |-> values]
<1>1. after = [machine EXCEPT !.files = Over(Just(target, file), @)]
  BY DEF WriteEncrypted
<1>2. /\ after.env = machine.env /\ after.keys = machine.keys
      /\ after.files = Over(Just(target, file), machine.files)
  BY <1>1 DEF IsMachine
<1>3. \A t : ResolveKey(after, t) = ResolveKey(machine, t)
  BY <1>2 DEF ResolveKey, KeyIn
<1>4. file.key \in ResolveKey(machine, target) /\ file.values = values
  OBVIOUS
<1> HIDE DEF after, file
<1>5. /\ DOMAIN after.files = {target} \cup DOMAIN machine.files
      /\ after.files[target] = file
      /\ \A t \in DOMAIN machine.files \ {target} : after.files[t] = machine.files[t]
  BY <1>2 DEF Over, Just
<1>6. KeyMatches(after, target)
  BY <1>3, <1>4, <1>5 DEF KeyMatches
<1>7. \A t \in DOMAIN machine.files \ {target} : KeyMatches(after, t) = KeyMatches(machine, t)
  BY <1>3, <1>5 DEF KeyMatches
<1> QED BY <1>4, <1>5, <1>6, <1>7 DEF after

(* A new file is read with its new key unless the environment has another, and a new key
   changes what is read with it, which is what is the project's or a workflow's. *)
LEMMA Initialising ==
  ASSUME NEW machine, IsMachine(machine), NEW target, NEW key, NEW template
  PROVE  LET after == InitCredentials(machine, target, key, template) IN
         /\ DOMAIN after.files = {target} \cup DOMAIN machine.files
         /\ KeyMatches(after, target) <=> KeyEnvVar(target) \notin DOMAIN machine.env
                                         \/ machine.env[KeyEnvVar(target)] = key
         /\ \A t \in DOMAIN machine.files \ {target} :
              /\ after.files[t] = machine.files[t]
              /\ target # Project => KeyMatches(after, t) = KeyMatches(machine, t)
<1> DEFINE after == InitCredentials(machine, target, key, template)
           file == [key |-> key, values |-> template]
<1>1. after = [machine EXCEPT !.keys = Over(Just(target, key), @),
                              !.files = Over(Just(target, file), @)]
  BY DEF InitCredentials
<1>2. /\ after.env = machine.env
      /\ after.keys = Over(Just(target, key), machine.keys)
      /\ after.files = Over(Just(target, file), machine.files)
  BY <1>1 DEF IsMachine
<1>3. file.key = key
  OBVIOUS
<1> HIDE DEF after, file
<1>4. /\ DOMAIN after.files = {target} \cup DOMAIN machine.files
      /\ after.files[target] = file
      /\ \A t \in DOMAIN machine.files \ {target} : after.files[t] = machine.files[t]
  BY <1>2 DEF Over, Just
<1>5. /\ DOMAIN after.keys = {target} \cup DOMAIN machine.keys
      /\ after.keys[target] = key
      /\ \A t \in DOMAIN machine.keys \ {target} : after.keys[t] = machine.keys[t]
  BY <1>2 DEF Over, Just
<1> DEFINE variable == KeyEnvVar(target)
<1>6. ResolveKey(after, target) =
        IF variable \in DOMAIN machine.env THEN {machine.env[variable]} ELSE {key}
  <2>1. KeyIn(after, variable, target) =
          IF variable \in DOMAIN machine.env THEN {machine.env[variable]} ELSE {key}
    BY <1>2, <1>5 DEF KeyIn
  <2> QED BY <2>1 DEF ResolveKey
<1>7. KeyMatches(after, target) <=> variable \notin DOMAIN machine.env \/ machine.env[variable] = key
  BY <1>3, <1>4, <1>6 DEF KeyMatches
<1>8. ASSUME target # Project, NEW t, t # target
      PROVE  ResolveKey(after, t) = ResolveKey(machine, t)
  <2>1. \A v, u : u # target => KeyIn(after, v, u) = KeyIn(machine, v, u)
    BY <1>2, <1>5 DEF KeyIn
  <2>2. KeyIn(after, KeyEnvVar(t), t) = KeyIn(machine, KeyEnvVar(t), t)
    BY <1>8, <2>1
  <2>3. KeyIn(after, KeyEnvVar(Project), Project) = KeyIn(machine, KeyEnvVar(Project), Project)
    BY <1>8, <2>1
  <2> QED BY <2>2, <2>3 DEF ResolveKey
<1>9. \A t \in DOMAIN machine.files \ {target} :
        target # Project => KeyMatches(after, t) = KeyMatches(machine, t)
  BY <1>4, <1>8 DEF KeyMatches
<1> QED BY <1>4, <1>7, <1>9 DEF after

(* A value that is set is there, alone at its path, and what is not in its way stays. *)
LEMMA Setting ==
  ASSUME NEW values, NEW path \in Seq(STRING), NEW value
  PROVE  LET written == Overwrite(values, Just(path, value)) IN
         /\ Below(written, path) = Just(path, value)
         /\ \A p \in DOMAIN values \ {path} :
              \/ p \in DOMAIN written /\ written[p] = values[p]
              \/ p \in Conflicts(values, path)
<1> DEFINE kept == {p \in DOMAIN values : p \notin Conflicts(values, path)}
           written == Overwrite(values, Just(path, value))
<1>1. \A o : o \in DOMAIN Just(path, value) <=> o = path
  BY DEF Just
<1>2. kept = {p \in DOMAIN values : \A o \in DOMAIN Just(path, value) : p \notin Conflicts(values, o)}
  BY <1>1
<1>3. written = Over(Just(path, value), Restrict(values, kept))
  BY <1>2 DEF Overwrite
<1>4. DOMAIN written = {path} \cup kept
  BY <1>3 DEF Over, Just, Restrict
<1>5. written[path] = value
  BY <1>3 DEF Over, Just, Restrict
<1>6. \A p \in kept \ {path} : written[p] = values[p]
  BY <1>3 DEF Over, Just, Restrict
<1>7. IsPrefix(path, path)
  BY DEF IsPrefix
<1>8. {p \in DOMAIN written : IsPrefix(path, p)} = {path}
  BY <1>4, <1>7 DEF Conflicts
<1>9. Below(written, path) = Just(path, value)
  <2>1. Below(written, path) = [p \in {path} |-> written[p]]
    BY <1>8 DEF Below, Restrict
  <2> HIDE DEF written
  <2> QED BY <1>5, <2>1 DEF Just
<1> HIDE DEF written
<1> QED BY <1>4, <1>6, <1>9 DEF written

(* What KeepsTheSecrets asks of the command, apart from the worker. *)
LeavesAs(before, c, ends, after, shown) ==
  LET existed == CredentialsExist(before, c.target)
      written == after.files[c.target]
      wasRead == existed /\ KeyMatches(before, c.target)
  IN  /\ ends # "done" => after = before
      /\ \A t \in DOMAIN before.files \ {c.target} :
           /\ after.files[t] = before.files[t]
           /\ KeyMatches(after, t) = KeyMatches(before, t) \/ (c.does = "init" /\ c.target = Project)
      /\ ends = "done" =>
           /\ KeyMatches(after, c.target)
                <=> (c.does = "init" => KeyEnvVar(c.target) \notin DOMAIN before.env
                                        \/ before.env[KeyEnvVar(c.target)] = c.key)
           /\ existed /\ (c.does = "init" \/ ~wasRead) => c.force
           /\ wasRead /\ c.does = "set" =>
                \A p \in DOMAIN before.files[c.target].values \ {c.path} :
                  \/ p \in DOMAIN written.values /\ written.values[p] = before.files[c.target].values[p]
                  \/ c.yes /\ (IsPrefix(p, c.path) \/ IsPrefix(c.path, p))
           /\ c.does = "set" => Below(written.values, c.path) = Just(c.path, c.value)
      /\ \A p \in DOMAIN shown :
           /\ CredentialsExist(after, c.target)
           /\ p \in DOMAIN written.values /\ written.values[p] = shown[p]

LeavesInOrder(before, c, ending) == LeavesAs(before, c, ending.ends, ending.machine, ending.shown)

(* A command that only looks, gives up or fails leaves everything. *)
LEMMA NothingLeft ==
  ASSUME NEW before, NEW c, NEW how, how # "done"
  PROVE  LeavesInOrder(before, c, Ends(how, before, NoValues))
<1>1. DOMAIN NoValues = {}
  BY DEF NoValues
<1> QED BY <1>1 DEF LeavesInOrder, LeavesAs, Ends

LEMMA InitLeaves ==
  ASSUME NEW before, IsMachine(before), NEW c, c.does = "init"
  PROVE  LeavesInOrder(before, c, CredentialsInit(before, c))
<1>1. CASE CredentialsExist(before, c.target) /\ ~c.force
  BY <1>1, NothingLeft DEF CredentialsInit
<1>2. CASE ~(CredentialsExist(before, c.target) /\ ~c.force)
  <2> DEFINE after == InitCredentials(before, c.target, c.key, c.template)
  <2>1. CredentialsInit(before, c) = Ends("done", after, NoValues)
    BY <1>2 DEF CredentialsInit
  <2>2. DOMAIN NoValues = {}
    BY DEF NoValues
  <2>3. /\ KeyMatches(after, c.target)
             <=> KeyEnvVar(c.target) \notin DOMAIN before.env
                 \/ before.env[KeyEnvVar(c.target)] = c.key
        /\ \A t \in DOMAIN before.files \ {c.target} :
             /\ after.files[t] = before.files[t]
             /\ c.target # Project => KeyMatches(after, t) = KeyMatches(before, t)
    BY Initialising
  <2> HIDE DEF after
  <2> QED BY <1>2, <2>1, <2>2, <2>3 DEF LeavesInOrder, LeavesAs, Ends
<1> QED BY <1>1, <1>2

(* What is saved, by a command that may: the file can be read or else --force was given. *)
LEMMA SavedLeaves ==
  ASSUME NEW before, IsMachine(before), NEW c, c.does \in {"set", "edit"}, NEW values,
         ~Refuses(before, c),
         LET written == values
             old == before.files[c.target].values IN
         c.does = "set" =>
           /\ Below(written, c.path) = Just(c.path, c.value)
           /\ KeyMatches(before, c.target) =>
                \A p \in DOMAIN old \ {c.path} :
                  \/ p \in DOMAIN written /\ written[p] = old[p]
                  \/ c.yes /\ (IsPrefix(p, c.path) \/ IsPrefix(c.path, p))
  PROVE  LeavesInOrder(before, c, Saved(before, c, values))
<1>1. CASE ResolveKey(before, c.target) = {}
  BY <1>1, NothingLeft DEF Saved
<1>2. CASE ResolveKey(before, c.target) # {}
  <2> DEFINE after == WriteEncrypted(before, c.target, values)
  <2>1. Saved(before, c, values) = Ends("done", after, NoValues)
    BY <1>2 DEF Saved
  <2>2. DOMAIN NoValues = {}
    BY DEF NoValues
  <2>3. /\ after.files[c.target].values = values
        /\ KeyMatches(after, c.target)
        /\ \A t \in DOMAIN before.files \ {c.target} :
             after.files[t] = before.files[t] /\ KeyMatches(after, t) = KeyMatches(before, t)
    BY <1>2, Encrypting
  <2>4. CredentialsExist(before, c.target) /\ (KeyMatches(before, c.target) \/ c.force)
    BY DEF Refuses
  <2> HIDE DEF after
  <2> QED BY <2>1, <2>2, <2>3, <2>4 DEF LeavesInOrder, LeavesAs, Ends
<1> QED BY <1>1, <1>2

LEMMA SetLeaves ==
  ASSUME NEW before, IsMachine(before), NEW c, c.does = "set", c.path \in Seq(STRING)
  PROVE  LeavesInOrder(before, c, CredentialsSet(before, c))
<1> DEFINE opened == Opened(before, c)
           written == Overwrite(opened, Just(c.path, c.value))
<1>1. CASE Refuses(before, c)
  BY <1>1, NothingLeft DEF CredentialsSet
<1>2. CASE ~Refuses(before, c) /\ Conflicts(opened, c.path) # {} /\ ~c.yes
  BY <1>2, NothingLeft DEF CredentialsSet
<1>3. CASE ~Refuses(before, c) /\ ~(Conflicts(opened, c.path) # {} /\ ~c.yes)
  <2>1. CredentialsSet(before, c) = Saved(before, c, written)
    BY <1>3 DEF CredentialsSet
  <2>2. /\ Below(written, c.path) = Just(c.path, c.value)
        /\ \A p \in DOMAIN opened \ {c.path} :
             \/ p \in DOMAIN written /\ written[p] = opened[p]
             \/ p \in Conflicts(opened, c.path)
    BY Setting
  <2>3. KeyMatches(before, c.target) => opened = before.files[c.target].values
    BY DEF Opened
  <2>4. \A p \in Conflicts(opened, c.path) :
          c.yes /\ (IsPrefix(p, c.path) \/ IsPrefix(c.path, p))
    BY <1>3 DEF Conflicts
  <2> HIDE DEF written, opened
  <2>5. KeyMatches(before, c.target) =>
          \A p \in DOMAIN before.files[c.target].values \ {c.path} :
            \/ p \in DOMAIN written /\ written[p] = before.files[c.target].values[p]
            \/ c.yes /\ (IsPrefix(p, c.path) \/ IsPrefix(c.path, p))
    BY <2>2, <2>3, <2>4
  <2> QED BY <1>3, <2>1, <2>2, <2>5, SavedLeaves
<1> QED BY <1>1, <1>2, <1>3

LEMMA EditLeaves ==
  ASSUME NEW before, IsMachine(before), NEW c, c.does = "edit"
  PROVE  LeavesInOrder(before, c, CredentialsEdit(before, c))
<1>1. CASE Refuses(before, c) \/ ~c.parses
  BY <1>1, NothingLeft DEF CredentialsEdit
<1>2. CASE ~(Refuses(before, c) \/ ~c.parses) /\ c.edited = Opened(before, c)
  BY <1>2, NothingLeft DEF CredentialsEdit
<1>3. CASE ~(Refuses(before, c) \/ ~c.parses) /\ c.edited # Opened(before, c)
  <2>1. CredentialsEdit(before, c) = Saved(before, c, c.edited)
    BY <1>3 DEF CredentialsEdit
  <2> QED BY <1>3, <2>1, SavedLeaves
<1> QED BY <1>1, <1>2, <1>3

LEMMA ReadLeaves ==
  ASSUME NEW before, NEW c, NEW path
  PROVE  LeavesInOrder(before, c, Read(before, c.target, path))
<1> DEFINE found == Below(before.files[c.target].values, path)
           values == before.files[c.target].values
<1>1. CASE ~CredentialsExist(before, c.target) \/ ~KeyMatches(before, c.target)
  BY <1>1, NothingLeft DEF Read
<1>2. CASE CredentialsExist(before, c.target) /\ KeyMatches(before, c.target)
  <2>1. PICK how \in {"failed", "shown"} : Read(before, c.target, path) = Ends(how, before, found)
    BY <1>2 DEF Read
  <2>2. \A p \in DOMAIN found : p \in DOMAIN values /\ values[p] = found[p]
    BY DEF Below, Restrict
  <2> DEFINE ending == Read(before, c.target, path)
  <2>3. ending.ends \in {"failed", "shown"} /\ ending.machine = before /\ ending.shown = found
    BY <2>1 DEF Ends
  <2>4. ending.ends # "done"
    BY <2>3
  <2> HIDE DEF found, ending
  <2>5. LeavesInOrder(before, c, ending)
    BY <1>2, <2>2, <2>3, <2>4 DEF LeavesInOrder, LeavesAs
  <2> QED BY <2>5 DEF ending
<1> QED BY <1>1, <1>2

LEMMA SecretIsKept ==
  ASSUME NEW r, IsSecret(r)
  PROVE  KeepsTheSecrets(r, Handle(r))
<1> DEFINE before == r.machine
           c == r.command
           left == Credentials(before, c)
           after == left.machine
           worker == r.worker
           loaded == Loaded(after, worker)
           goesBy == GoesBy(after, worker, c.target)
           apart == c.target.of = "workflow" /\ NamesApart(after, worker)
           isUsed == \/ c.target \in {worker.directory, worker.environment}
                     \/ c.target = Project /\ ~CredentialsExist(after, worker.environment)
           h == Handle(r)
<1>1. /\ IsMachine(before) /\ IsWorker(worker)
      /\ c.does \in {"init", "set", "edit", "get", "show"}
      /\ c.does = "set" => c.path \in Seq(STRING)
  BY DEF IsSecret, IsWorker
<1>2. LeavesInOrder(before, c, left)
  <2>1. CASE c.does = "init"
    BY <1>1, <2>1, InitLeaves DEF Credentials
  <2>2. CASE c.does = "set"
    BY <1>1, <2>2, SetLeaves DEF Credentials
  <2>3. CASE c.does = "edit"
    BY <1>1, <2>3, EditLeaves DEF Credentials
  <2>4. CASE c.does = "get"
    BY <2>4, ReadLeaves DEF Credentials, CredentialsGet
  <2>5. CASE c.does = "show"
    BY <2>5, ReadLeaves DEF Credentials, CredentialsShow
  <2> QED BY <1>1, <2>1, <2>2, <2>3, <2>4, <2>5
<1> DEFINE unread == \E t \in DOMAIN after.files \cap {worker.environment, Project, worker.directory} :
                       ~KeyMatches(after, t)
<1>3. isUsed =>
        /\ goesBy # <<>> /\ CredentialsExist(after, c.target) =>
             /\ KeyMatches(after, c.target) \/ apart
             /\ \A p \in DOMAIN after.files[c.target].values :
                  p \in DOMAIN goesBy[1] /\ goesBy[1][p] = after.files[c.target].values[p]
        /\ goesBy = <<>> => unread \/ apart
  <2> HIDE DEF after, c
  <2> QED BY <1>1, WorkerFollowsTheFiles
<1>4. /\ h.ends = left.ends /\ h.machine = after /\ h.shown = left.shown
      /\ h.loaded = loaded
  BY DEF Handle
<1>5. isUsed /\ goesBy # <<>> /\ CredentialsExist(after, c.target) =>
        /\ KeyMatches(after, c.target) \/ apart
        /\ \A p \in DOMAIN h.shown : p \in DOMAIN goesBy[1] /\ goesBy[1][p] = h.shown[p]
  <2>1. \A p \in DOMAIN left.shown :
          /\ p \in DOMAIN after.files[c.target].values
          /\ after.files[c.target].values[p] = left.shown[p]
    <3> HIDE DEF left
    <3> QED BY <1>2 DEF LeavesInOrder, LeavesAs
  <2> HIDE DEF loaded, goesBy, isUsed, h, left, after, apart
  <2> QED BY <1>3, <1>4, <2>1
<1>6. LeavesInOrder(before, c, h)
  <2> HIDE DEF h, left
  <2> QED BY <1>2, <1>4 DEF LeavesInOrder
<1> SUFFICES KeepsTheSecrets(r, h)
  OBVIOUS
<1>7. isUsed /\ goesBy = <<>> => unread \/ apart
  BY <1>3
<1>8. /\ goesBy = IF c.target.of = "workflow" THEN h.loaded.workflow ELSE h.loaded.other
      /\ after = h.machine
  BY <1>4 DEF GoesBy
<1> HIDE DEF h, left, goesBy, loaded
<1> QED BY <1>5, <1>6, <1>7, <1>8 DEF KeepsTheSecrets, LeavesInOrder, LeavesAs

(* No secret is lost unasked, and the worker is given what the commands wrote, whatever
   the machine has and whatever is asked (cli/src/commands/credentials/,
   core/src/credentials/). *)
THEOREM NoSecretIsLost == Spec => []SecretsAreKept
<1>1. AnswersAsComputed => SecretsAreKept
  BY SecretIsKept, SecretsAssumption DEF AnswersAsComputed, SecretsAreKept, Told
<1> QED BY <1>1, AlwaysComputed, PTL

-----------------------------------------------------------------------------
(* The failures. *)

(* A route documents what it throws, and that it may fail. *)
LEMMA RoutesDocument ==
  ASSUME NEW name \in DOMAIN Routes
  PROVE  LET documented == Routes[name].documented IN
         /\ 500 \in documented
         /\ \A e \in Routes[name].thrown \cap DOMAIN NamedErrorStatuses :
              NamedErrorStatuses[e] \in documented
<1> DEFINE documented == Routes[name].documented
           InOrder == /\ 500 \in documented
                      /\ \A e \in Routes[name].thrown \cap DOMAIN NamedErrorStatuses :
                           NamedErrorStatuses[e] \in documented
<1>0. name \in {"run", "start", "runs", "feedback", "signal", "query", "update", "terminate",
                 "reset", "history", "status", "status_of_run", "stop", "stop_run", "result",
                 "result_of_run", "input", "input_of_run", "trace_log", "trace_log_of_run"}
  BY DEF Routes
<1> SUFFICES InOrder
  OBVIOUS
<1> USE DEF Routes, Route, NamedErrorStatuses, NoWorkflow
<1>1. CASE name = "run"                   BY <1>1 DEF RunRoute
<1>2. CASE name = "start"                 BY <1>2 DEF StartRoute
<1>3. CASE name = "runs"                  BY <1>3 DEF RunsRoute
<1>4. CASE name = "feedback"              BY <1>4 DEF FeedbackRoute
<1>5. CASE name = "signal"                BY <1>5 DEF SignalRoute
<1>6. CASE name = "query"                 BY <1>6 DEF QueryRoute
<1>7. CASE name = "update"                BY <1>7 DEF UpdateRoute
<1>8. CASE name = "terminate"             BY <1>8 DEF TerminateRoute
<1>9. CASE name = "reset"                 BY <1>9 DEF ResetRoute
<1>10. CASE name = "history"              BY <1>10 DEF HistoryRoute
<1>11. CASE name = "status"               BY <1>11 DEF StatusRoutes
<1>12. CASE name = "status_of_run"        BY <1>12 DEF StatusRoutes
<1>13. CASE name = "stop"                 BY <1>13 DEF StopRoutes
<1>14. CASE name = "stop_run"             BY <1>14 DEF StopRoutes
<1>15. CASE name = "result"               BY <1>15 DEF ResultRoutes
<1>16. CASE name = "result_of_run"        BY <1>16 DEF ResultRoutes
<1>17. CASE name = "input"                BY <1>17 DEF InputRoutes
<1>18. CASE name = "input_of_run"         BY <1>18 DEF InputRoutes
<1>19. CASE name = "trace_log"            BY <1>19 DEF TraceLogRoutes
<1>20. CASE name = "trace_log_of_run"     BY <1>20 DEF TraceLogRoutes
<1> HIDE DEF InOrder, Routes, Route, NamedErrorStatuses, NoWorkflow
<1> QED
  BY <1>0, <1>1, <1>2, <1>3, <1>4, <1>5, <1>6, <1>7, <1>8, <1>9, <1>10, <1>11, <1>12, <1>13, <1>14,
     <1>15, <1>16, <1>17, <1>18, <1>19, <1>20

LEMMA StatusesOfErrors ==
  /\ \A e \in DOMAIN NamedErrorStatuses :
       /\ NamedErrorStatuses[e] \in 400 .. 503 /\ NamedErrorStatuses[e] # 500
       /\ NamedErrorStatuses[e] = 503 <=> e = "CatalogNotAvailableError"
  /\ \A c \in DOMAIN GrpcStatusHttp : \/ c = "INVALID_ARGUMENT" /\ GrpcStatusHttp[c] = 400
                                      \/ c = "FAILED_PRECONDITION" /\ GrpcStatusHttp[c] = 409
  /\ "INVALID_ARGUMENT" \in DOMAIN GrpcStatusHttp
  /\ "CatalogNotAvailableError" \in DOMAIN NamedErrorStatuses
BY DEF NamedErrorStatuses, GrpcStatusHttp

(* What the server refused with is found, however it is wrapped. *)
LEMMA RefusalIsFound ==
  ASSUME NEW chain, Len(chain) \in Nat, DOMAIN chain = 1 .. Len(chain)
  PROVE  LET refusals == {i \in DOMAIN chain : chain[i].grpc \in DOMAIN GrpcStatusHttp} IN
         /\ refusals = {} => GrpcHttpStatus(chain) = 0
         /\ refusals # {} => \E i \in refusals : GrpcHttpStatus(chain) = GrpcStatusHttp[chain[i].grpc]
<1> DEFINE refusals == {i \in DOMAIN chain : chain[i].grpc \in DOMAIN GrpcStatusHttp}
<1>1. GrpcHttpStatus(chain) =
        IF refusals = {} THEN 0 ELSE GrpcStatusHttp[chain[Min(refusals)].grpc]
  BY DEF GrpcHttpStatus
<1>2. refusals # {} => Min(refusals) \in refusals
  <2>1. refusals \in SUBSET Nat
    OBVIOUS
  <2> HIDE DEF refusals
  <2> QED BY <2>1, FirstPosition
<1> QED BY <1>1, <1>2

(* An answer that can still be given has the status of the error. *)
LEMMA HandlerAnswers ==
  ASSUME NEW chain, NEW headersSent, ~headersSent
  PROVE  LET answer == ErrorHandler(chain, headersSent)
             status == StatusOf(chain) IN
         /\ answer.answered = TRUE /\ answer.status = status
         /\ answer.retryAfter <=> status = 503 /\ Head(chain).class = "CatalogNotAvailableError"
         /\ answer.logged <=> status = 500
<1> DEFINE answer == ErrorHandler(chain, headersSent)
           status == StatusOf(chain)
           class == Head(chain).class
<1>1. answer = [answered |-> TRUE, status |-> status,
                retryAfter |-> status = 503 /\ class = "CatalogNotAvailableError",
                logged |-> status = 500]
  BY DEF ErrorHandler
<1> HIDE DEF answer, status, class
<1>2. answer.answered = TRUE /\ answer.status = status
  BY <1>1
<1>3. answer.retryAfter <=> status = 503 /\ class = "CatalogNotAvailableError"
  BY <1>1
<1>4. answer.logged <=> status = 500
  BY <1>1
<1> QED BY <1>2, <1>3, <1>4, Zenon DEF answer, status, class

LEMMA RouteFailureIsTold ==
  ASSUME NEW f, f.of = "route", IsRouteFailure(f)
  PROVE  AnswersTellTheFailure(f, ErrorHandler(f.error, f.headersSent))
<1> DEFINE chain == f.error
           outer == Head(chain)
           links == {chain[i] : i \in DOMAIN chain}
           status == StatusOf(chain)
           answer == ErrorHandler(chain, f.headersSent)
           documented == Routes[f.route].documented
           thrown == Routes[f.route].thrown
           named == DOMAIN NamedErrorStatuses
           refusals == Refusals(chain)
<1>1. /\ Len(chain) \in Nat /\ DOMAIN chain = 1 .. Len(chain)
      /\ f.route \in DOMAIN Routes
  BY DEF IsRouteFailure
<1>2. \/ outer.class \in thrown /\ outer.http = 0 /\ refusals = {}
      \/ /\ outer.class \notin thrown \cup named
         /\ outer.http = 0 \/ (outer.http \in ParserStatuses /\ refusals = {})
  BY DEF IsRouteFailure
<1>3. 500 \in documented /\ \A e \in thrown \cap named : NamedErrorStatuses[e] \in documented
  BY <1>1, RoutesDocument
<1>4. status = IF outer.class \in named THEN NamedErrorStatuses[outer.class]
               ELSE IF GrpcHttpStatus(chain) # 0 THEN GrpcHttpStatus(chain)
               ELSE IF outer.http # 0 THEN outer.http ELSE 500
  BY DEF StatusOf
<1>5. ASSUME ~f.headersSent
       PROVE  /\ answer.answered = TRUE /\ answer.status = status
              /\ answer.retryAfter <=> status = 503 /\ outer.class = "CatalogNotAvailableError"
              /\ answer.logged <=> status = 500
  BY <1>5, HandlerAnswers, Zenon
<1>6. SUFFICES ~f.headersSent =>
                 /\ refusals = {} /\ outer.http = 0 => status \in documented
                 /\ refusals = {} /\ outer.http # 0 => status = outer.http
                 /\ refusals # {} => \E i \in refusals : status = GrpcStatusHttp[chain[i].grpc]
                 /\ status = 500 <=> outer.class \notin named /\ outer.http = 0 /\ refusals = {}
                 /\ status = 503 => outer.class = "CatalogNotAvailableError"
  <2>1. CASE f.headersSent
    <3>1. answer.answered = FALSE /\ answer.logged = TRUE
      BY <2>1 DEF ErrorHandler
    <3> HIDE DEF answer
    <3>2. AnswersTellTheFailure(f, answer)
      BY <2>1, <3>1 DEF AnswersTellTheFailure
    <3> QED BY <3>2 DEF answer
  <2>2. CASE ~f.headersSent
    <3> HIDE DEF answer, status
    <3>1. /\ answer.answered = TRUE /\ answer.status = status
          /\ answer.retryAfter <=> status = 503 /\ outer.class = "CatalogNotAvailableError"
          /\ answer.logged <=> status = 500
      BY <1>5, <2>2
    <3>2. AnswersTellTheFailure(f, answer)
      BY <1>6, <2>2, <3>1 DEF AnswersTellTheFailure
    <3> QED BY <3>2 DEF answer
  <2> QED BY <2>1, <2>2
<1>7. /\ refusals = {} => GrpcHttpStatus(chain) = 0
      /\ refusals # {} => \E i \in refusals : GrpcHttpStatus(chain) = GrpcStatusHttp[chain[i].grpc]
  BY <1>1, RefusalIsFound DEF Refusals
<1>8. \A i \in refusals : chain[i].grpc \in DOMAIN GrpcStatusHttp
  BY DEF Refusals
<1> HIDE DEF status, outer, documented, thrown, named, chain, refusals
<1>9. CASE refusals = {}
  <2>1. CASE outer.class \in named
    <3>1. status = NamedErrorStatuses[outer.class] /\ outer.class \in thrown /\ outer.http = 0
      BY <1>2, <1>4, <2>1
    <3> QED BY <1>3, <1>9, <2>1, <3>1, StatusesOfErrors DEF named
  <2>2. CASE outer.class \notin named
    <3>1. status = IF outer.http # 0 THEN outer.http ELSE 500
      BY <1>4, <1>7, <1>9, <2>2
    <3>2. outer.http = 0 \/ outer.http \in ParserStatuses
      BY <1>2
    <3> QED BY <1>3, <1>9, <2>2, <3>1, <3>2 DEF ParserStatuses
  <2> QED BY <2>1, <2>2
<1>10. CASE refusals # {}
  <2>1. outer.class \notin named
    BY <1>2, <1>10
  <2>2. PICK i \in refusals : GrpcHttpStatus(chain) = GrpcStatusHttp[chain[i].grpc]
    BY <1>7, <1>10
  <2>3. GrpcStatusHttp[chain[i].grpc] = 400 \/ GrpcStatusHttp[chain[i].grpc] = 409
    BY <1>8, StatusesOfErrors
  <2>4. status = GrpcStatusHttp[chain[i].grpc]
    BY <1>4, <2>1, <2>2, <2>3
  <2> QED BY <1>10, <2>3, <2>4
<1> QED BY <1>9, <1>10

(* The first link that says something, in a chain whose links say one thing or nothing. *)
LEMMA FirstToSay ==
  ASSUME NEW chain, Len(chain) \in Nat, DOMAIN chain = 1 .. Len(chain), NEW field, NEW word,
         \A i \in DOMAIN chain : chain[i][field] \in {Nothing, word}
  PROVE  FirstOf(chain, field) =
           IF \E i \in DOMAIN chain : chain[i][field] = word THEN word ELSE Nothing
<1> DEFINE saying == {i \in DOMAIN chain : chain[i][field] # Nothing}
<1>1. saying # {} => Min(saying) \in saying
  <2>1. saying \in SUBSET Nat
    OBVIOUS
  <2> HIDE DEF saying
  <2> QED BY <2>1, FirstPosition
<1>2. FirstOf(chain, field) = IF saying = {} THEN Nothing ELSE chain[Min(saying)][field]
  BY DEF FirstOf
<1> QED BY <1>1, <1>2

(* The API looks at all of a chain that is no longer than the depth it looks to. *)
LEMMA AllOfTheChain ==
  ASSUME NEW chain, NEW depth \in Nat, Len(chain) \in 1 .. depth
  PROVE  /\ Len(Upto(chain, depth)) = Len(chain)
         /\ DOMAIN Upto(chain, depth) = 1 .. Len(chain)
         /\ \A i \in 1 .. Len(chain) : Upto(chain, depth)[i] = chain[i]
<1>1. Min({depth, Len(chain)}) = Len(chain)
  <2>1. {depth, Len(chain)} \in SUBSET Nat
    OBVIOUS
  <2>2. /\ Min({depth, Len(chain)}) \in {depth, Len(chain)}
        /\ \A i \in {depth, Len(chain)} : Min({depth, Len(chain)}) <= i
    BY <2>1, FirstPosition
  <2> QED BY <2>2
<1>2. Upto(chain, depth) = [i \in 1 .. Len(chain) |-> chain[i]]
  BY <1>1 DEF Upto
<1> QED BY <1>2

(* What the SDK embedded and the step that failed are the same wherever they are told, and
   the innermost type is the deepest that is not Temporal's. *)
LEMMA WorkflowFailureIsTold ==
  ASSUME NEW f, f.of = "workflow", IsWorkflowFailure(f)
  PROVE  AnswersTellTheFailure(f, ResultOfFailure(f.error, f.payloadVersion))
<1> DEFINE depth == Len(f.error)
           looked == IF f.payloadVersion = 2 THEN 10 ELSE 20
           chain == Upto(f.error, looked)
           answer == ResultOfFailure(f.error, f.payloadVersion)
<1>1. /\ f.payloadVersion \in {1, 2} /\ depth \in 1 .. looked
      /\ f.thrown # Nothing /\ f.thrown \notin TemporalFailureTypes
      /\ \E i \in 1 .. depth : f.error[i].activity = f.step
  BY DEF IsWorkflowFailure
<1>2. Len(chain) = depth /\ DOMAIN chain = 1 .. depth /\ depth \in Nat \ {0}
  BY <1>1, AllOfTheChain
<1>3. \A i \in 1 .. depth : chain[i] = f.error[i]
  BY <1>1, AllOfTheChain
<1>4. /\ chain[depth].type = f.thrown
      /\ \A i \in 1 .. depth - 1 : chain[i].type \in TemporalFailureTypes \cup {Nothing}
      /\ \A i \in 1 .. depth : /\ chain[i].embedded \in {Nothing, f.thrown}
                               /\ chain[i].activity \in {Nothing, f.step}
      /\ \E i \in 1 .. depth : chain[i].activity = f.step
  BY <1>2, <1>3 DEF IsWorkflowFailure
<1> HIDE DEF depth, looked
<1>5. FirstOf(chain, "activity") = f.step
  <2>1. \A i \in DOMAIN chain : chain[i]["activity"] \in {Nothing, f.step}
    BY <1>2, <1>4
  <2>2. \E i \in DOMAIN chain : chain[i]["activity"] = f.step
    BY <1>2, <1>4
  <2> HIDE DEF chain
  <2>3. FirstOf(chain, "activity") =
          IF \E i \in DOMAIN chain : chain[i]["activity"] = f.step THEN f.step ELSE Nothing
    BY <1>2, <2>1, FirstToSay
  <2> QED BY <2>2, <2>3
<1>6. CASE f.payloadVersion = 2
  <2>1. /\ answer.activity = FirstOf(chain, "activity")
        /\ answer.name = IF FirstOf(chain, "embedded") # Nothing THEN FirstOf(chain, "embedded")
                       ELSE IF Last(chain).type # Nothing THEN Last(chain).type
                       ELSE Last(chain).class
    BY <1>6 DEF ResultOfFailure, SerializeError, looked
  <2>2. FirstOf(chain, "embedded") \in {Nothing, f.thrown}
    <3>1. \A i \in DOMAIN chain : chain[i]["embedded"] \in {Nothing, f.thrown}
      BY <1>2, <1>4
    <3> HIDE DEF chain
    <3> QED BY <1>2, <3>1, FirstToSay
  <2>3. Last(chain) = chain[depth]
    BY <1>2 DEF Last
  <2> HIDE DEF chain, answer
  <2>4. answer.name = f.thrown /\ answer.activity = f.step
    BY <1>1, <1>4, <1>5, <2>1, <2>2, <2>3
  <2>5. AnswersTellTheFailure(f, answer)
    BY <2>4 DEF AnswersTellTheFailure
  <2> QED BY <2>5 DEF answer
<1>7. CASE f.payloadVersion = 1
  <2> DEFINE typed == {i \in DOMAIN chain : chain[i].type # Nothing}
             users == {i \in typed : chain[i].type \notin TemporalFailureTypes}
  <2>1. /\ answer.activity = FirstOf(chain, "activity")
        /\ users # {} => answer.name = chain[Max(users)].type
    BY <1>7 DEF ResultOfFailure, ExtractFailure, looked
  <2>2. users = {depth}
    <3> HIDE DEF chain
    <3> QED BY <1>1, <1>2, <1>4
  <2>3. Max(users) = depth
    <3>1. {depth} \in SUBSET (1 .. depth)
      BY <1>2
    <3> QED BY <1>2, <2>2, <3>1, LastPosition
  <2> HIDE DEF chain, answer, users
  <2>4. answer.name = f.thrown /\ answer.activity = f.step
    BY <1>4, <1>5, <2>1, <2>2, <2>3
  <2>5. AnswersTellTheFailure(f, answer)
    BY <2>4 DEF AnswersTellTheFailure
  <2> QED BY <2>5 DEF answer
<1> QED BY <1>1, <1>6, <1>7

(* The API tells of every failure what it was: a route answers what it threw, and what the
   server refused, with a status it documents, and a failed workflow is told by the error
   its step threw, however deep Temporal wrapped it
   (api/src/middleware/error_handler.js, utils.js). *)
THEOREM FailuresAreAnswered == Spec => []FailuresAreTold
<1>1. AnswersAsComputed => FailuresAreTold
  <2> SUFFICES ASSUME AnswersAsComputed, Told("fail")
               PROVE  AnswersTellTheFailure(given.input, told[1])
    BY DEF FailuresAreTold
  <2>1. given.input \in Failures
    BY DEF AnswersAsComputed, Told
  <2>2. told[1] = IF given.input.of = "route"
                  THEN ErrorHandler(given.input.error, given.input.headersSent)
                  ELSE ResultOfFailure(given.input.error, given.input.payloadVersion)
    BY DEF AnswersAsComputed, Told
  <2>3. CASE given.input.of = "route" /\ IsRouteFailure(given.input)
    BY <2>2, <2>3, RouteFailureIsTold
  <2>4. CASE given.input.of = "workflow" /\ IsWorkflowFailure(given.input)
    BY <2>2, <2>4, WorkflowFailureIsTold
  <2> QED BY <2>1, <2>3, <2>4, FailuresAssumption DEF IsFailure
<1> QED BY <1>1, AlwaysComputed, PTL

-----------------------------------------------------------------------------
(* The picture of a run. *)

(* The events of a history that are about an activity or a child. *)
EndTypes == ActivityTerminalTypes \cup ChildTerminalTypes

(* What every history gives: its length, times and openers. *)
LEMMA TimelineSays ==
  ASSUME NEW h, IsTimeline(h)
  PROVE  /\ Len(h.events) \in Nat \ {0} /\ DOMAIN h.events = 1 .. Len(h.events)
         /\ \A i \in 1 .. Len(h.events) : h.events[i].time \in Int
         /\ Openers(h.events) \in SUBSET (1 .. Len(h.events))
         /\ \A i \in Openers(h.events) : h.events[i].type \in OpenerTypes
BY DEF IsTimeline, Openers

(* A span starts and ends, in this order. *)
LEMMA SpanOfOpener ==
  ASSUME NEW h, IsTimeline(h), NEW origin \in Int, NEW i \in Openers(h.events)
  PROVE  LET span == BuildSpan(h.events, i, origin) IN
         /\ span.start \in Int /\ span.end \in Int /\ span.start <= span.end
         /\ span.name = h.events[i].name
         /\ span.status = LastWordOn(h.events, i)
<1> DEFINE events == h.events
           n == Len(events)
           terminal == Attached(events, i, EndTypes)
           started == Attached(events, i, StartedTypes)
           from == IF events[i].type = "scheduled" /\ started # {}
                   THEN events[Max(started)].time ELSE events[i].time
           to == IF terminal # {} THEN events[Max(terminal)].time ELSE from
           about == {j \in DOMAIN events : events[j].ref = i /\ events[j].type # "other"}
           span == BuildSpan(events, i, origin)
<1>1. n \in Nat \ {0} /\ DOMAIN events = 1 .. n /\ i \in 1 .. n
  BY TimelineSays
<1>2. /\ span.opener = i /\ span.start = from - origin /\ span.end = to - origin
      /\ span.name = events[i].name /\ span.status = StatusFor(events, i)
  BY DEF BuildSpan, EndTypes
<1>3. /\ \A j \in terminal : /\ j \in 1 .. n /\ events[j].ref = i /\ events[j].type \in EndTypes
      /\ \A j \in started : /\ j \in 1 .. n /\ events[j].ref = i /\ events[j].type \in StartedTypes
      /\ \A j \in 1 .. n : events[j].type \in EndTypes /\ events[j].ref = i => j \in terminal
      /\ \A j \in 1 .. n : events[j].type \in StartedTypes /\ events[j].ref = i => j \in started
  BY <1>1 DEF Attached
<1>4. /\ \A j \in 1 .. n : /\ events[j].time \in Int
                           /\ events[j].type \in OpenerTypes \cup StartedTypes \cup EndTypes \cup {"other"}
                           /\ events[j].type \in OpenerTypes => events[j].ref = 0
                           /\ events[j].type \in StartedTypes \cup EndTypes =>
                                events[events[j].ref].time <= events[j].time
      /\ \A j, k \in 1 .. n : events[j].type \in StartedTypes \cup EndTypes /\ events[k].type \in EndTypes
                               /\ events[j].ref = events[k].ref
                               => j <= k /\ events[j].time <= events[k].time
  BY <1>1 DEF IsTimeline, EndTypes
<1>5. /\ terminal # {} => Max(terminal) \in terminal
      /\ started # {} => Max(started) \in started
  <2>1. terminal \in SUBSET (1 .. n) /\ started \in SUBSET (1 .. n)
    BY <1>3
  <2> HIDE DEF terminal, started
  <2> QED BY <1>1, <2>1, LastPosition
<1>6. about = terminal \cup started
  <2>1. "other" \notin StartedTypes \cup EndTypes \cup OpenerTypes
    BY DEF StartedTypes, EndTypes, OpenerTypes, ActivityTerminalTypes, ChildTerminalTypes
  <2>2. ASSUME NEW j \in about PROVE j \in terminal \cup started
    <3>1. j \in 1 .. n /\ events[j].ref = i /\ events[j].type # "other"
      BY <1>1
    <3>2. events[j].type \notin OpenerTypes
      BY <1>1, <1>4, <3>1
    <3> HIDE DEF about, terminal, started
    <3> QED BY <1>3, <1>4, <3>1, <3>2
  <2>3. ASSUME NEW j \in terminal \cup started PROVE j \in about
    <3> HIDE DEF terminal, started
    <3>1. j \in 1 .. n /\ events[j].ref = i /\ events[j].type # "other"
      BY <1>3, <2>1
    <3> QED BY <1>1, <3>1
  <2> HIDE DEF about, terminal, started
  <2> QED BY <2>2, <2>3
<1>7. about # {} => Max(about) \in about /\ \A j \in about : j <= Max(about)
  <2>1. about \in SUBSET (1 .. n)
    BY <1>1
  <2> HIDE DEF about
  <2> QED BY <1>1, <2>1, LastPosition
<1>8. /\ StatusFor(events, i) =
           IF terminal # {}
           THEN IF events[Max(terminal)].type \in {"completed", "child_completed"}
                THEN "completed" ELSE "failed"
           ELSE IF started # {} THEN "running" ELSE "pending"
      /\ LastWordOn(events, i) =
           IF about = {} THEN "pending"
           ELSE CASE events[Max(about)].type \in StartedTypes -> "running"
                  [] events[Max(about)].type \in {"completed", "child_completed"} -> "completed"
                  [] OTHER -> "failed"
  BY DEF StatusFor, LastWordOn, EndTypes
<1> HIDE DEF about, terminal, started, span
<1>9. StatusFor(events, i) = LastWordOn(events, i)
  <2>1. StartedTypes \cap EndTypes = {} /\ StartedTypes \cap {"completed", "child_completed"} = {}
    BY DEF StartedTypes, EndTypes, ActivityTerminalTypes, ChildTerminalTypes
  <2>2. CASE terminal # {}
    <3>1. Max(about) = Max(terminal)
      <4>1. Max(terminal) <= Max(about) /\ Max(about) \in about
        BY <1>5, <1>6, <1>7, <2>2
      <4>2. Max(about) <= Max(terminal)
        BY <1>3, <1>4, <1>5, <1>6, <2>2, <4>1
      <4> QED BY <1>3, <1>5, <1>6, <2>2, <4>1, <4>2
    <3>2. events[Max(about)].type \notin StartedTypes
      BY <1>3, <1>5, <2>1, <2>2, <3>1
    <3> QED BY <1>6, <1>8, <2>2, <3>1, <3>2
  <2>3. CASE terminal = {} /\ started # {}
    <3>1. events[Max(about)].type \in StartedTypes /\ about # {}
      BY <1>3, <1>6, <1>7, <2>3
    <3>2. events[Max(about)].type \notin {"completed", "child_completed"}
      BY <2>1, <3>1
    <3>3. LastWordOn(events, i) = "running"
      <4>1. LastWordOn(events, i) =
              CASE events[Max(about)].type \in StartedTypes -> "running"
                [] events[Max(about)].type \in {"completed", "child_completed"} -> "completed"
                [] OTHER -> "failed"
        BY <1>8, <3>1
      <4> QED BY <3>1, <3>2, <4>1
    <3>4. StatusFor(events, i) = "running"
      BY <1>8, <2>3
    <3> QED BY <3>3, <3>4
  <2>4. CASE terminal = {} /\ started = {}
    BY <1>6, <1>8, <2>4
  <2> QED BY <2>2, <2>3, <2>4
<1>10. from \in Int /\ to \in Int /\ from <= to
  <2>1. from \in Int
    BY <1>1, <1>3, <1>4, <1>5
  <2>2. CASE terminal = {}
    BY <2>1, <2>2
  <2>3. CASE terminal # {}
    <3>1. /\ Max(terminal) \in 1 .. n /\ events[Max(terminal)].ref = i
          /\ events[Max(terminal)].type \in EndTypes
      BY <1>3, <1>5, <2>3
    <3>2. events[i].time <= events[Max(terminal)].time
      BY <1>4, <3>1
    <3>3. started # {} => events[Max(started)].time <= events[Max(terminal)].time
      BY <1>3, <1>4, <1>5, <3>1
    <3>4. to = events[Max(terminal)].time /\ to \in Int
      BY <1>4, <2>3, <3>1
    <3> QED BY <2>1, <3>2, <3>3, <3>4
  <2> QED BY <2>2, <2>3
<1> HIDE DEF from, to
<1>11. span.start \in Int /\ span.end \in Int /\ span.start <= span.end
  BY <1>2, <1>10
<1> QED BY <1>2, <1>9, <1>11 DEF span

(* The opener of the k-th row. *)
RowOf(events, origin, k) ==
  CHOOSE i \in Openers(events) : Cardinality(Ahead(events, origin, i)) + 1 = k

(* There is a row for each opener, and rows are in the order of their starts. *)
LEMMA OneRowForEachOpener ==
  ASSUME NEW h, IsTimeline(h), NEW origin \in Int
  PROVE  LET openers == Openers(h.events)
             row(k) == RowOf(h.events, origin, k)
             start(i) == BuildSpan(h.events, i, origin).start
             rows == 1 .. Cardinality(openers) IN
         /\ Cardinality(openers) \in Nat
         /\ \A k \in rows : row(k) \in openers
         /\ \A i \in openers : \E k \in rows : row(k) = i
         /\ \A j, k \in rows : j < k => row(j) # row(k) /\ start(row(j)) <= start(row(k))
<1> DEFINE S == Openers(h.events)
           n == Cardinality(S)
           A(i) == Ahead(h.events, origin, i)
           start(i) == BuildSpan(h.events, i, origin).start
           rank(i) == Rank(h.events, i)
           before(j, i) == start(j) < start(i) \/ (start(j) = start(i) /\ rank(j) < rank(i))
           place == [i \in S |-> Cardinality(A(i)) + 1]
           row(k) == RowOf(h.events, origin, k)
<1>1. IsFiniteSet(S) /\ n \in Nat
  <2>1. S \in SUBSET (1 .. Len(h.events)) /\ Len(h.events) \in Nat
    BY TimelineSays
  <2>2. IsFiniteSet(1 .. Len(h.events))
    BY <2>1, FS_Interval
  <2> QED BY <2>1, <2>2, FS_Subset, FS_CardinalityType
<1>2. \A i \in S : A(i) = {j \in S : before(j, i)}
  BY DEF Ahead
<1>3. \A i \in S : start(i) \in Int
  BY SpanOfOpener
<1>4. /\ \A i \in S : rank(i) \in Int
      /\ \A i, j \in S : rank(i) = rank(j) => i = j
  <2>1. \A i \in S : i \in 1 .. Len(h.events) /\ Len(h.events) \in Nat
    BY TimelineSays
  <2> HIDE DEF S
  <2> QED BY <2>1 DEF Rank
<1> HIDE DEF S, A, start, rank
<1>5. ASSUME NEW i \in S
      PROVE  IsFiniteSet(A(i)) /\ Cardinality(A(i)) \in Nat /\ place[i] \in 1 .. n
  <2>1. A(i) \subseteq S \ {i}
    BY <1>2, <1>3, <1>4
  <2>2. IsFiniteSet(S \ {i}) /\ Cardinality(S \ {i}) = n - 1
    BY <1>1, FS_RemoveElement
  <2>3. IsFiniteSet(A(i)) /\ Cardinality(A(i)) <= n - 1
    BY <2>1, <2>2, FS_Subset
  <2>4. Cardinality(A(i)) \in Nat
    BY <2>3, FS_CardinalityType
  <2> QED BY <1>1, <2>3, <2>4
<1>6. ASSUME NEW j \in S, NEW i \in S, before(j, i) PROVE place[j] < place[i]
  <2>1. A(j) \subseteq A(i) \ {j} /\ j \in A(i)
    BY <1>2, <1>3, <1>4, <1>6
  <2>2. IsFiniteSet(A(i) \ {j}) /\ Cardinality(A(i) \ {j}) = Cardinality(A(i)) - 1
    BY <1>5, <2>1, FS_RemoveElement
  <2>3. Cardinality(A(j)) <= Cardinality(A(i)) - 1
    BY <2>1, <2>2, FS_Subset
  <2> QED BY <1>5, <2>3
<1>7. \A i, j \in S : i # j => before(i, j) \/ before(j, i)
  BY <1>3, <1>4
<1>8. \A i, j \in S : place[i] \in Int /\ (place[i] = place[j] => i = j)
  BY <1>1, <1>5, <1>6, <1>7
<1>9. place \in Surjection(S, 1 .. n)
  <2>1. place \in Injection(S, 1 .. n)
    BY <1>5, <1>8 DEF Injection, IsInjective
  <2>2. IsFiniteSet(1 .. n) /\ Cardinality(1 .. n) = n
    BY <1>1, FS_Interval
  <2> QED BY <1>1, <2>1, <2>2, FS_Injection
<1>10. ASSUME NEW k \in 1 .. n PROVE row(k) \in S /\ place[row(k)] = k
  <2>1. PICK i \in S : place[i] = k
    BY <1>9 DEF Surjection
  <2>2. row(k) = CHOOSE x \in S : place[x] = k
    BY DEF RowOf, A, S
  <2> QED BY <2>1, <2>2
<1> HIDE DEF row, place
<1>11. \A i \in S : \E k \in 1 .. n : row(k) = i
  BY <1>5, <1>8, <1>10
<1>12. ASSUME NEW j \in 1 .. n, NEW k \in 1 .. n, j < k
       PROVE  row(j) # row(k) /\ start(row(j)) <= start(row(k))
  <2>1. /\ row(j) \in S /\ place[row(j)] = j
        /\ row(k) \in S /\ place[row(k)] = k
    BY <1>10
  <2>2. row(j) # row(k)
    BY <1>12, <2>1
  <2>3. ~before(row(k), row(j))
    <3>1. SUFFICES ASSUME before(row(k), row(j)) PROVE FALSE
      OBVIOUS
    <3>2. place[row(k)] < place[row(j)]
      BY <1>6, <2>1, <3>1
    <3> QED BY <1>12, <2>1, <3>2
  <2>4. start(row(j)) \in Int /\ start(row(k)) \in Int
    BY <1>3, <2>1
  <2> QED BY <2>2, <2>3, <2>4
<1> QED BY <1>1, <1>10, <1>11, <1>12 DEF S, start, row

(* Arithmetic of the layout: quotients and rounded quotients keep an order, and what is
   clamped is within its bounds. *)
LEMMA Quotient ==
  ASSUME NEW a \in Int, NEW b \in Nat \ {0}
  PROVE  /\ a \div b \in Int
         /\ b * (a \div b) <= a /\ a < b * (a \div b) + b
OBVIOUS

LEMMA QuotientGrows ==
  ASSUME NEW a \in Int, NEW c \in Int, NEW b \in Nat \ {0}, a <= c
  PROVE  a \div b <= c \div b
<1> DEFINE p == a \div b
           q == c \div b
<1>1. p \in Int /\ q \in Int /\ b * p <= a /\ c < b * q + b
  BY Quotient
<1> HIDE DEF p, q
<1>2. b * p < b * (q + 1)
  BY <1>1
<1>3. ASSUME q + 1 <= p PROVE FALSE
  <2>1. PICK d \in Nat : p = (q + 1) + d
    BY <1>1, <1>3
  <2>2. b * p = b * (q + 1) + b * d /\ b * d \in Nat
    BY <1>1, <2>1
  <2> QED BY <1>1, <1>2, <2>2
<1>4. p <= q
  BY <1>1, <1>3
<1> QED BY <1>4 DEF p, q

LEMMA RoundedGrows ==
  ASSUME NEW a \in Int, NEW c \in Int, NEW b \in Nat \ {0}, a <= c
  PROVE  Rounded(a, b) \in Int /\ Rounded(a, b) <= Rounded(c, b)
BY Quotient, QuotientGrows DEF Rounded

LEMMA LesserOfTwo ==
  ASSUME NEW a \in Int, NEW b \in Int
  PROVE  Min({a, b}) = IF a <= b THEN a ELSE b
BY DEF Min

LEMMA GreaterOfTwo ==
  ASSUME NEW a \in Int, NEW b \in Int
  PROVE  Max({a, b}) = IF a <= b THEN b ELSE a
BY DEF Max

LEMMA Clamped ==
  ASSUME NEW v \in Int, NEW low \in Int, NEW high \in Int
  PROVE  Clamp(v, low, high) = IF v <= low THEN IF low <= high THEN low ELSE high
                               ELSE IF v <= high THEN v ELSE high
<1>1. Max({v, low}) = IF v <= low THEN low ELSE v
  BY GreaterOfTwo
<1>2. Max({v, low}) \in Int
  BY <1>1
<1>3. Min({Max({v, low}), high}) = IF Max({v, low}) <= high THEN Max({v, low}) ELSE high
  BY <1>2, LesserOfTwo
<1> QED BY <1>1, <1>3 DEF Clamp

(* A clamped number is below what it was only at the upper bound. *)
LEMMA ClampedBelow ==
  ASSUME NEW v \in Int, NEW low \in Int, NEW high \in Int
  PROVE  Clamp(v, low, high) \in Int /\ (Clamp(v, low, high) < v => high <= Clamp(v, low, high))
BY Clamped

(* A bar is inside its lane, and ends where the next may begin. *)
LEMMA BarInLane ==
  ASSUME NEW span, span.start \in Int, span.end \in Int, NEW total \in Nat \ {0}, NEW track \in Nat \ {0}
  PROVE  LET bar == ComputeBar(span, total, track) IN
         /\ bar.from \in 0 .. track - 1 /\ bar.length \in Nat \ {0}
         /\ bar.from + bar.length <= track
         /\ bar.from < track - 1 => Rounded(span.start * track, total) <= bar.from
         /\ ~bar.instant => bar.from + bar.length <= Rounded(span.end * track, total)
<1> DEFINE first == Rounded(span.start * track, total)
           last == Rounded(span.end * track, total)
           from == Clamp(first, 0, track - 1)
           to == Clamp(last, from, track)
           bar == ComputeBar(span, total, track)
<1>1. first \in Int /\ last \in Int
  <2>1. span.start * track \in Int /\ span.end * track \in Int
    OBVIOUS
  <2>2. \A a \in Int : Rounded(a, total) \in Int
    BY Quotient DEF Rounded
  <2> QED BY <2>1, <2>2
<1>2. /\ bar.from = from /\ bar.length = Min({Max({to - from, 1}), track - from})
      /\ bar.instant = (to - from <= 0)
  BY DEF ComputeBar
<1> HIDE DEF first, last, bar
<1>3. from \in 0 .. track - 1 /\ (from < track - 1 => first <= from)
  <2>1. from = IF first <= 0 THEN IF 0 <= track - 1 THEN 0 ELSE track - 1
               ELSE IF first <= track - 1 THEN first ELSE track - 1
    BY <1>1, Clamped
  <2> QED BY <1>1, <2>1
<1> HIDE DEF from
<1>4. to \in from .. track /\ (to > from => to <= last)
  <2>1. to = IF last <= from THEN IF from <= track THEN from ELSE track
             ELSE IF last <= track THEN last ELSE track
    BY <1>1, <1>3, Clamped
  <2> QED BY <1>1, <1>3, <2>1
<1> HIDE DEF to
<1>5. to - from \in Int /\ track - from \in Int
  BY <1>3, <1>4
<1>6. Max({to - from, 1}) = IF to - from <= 1 THEN 1 ELSE to - from
  BY <1>5, GreaterOfTwo
<1>7. Max({to - from, 1}) \in Int
  BY <1>5, <1>6
<1>8. bar.length = IF Max({to - from, 1}) <= track - from THEN Max({to - from, 1}) ELSE track - from
  BY <1>2, <1>5, <1>7, LesserOfTwo
<1>9. bar.length = IF to - from <= 1 THEN 1 ELSE to - from
  <2>1. CASE to - from <= 1
    BY <1>3, <1>4, <1>6, <1>8, <2>1
  <2>2. CASE ~(to - from <= 1)
    BY <1>3, <1>4, <1>6, <1>8, <2>2
  <2> QED BY <2>1, <2>2
<1>10. /\ bar.from \in 0 .. track - 1 /\ bar.length \in Nat \ {0}
       /\ bar.from + bar.length <= track
       /\ bar.from < track - 1 => first <= bar.from
  BY <1>1, <1>2, <1>3, <1>4, <1>9
<1>11. ASSUME ~bar.instant PROVE bar.from + bar.length <= last
  <2>1. ~(to - from <= 0)
    BY <1>2, <1>11
  <2> QED BY <1>1, <1>2, <1>3, <1>4, <1>9, <2>1
<1> QED BY <1>10, <1>11 DEF first, last, bar

LEMMA DigitsAre ==
  ASSUME NEW n \in Int PROVE Digits(n) \in 1 .. 5 /\ (n < 60 => Digits(n) <= 2)
BY DEF Digits

(* The lengths of labels are small numbers. *)
LEMMA LengthOfLabel ==
  ASSUME NEW ms \in Int
  PROVE  LabelLength(ms) \in 1 .. 10
<1>1. \A n \in Int : Digits(n) \in 1 .. 5 /\ (n < 60 => Digits(n) <= 2)
  BY DigitsAre
<1>2. \A a \in Int : \A b \in Nat \ {0} : Rounded(a, b) \in Int
  BY Quotient DEF Rounded
<1>3. ClockLength(ms) \in 2 .. 10
  <2> DEFINE seconds == Rounded(ms, 1000)
             minutes == Rounded(ms, 60000)
             parted(n) == Digits(n \div 60) + 1 + (IF n % 60 = 0 THEN 0 ELSE Digits(n % 60) + 1)
  <2>1. seconds \in Int /\ minutes \in Int
    BY <1>2
  <2>2. \A n \in Int : n \div 60 \in Int /\ n % 60 \in Int /\ n % 60 < 60
    OBVIOUS
  <2>3. \A n \in Int : parted(n) \in 2 .. 10
    BY <1>1, <2>2
  <2>4. ClockLength(ms) = IF seconds < 60 THEN Digits(seconds) + 1
                          ELSE IF seconds < 3600 THEN parted(seconds) ELSE parted(minutes)
    BY DEF ClockLength
  <2> HIDE DEF seconds, minutes, parted
  <2> QED BY <1>1, <2>1, <2>3, <2>4
<1> QED BY <1>1, <1>3 DEF LabelLength

(* Of finitely many numbers one is the greatest. *)
LEMMA GreatestOf ==
  ASSUME NEW n \in Nat, NEW f, \A k \in 1 .. n : f[k] \in Int
  PROVE  LET S == {1} \cup {f[k] : k \in 1 .. n} IN
         Max(S) \in S /\ \A s \in S : s <= Max(S)
<1> DEFINE upTo(m) == {1} \cup {f[k] : k \in 1 .. m}
           has(m) == \E s \in upTo(m) : \A t \in upTo(m) : t <= s
           bad == {m \in 0 .. n : ~has(m)}
<1>1. \A m \in 0 .. n : upTo(m) \subseteq Int
  OBVIOUS
<1>2. has(0)
  <2>1. upTo(0) = {1}
    OBVIOUS
  <2> QED BY <2>1
<1>3. ASSUME NEW m \in 1 .. n, has(m - 1) PROVE has(m)
  <2>1. \A t : t \in upTo(m) <=> t \in upTo(m - 1) \/ t = f[m]
    OBVIOUS
  <2>2. m - 1 \in 0 .. n /\ f[m] \in Int
    OBVIOUS
  <2>3. PICK s \in upTo(m - 1) : \A t \in upTo(m - 1) : t <= s
    BY <1>3
  <2> HIDE DEF upTo
  <2>4. s \in Int /\ \A t \in upTo(m - 1) : t \in Int
    BY <1>1, <2>2
  <2>5. CASE f[m] <= s
    BY <2>1, <2>3, <2>5
  <2>6. CASE s < f[m]
    BY <2>1, <2>2, <2>3, <2>4, <2>6
  <2> QED BY <2>2, <2>4, <2>5, <2>6
<1> HIDE DEF has
<1>4. bad = {}
  <2> SUFFICES ASSUME bad # {} PROVE FALSE
    OBVIOUS
  <2>1. PICK b \in bad : \A m \in bad : b <= m
    <3>1. bad \in SUBSET Nat
      OBVIOUS
    <3> HIDE DEF bad
    <3> QED BY <3>1, FirstPosition
  <2>2. b \in 1 .. n /\ ~has(b)
    BY <1>2, <2>1
  <2>3. b - 1 \in 0 .. n /\ b - 1 \notin bad
    BY <2>1, <2>2
  <2>4. has(b - 1)
    BY <2>3
  <2> QED BY <1>3, <2>2, <2>4
<1>5. has(n)
  BY <1>4
<1>6. PICK s \in upTo(n) : \A t \in upTo(n) : t <= s
  BY <1>5 DEF has
<1> HIDE DEF upTo
<1>7. Max(upTo(n)) \in upTo(n) /\ \A t \in upTo(n) : t <= Max(upTo(n))
  <2>1. n \in 0 .. n /\ upTo(n) \subseteq Int
    BY <1>1
  <2> QED BY <1>6, <2>1 DEF Max
<1> QED BY <1>7 DEF upTo

(* The length of a sequence written as a function. *)
LEMMA LengthOf ==
  ASSUME NEW n \in Nat, NEW s, DOMAIN s = 1 .. n
  PROVE  Len(s) = n
OBVIOUS

(* The ticks are finitely many times. *)
LEMMA TicksAre ==
  ASSUME NEW total \in Nat \ {0}
  PROVE  /\ Len(BuildTicks(total)) \in Nat
         /\ \A k \in 1 .. Len(BuildTicks(total)) : BuildTicks(total)[k] \in Int
<1> DEFINE step == PickTickStep(total)
           count == total \div step + 1
<1>1. \A i \in DOMAIN TickSteps : TickSteps[i] \in Nat \ {0}
  BY DEF TickSteps
<1>2. step \in Nat \ {0}
  <2> DEFINE enough == {i \in DOMAIN TickSteps : TickSteps[i] * TargetTicks >= total}
  <2>1. Len(TickSteps) \in DOMAIN TickSteps /\ DOMAIN TickSteps \subseteq Nat
    BY DEF TickSteps
  <2>2. enough # {} => Min(enough) \in DOMAIN TickSteps
    <3>1. enough \in SUBSET Nat /\ enough \subseteq DOMAIN TickSteps
      BY <2>1
    <3> HIDE DEF enough
    <3> QED BY <3>1, FirstPosition
  <2>3. step = IF enough = {} THEN TickSteps[Len(TickSteps)] ELSE TickSteps[Min(enough)]
    BY DEF PickTickStep
  <2> HIDE DEF enough, step
  <2> QED BY <1>1, <2>1, <2>2, <2>3
<1>3. BuildTicks(total) = [i \in 1 .. count |-> (i - 1) * step]
  BY DEF BuildTicks
<1> HIDE DEF step
<1>4. count \in Nat
  <2>1. total \div step \in Int /\ step * (total \div step) <= total /\ total < step * (total \div step) + step
    BY <1>2, Quotient
  <2>2. ASSUME total \div step < 0 PROVE FALSE
    <3> DEFINE q == total \div step
    <3>1. q \in Int /\ q <= -1
      BY <2>1, <2>2
    <3>2. total < step * q + step
      BY <2>1
    <3> HIDE DEF q
    <3>3. step * q <= - step
      BY <1>2, <3>1
    <3> QED BY <1>2, <3>1, <3>2, <3>3
  <2> QED BY <2>1, <2>2
<1> HIDE DEF count
<1>5. Len(BuildTicks(total)) = count
  BY <1>3, <1>4, LengthOf
<1>6. \A k \in 1 .. count : (k - 1) * step \in Int
  BY <1>2, <1>4
<1> QED BY <1>3, <1>4, <1>5, <1>6

(* A label that is placed ends in the lane, and after a gap to the one before it. *)
KeepApart(done, track) ==
    /\ done \in Seq([start : Int, length : Int])
    /\ \A k \in 1 .. Len(done) :
         /\ done[k].start + done[k].length <= track
         /\ k > 1 => done[k - 1].start + done[k - 1].length < done[k].start

LEMMA PlacedApart ==
  ASSUME NEW track \in Int, NEW done, KeepApart(done, track),
         NEW start \in Int, NEW length \in Int, start + length <= track
  PROVE  KeepApart(Place(done, start, length), track)
<1> DEFINE until == IF done = <<>> THEN -1 ELSE Last(done).start + Last(done).length
           mark == [start |-> start, length |-> length]
           more == Append(done, mark)
<1>1. Place(done, start, length) = IF start <= until THEN done ELSE more
  BY DEF Place
<1>2. ASSUME ~(start <= until) PROVE KeepApart(more, track)
  <2>1. done \in Seq([start : Int, length : Int]) /\ mark \in [start : Int, length : Int]
    BY DEF KeepApart
  <2> DEFINE n == Len(done)
  <2>2. /\ n \in Nat /\ Len(more) = n + 1 /\ more \in Seq([start : Int, length : Int])
        /\ \A k \in 1 .. n : more[k] = done[k]
        /\ more[n + 1] = mark
    BY <2>1
  <2> HIDE DEF more, mark
  <2>3. ASSUME n > 0 PROVE done[n].start + done[n].length < start
    <3>1. done # <<>> /\ Last(done) = done[n] /\ done[n] \in [start : Int, length : Int]
      <4>1. Last(done) = done[n]
        BY DEF Last
      <4>2. n \in 1 .. Len(done) /\ done # <<>>
        BY <2>1, <2>3
      <4>3. \A S : done \in Seq(S) => \A k \in 1 .. Len(done) : done[k] \in S
        OBVIOUS
      <4>4. done[n] \in [start : Int, length : Int]
        <5> HIDE DEF n
        <5> QED BY <2>1, <4>2, <4>3
      <4> QED BY <4>1, <4>2, <4>4
    <3>2. until = done[n].start + done[n].length
      BY <3>1
    <3> QED BY <1>2, <3>1, <3>2
  <2>4. mark.start = start /\ mark.length = length
    BY DEF mark
  <2>5. ASSUME NEW k \in 1 .. n + 1
        PROVE  /\ more[k].start + more[k].length <= track
               /\ k > 1 => more[k - 1].start + more[k - 1].length < more[k].start
    <3>1. CASE k \in 1 .. n
      <4>1. more[k] = done[k]
        BY <2>2, <3>1, Zenon
      <4>2. ASSUME k > 1 PROVE k - 1 \in 1 .. n
        BY <2>2, <3>1, <4>2
      <4>3. k > 1 => more[k - 1] = done[k - 1]
        BY <2>2, <4>2, Zenon
      <4> QED BY <3>1, <4>1, <4>3 DEF KeepApart
    <3>2. CASE k = n + 1
      <4>1. more[k] = mark /\ (k > 1 => n > 0 /\ n \in 1 .. n /\ k - 1 = n /\ more[k - 1] = done[n])
        BY <2>2, <3>2
      <4> QED BY <2>3, <2>4, <4>1
    <3> QED BY <2>2, <3>1, <3>2
  <2> QED BY <2>2, <2>5 DEF KeepApart
<1> QED BY <1>1, <1>2

(* Labels are placed one after the other, each of them apart, so that all of them are. *)
LEMMA RulerKeepsApart ==
  ASSUME NEW total \in Nat \ {0}, NEW track \in Int
  PROVE  KeepApart(BuildRulerLine(total, track), track)
<1> DEFINE ticks == BuildTicks(total)
           n == Len(ticks)
           column(k) == Min({Rounded(ticks[k] * track, total), track - 1})
           from(k) == TickStart(k, n, column(k), LabelLength(ticks[k]), track)
           next(done, k) == Place(done, from(k), LabelLength(ticks[k]))
           written(f, m) == f = [k \in 0 .. m |-> IF k = 0 THEN <<>> ELSE next(f[k - 1], k)]
           line == CHOOSE f : written(f, n)
<1>1. n \in Nat /\ \A k \in 1 .. n : ticks[k] \in Int
  BY TicksAre
<1>2. BuildRulerLine(total, track) = line[n]
  BY DEF BuildRulerLine
<1> HIDE DEF ticks, n, column
<1>3. ASSUME NEW k \in 1 .. n
      PROVE  /\ from(k) \in Int /\ LabelLength(ticks[k]) \in Int
             /\ from(k) + LabelLength(ticks[k]) <= track
  <2> DEFINE length == LabelLength(ticks[k])
             raw == CASE k = 1 -> 0
                      [] k = n /\ k # 1 -> track - length
                      [] OTHER -> column(k) - length \div 2
  <2>1. length \in 1 .. 10
    BY <1>1, LengthOfLabel
  <2>2. column(k) \in Int
    <3>1. ticks[k] * track \in Int
      BY <1>1
    <3>2. Rounded(ticks[k] * track, total) \in Int
      BY <3>1, Quotient DEF Rounded
    <3> QED BY <3>2, LesserOfTwo DEF column
  <2>3. from(k) = Clamp(raw, 0, track - length)
    BY DEF TickStart
  <2> HIDE DEF length, from
  <2>4. raw \in Int
    <3>1. CASE k = 1
      BY <3>1
    <3>2. CASE k = n /\ k # 1
      <4>1. raw = track - length
        BY <3>2, Zenon
      <4> HIDE DEF raw
      <4> QED BY <2>1, <4>1
    <3>3. CASE ~(k = 1) /\ ~(k = n)
      <4>1. raw = column(k) - length \div 2
        BY <3>3, Zenon
      <4>2. length \div 2 \in Int
        BY <2>1
      <4> HIDE DEF raw
      <4> QED BY <2>2, <4>1, <4>2
    <3> QED BY <3>1, <3>2, <3>3
  <2> HIDE DEF raw
  <2>5. track - length \in Int
    BY <2>1
  <2>6. from(k) = IF raw <= 0 THEN IF 0 <= track - length THEN 0 ELSE track - length
                  ELSE IF raw <= track - length THEN raw ELSE track - length
    BY <2>3, <2>4, <2>5, Clamped
  <2>7. from(k) \in Int /\ from(k) + length <= track
    BY <2>1, <2>4, <2>5, <2>6
  <2> QED BY <2>1, <2>7 DEF length
<1> HIDE DEF from, next
<1>4. ASSUME NEW m \in 0 .. n PROVE \E f : written(f, m)
  <2> DEFINE bad == {i \in 0 .. n : ~ \E f : written(f, i)}
  <2>1. written([k \in 0 .. 0 |-> <<>>], 0)
    OBVIOUS
  <2>2. ASSUME NEW i \in 1 .. n, NEW f, written(f, i - 1) PROVE \E g : written(g, i)
    <3> DEFINE g == [k \in 0 .. i |-> IF k = i THEN next(f[i - 1], i) ELSE f[k]]
    <3>1. ASSUME NEW k \in 0 .. i PROVE g[k] = IF k = 0 THEN <<>> ELSE next(g[k - 1], k)
      <4>1. CASE k = i
        BY <1>1, <4>1
      <4>2. CASE k \in 0 .. i - 1
        <5>1. g[k] = f[k] /\ f[k] = IF k = 0 THEN <<>> ELSE next(f[k - 1], k)
          BY <1>1, <2>2, <4>2
        <5>2. k # 0 => g[k - 1] = f[k - 1]
          BY <1>1, <4>2
        <5> QED BY <5>1, <5>2
      <4> QED BY <1>1, <4>1, <4>2
    <3>2. g = [k \in 0 .. i |-> g[k]]
      OBVIOUS
    <3> HIDE DEF g
    <3>3. g = [k \in 0 .. i |-> IF k = 0 THEN <<>> ELSE next(g[k - 1], k)]
      BY <3>1, <3>2
    <3> QED BY <3>3
  <2> SUFFICES ASSUME bad # {} PROVE FALSE
    OBVIOUS
  <2> HIDE DEF written
  <2>3. PICK b \in bad : \A i \in bad : b <= i
    <3>1. bad \in SUBSET Nat
      BY <1>1
    <3> HIDE DEF bad
    <3> QED BY <3>1, FirstPosition
  <2>4. b \in 1 .. n
    BY <1>1, <2>1, <2>3
  <2>5. b - 1 \in 0 .. n /\ b - 1 \notin bad
    BY <1>1, <2>3, <2>4
  <2>6. PICK f : written(f, b - 1)
    BY <2>5
  <2> QED BY <2>2, <2>3, <2>4, <2>6
<1>5. /\ line[0] = <<>>
      /\ \A k \in 1 .. n : line[k] = next(line[k - 1], k)
  <2>1. n \in 0 .. n
    BY <1>1
  <2>2. written(line, n)
    BY <1>4, <2>1, Zenon
  <2> HIDE DEF line
  <2> QED BY <1>1, <2>2
<1> HIDE DEF line
<1> DEFINE bad == {i \in 0 .. n : ~KeepApart(line[i], track)}
<1>6. bad = {}
  <2> SUFFICES ASSUME bad # {} PROVE FALSE
    OBVIOUS
  <2>1. PICK b \in bad : \A i \in bad : b <= i
    <3>1. bad \in SUBSET Nat
      BY <1>1
    <3> HIDE DEF bad
    <3> QED BY <3>1, FirstPosition
  <2>2. KeepApart(<<>>, track)
    BY DEF KeepApart
  <2>3. b \in 1 .. n
    BY <1>1, <1>5, <2>1, <2>2
  <2>4. b - 1 \in 0 .. n /\ b - 1 \notin bad
    BY <1>1, <2>1, <2>3
  <2>5. KeepApart(line[b - 1], track)
    BY <2>4
  <2>6. KeepApart(next(line[b - 1], b), track)
    BY <1>3, <2>3, <2>5, PlacedApart DEF next
  <2> QED BY <1>5, <2>1, <2>3, <2>6
<1> QED BY <1>1, <1>2, <1>6

(* Labels: repeats of a name are counted, so no two rows have the same. *)
LEMMA LabelsTellApart ==
  ASSUME NEW n \in Nat, NEW spans, DOMAIN spans = 1 .. n,
         NEW j \in 1 .. n, NEW k \in 1 .. n, j < k
  PROVE  LET labels == BuildSpanLabels(spans) IN
         /\ labels[j][1] # labels[k][1] \/ labels[j][2] # labels[k][2]
         /\ spans[j].name = spans[k].name => labels[j][2] + 1 <= labels[k][2]
<1> DEFINE labels == BuildSpanLabels(spans)
           same(i) == {x \in 1 .. n : spans[x].name = spans[i].name}
           until(i) == {x \in same(i) : x <= i}
           number(i) == IF Cardinality(same(i)) > 1 THEN Cardinality(until(i)) ELSE 0
<1>1. ASSUME NEW i \in 1 .. n PROVE labels[i] = <<spans[i].name, number(i)>>
  BY DEF BuildSpanLabels
<1> HIDE DEF labels
<1>2. CASE spans[j].name # spans[k].name
  <2> HIDE DEF number
  <2>1. labels[j] = <<spans[j].name, number(j)>> /\ labels[k] = <<spans[k].name, number(k)>>
    BY <1>1
  <2>2. labels[j][1] # labels[k][1]
    BY <1>2, <2>1
  <2> QED BY <1>2, <2>2 DEF labels
<1>3. CASE spans[j].name = spans[k].name
  <2>1. same(j) = same(k)
    BY <1>3
  <2>2. IsFiniteSet(same(k)) /\ Cardinality(same(k)) \in Nat
    <3>1. IsFiniteSet(1 .. n)
      BY FS_Interval
    <3> QED BY <3>1, FS_Subset, FS_CardinalityType
  <2>3. Cardinality(same(k)) > 1
    <3>1. {j, k} \subseteq same(k)
      BY <1>3
    <3>2. Cardinality({j, k}) = 2
      <4>1. Cardinality({k}) = 1 /\ IsFiniteSet({k})
        BY FS_Singleton
      <4>2. j \notin {k}
        OBVIOUS
      <4>3. Cardinality({k} \cup {j}) = Cardinality({k}) + 1
        BY <4>1, <4>2, FS_AddElement
      <4>4. {k} \cup {j} = {j, k}
        OBVIOUS
      <4>5. Cardinality({j, k}) = 1 + 1
        BY <4>1, <4>3, <4>4, Zenon
      <4> QED BY <4>5
    <3>3. Cardinality({j, k}) <= Cardinality(same(k))
      BY <2>2, <3>1, FS_Subset
    <3> QED BY <2>2, <3>2, <3>3
  <2>4. /\ IsFiniteSet(until(j)) /\ Cardinality(until(j)) \in Nat
        /\ IsFiniteSet(until(k)) /\ Cardinality(until(k)) \in Nat
    <3>1. until(j) \subseteq same(k) /\ until(k) \subseteq same(k)
      BY <2>1
    <3> HIDE DEF until, same
    <3> QED BY <2>2, <3>1, FS_Subset, FS_CardinalityType
  <2>5. Cardinality(until(j)) + 1 <= Cardinality(until(k))
    <3>1. until(j) \subseteq until(k) \ {k} /\ k \in until(k)
      BY <2>1
    <3> HIDE DEF until
    <3>2. IsFiniteSet(until(k) \ {k}) /\ Cardinality(until(k) \ {k}) = Cardinality(until(k)) - 1
      BY <2>4, <3>1, FS_RemoveElement
    <3>3. Cardinality(until(j)) <= Cardinality(until(k) \ {k})
      BY <3>1, <3>2, FS_Subset
    <3> QED BY <2>4, <3>2, <3>3
  <2>6. number(j) = Cardinality(until(j)) /\ number(k) = Cardinality(until(k))
    <3> HIDE DEF until, same
    <3> QED BY <2>1, <2>3
  <2> HIDE DEF number, until
  <2>7. labels[j][2] = number(j) /\ labels[k][2] = number(k)
    BY <1>1
  <2>8. labels[j][2] + 1 <= labels[k][2] /\ labels[j][2] \in Nat /\ labels[k][2] \in Nat
    BY <2>4, <2>5, <2>6, <2>7
  <2> QED BY <2>8 DEF labels
<1> QED BY <1>2, <1>3 DEF labels

(* A label is a name and a count. *)
LEMMA LabelsAre ==
  ASSUME NEW n \in Nat, NEW spans, DOMAIN spans = 1 .. n, NEW k \in 1 .. n,
         Len(spans[k].name) \in Nat
  PROVE  LabelWidth(BuildSpanLabels(spans)[k]) \in Int
<1> DEFINE label == BuildSpanLabels(spans)[k]
           same == {j \in 1 .. n : spans[j].name = spans[k].name}
           until == {j \in same : j <= k}
           number == IF Cardinality(same) > 1 THEN Cardinality(until) ELSE 0
<1>1. label = <<spans[k].name, number>>
  BY DEF BuildSpanLabels
<1>2. number \in Int
  <2>1. IsFiniteSet(1 .. n) /\ until \subseteq 1 .. n
    BY FS_Interval
  <2>2. Cardinality(until) \in Nat
    <3> HIDE DEF until
    <3> QED BY <2>1, FS_Subset, FS_CardinalityType
  <2> QED BY <2>2
<1> HIDE DEF number
<1>3. label[1] = spans[k].name /\ label[2] = number
  BY <1>1
<1> HIDE DEF label
<1>4. Digits(number) \in Int
  BY <1>2, DigitsAre
<1> QED BY <1>3, <1>4 DEF LabelWidth, label

(* A label that fits is read whole, and of one that does not the ellipsis is seen. *)
LEMMA PaddedOrTruncated ==
  ASSUME NEW label, LabelWidth(label) \in Int, NEW width \in Int
  PROVE  LET row == PadOrTruncate(label, width) IN
         /\ LabelWidth(label) <= width =>
              row.name = label[1] /\ row.number = label[2] /\ row.cut = FALSE
         /\ LabelWidth(label) > width => row.cut = TRUE
<1> DEFINE row == PadOrTruncate(label, width)
           short == SubSeq(label[1], 1, Min({Len(label[1]), width - 1}))
           digits == width - 1 - Len(label[1]) - 2
           number == IF digits <= 0 THEN 0 ELSE label[2] \div 10 ^ (Digits(label[2]) - digits)
<1>1. row = IF LabelWidth(label) <= width THEN [name |-> label[1], number |-> label[2], cut |-> FALSE]
            ELSE [name |-> short, number |-> number, cut |-> TRUE]
  BY Zenon DEF PadOrTruncate
<1> HIDE DEF row, short, number
<1>2. CASE LabelWidth(label) <= width
  <2>1. row = [name |-> label[1], number |-> label[2], cut |-> FALSE]
    BY <1>1, <1>2
  <2>2. row.name = label[1] /\ row.number = label[2] /\ row.cut = FALSE
    BY <2>1
  <2> QED BY <1>2, <2>2 DEF row
<1>3. CASE LabelWidth(label) > width
  <2>1. ~(LabelWidth(label) <= width)
    BY <1>3
  <2>2. row = [name |-> short, number |-> number, cut |-> TRUE]
    BY <1>1, <2>1
  <2>3. row.cut = TRUE
    BY <2>2
  <2> QED BY <2>1, <2>3 DEF row
<1> QED BY <1>2, <1>3

(* Labels that are read whole are told apart by what is read, and only those that do not
   fit the widest gutter are cut. *)
LEMMA ReadsAlike ==
  ASSUME NEW longest \in Int, NEW a, NEW b, NEW width, width = Clamp(longest, LabelMin, LabelMax),
         LabelWidth(a) \in Int, LabelWidth(a) <= longest,
         LabelWidth(b) \in Int, LabelWidth(b) <= longest,
         PadOrTruncate(a, width) = PadOrTruncate(b, width)
  PROVE  \/ a[1] = b[1] /\ a[2] = b[2]
         \/ LabelWidth(a) > LabelMax /\ LabelWidth(b) > LabelMax
<1>1. width \in Int /\ (width < longest => LabelMax <= width)
  <2>1. LabelMin \in Int /\ LabelMax \in Int
    BY DEF LabelMin, LabelMax
  <2> QED BY <2>1, ClampedBelow
<1>2. /\ LabelWidth(a) <= width => /\ PadOrTruncate(a, width).name = a[1]
                                     /\ PadOrTruncate(a, width).number = a[2]
                                     /\ PadOrTruncate(a, width).cut = FALSE
      /\ LabelWidth(a) > width => PadOrTruncate(a, width).cut = TRUE
  BY <1>1, PaddedOrTruncated
<1>3. /\ LabelWidth(b) <= width => /\ PadOrTruncate(b, width).name = b[1]
                                     /\ PadOrTruncate(b, width).number = b[2]
                                     /\ PadOrTruncate(b, width).cut = FALSE
      /\ LabelWidth(b) > width => PadOrTruncate(b, width).cut = TRUE
  BY <1>1, PaddedOrTruncated
<1>4. CASE LabelWidth(a) > width
  <2>1. LabelWidth(b) > width
    BY <1>1, <1>2, <1>3, <1>4
  <2> QED BY <1>1, <1>4, <2>1 DEF LabelMax
<1>5. CASE ~(LabelWidth(a) > width)
  <2>1. LabelWidth(a) <= width
    BY <1>1, <1>5
  <2>2. LabelWidth(b) <= width
    BY <1>1, <1>2, <1>3, <2>1
  <2> QED BY <1>2, <1>3, <2>1, <2>2
<1> QED BY <1>4, <1>5

(* The rows of a history. *)
LEMMA RowsOfHistory ==
  ASSUME NEW h, IsTimeline(h), NEW origin \in Int
  PROVE  LET spans == Correlate(h.events, origin)
             n == Cardinality(Openers(h.events)) IN
         /\ n \in Nat /\ DOMAIN spans = 1 .. n
         /\ {spans[k].opener : k \in 1 .. n} = Openers(h.events)
         /\ \A k \in 1 .. n :
              /\ spans[k].start \in Int /\ spans[k].end \in Int /\ spans[k].start <= spans[k].end
              /\ spans[k].status = LastWordOn(h.events, spans[k].opener)
              /\ Len(spans[k].name) \in Nat
         /\ \A j, k \in 1 .. n : j < k => /\ spans[j].opener # spans[k].opener
                                         /\ spans[j].start <= spans[k].start
<1> DEFINE openers == Openers(h.events)
           n == Cardinality(openers)
           row(k) == RowOf(h.events, origin, k)
           span(i) == BuildSpan(h.events, i, origin)
           spans == Correlate(h.events, origin)
<1>1. /\ n \in Nat
      /\ \A k \in 1 .. n : row(k) \in openers
      /\ \A i \in openers : \E k \in 1 .. n : row(k) = i
      /\ \A j, k \in 1 .. n : j < k => row(j) # row(k) /\ span(row(j)).start <= span(row(k)).start
  BY OneRowForEachOpener
<1>2. DOMAIN spans = 1 .. n /\ \A k \in 1 .. n : spans[k] = span(row(k))
  BY DEF Correlate, RowOf
<1>3. ASSUME NEW i \in openers
      PROVE  /\ span(i).opener = i
             /\ span(i).start \in Int /\ span(i).end \in Int /\ span(i).start <= span(i).end
             /\ span(i).status = LastWordOn(h.events, i) /\ Len(span(i).name) \in Nat
  <2>1. /\ span(i).start \in Int /\ span(i).end \in Int /\ span(i).start <= span(i).end
        /\ span(i).status = LastWordOn(h.events, i) /\ span(i).name = h.events[i].name
    BY SpanOfOpener
  <2>2. span(i).opener = i
    BY DEF BuildSpan
  <2>3. Len(h.events[i].name) \in Nat
    BY DEF IsTimeline, Openers
  <2> HIDE DEF span
  <2> QED BY <2>1, <2>2, <2>3
<1> HIDE DEF n, openers, row, span, spans
<1>4. \A k \in 1 .. n : spans[k].opener = row(k)
  BY <1>1, <1>2, <1>3
<1>5. {spans[k].opener : k \in 1 .. n} = openers
  BY <1>1, <1>4
<1>6. \A k \in 1 .. n :
        /\ spans[k].start \in Int /\ spans[k].end \in Int /\ spans[k].start <= spans[k].end
        /\ spans[k].status = LastWordOn(h.events, spans[k].opener)
        /\ Len(spans[k].name) \in Nat
  BY <1>1, <1>2, <1>3, <1>4
<1>7. \A j, k \in 1 .. n : j < k => /\ spans[j].opener # spans[k].opener
                                    /\ spans[j].start <= spans[k].start
  BY <1>1, <1>2, <1>4
<1> QED BY <1>1, <1>2, <1>5, <1>6, <1>7 DEF n, openers, spans

(* The rows, their labels and bars, and the ruler together. *)
LEMMA DrawnAsItHappened ==
  ASSUME NEW h, IsTimeline(h)
  PROVE  DrawsWhatHappened(h, RenderWaterfall(h.events, h.closeTime, h.width))
<1> DEFINE events == h.events
           origin == events[1].time
           spans == Correlate(events, origin)
           n == Cardinality(Openers(events))
           total == TotalDuration(events, spans, origin, h.closeTime)
           durations == {LabelLength(spans[k].end - spans[k].start) : k \in DOMAIN spans}
           labels == BuildSpanLabels(spans)
           longestLabel == Max({1} \cup {LabelWidth(labels[k]) : k \in DOMAIN spans})
           gutter == Clamp(longestLabel, LabelMin, LabelMax)
           lane == h.width - gutter - Max({1} \cup durations) - 2
           track == Max({lane, 10})
           drawn == RenderWaterfall(h.events, h.closeTime, h.width)
<1>1. /\ events[1].time \in Int /\ h.closeTime \in Int /\ h.width \in Int
      /\ DOMAIN events = 1 .. Len(events)
  BY DEF IsTimeline
<1>2. /\ drawn.spans = spans /\ drawn.labels = labels /\ drawn.track = track
      /\ drawn.rows = [k \in DOMAIN spans |-> PadOrTruncate(labels[k], gutter)]
      /\ drawn.bars = [k \in DOMAIN spans |-> ComputeBar(spans[k], total, track)]
      /\ drawn.ruler = IF DOMAIN spans = {} THEN <<>> ELSE BuildRulerLine(total, track)
  BY DEF RenderWaterfall
<1> HIDE DEF drawn
<1>3. /\ n \in Nat /\ DOMAIN spans = 1 .. n
      /\ {spans[k].opener : k \in 1 .. n} = Openers(events)
      /\ \A k \in 1 .. n :
           /\ spans[k].start \in Int /\ spans[k].end \in Int /\ spans[k].start <= spans[k].end
           /\ spans[k].status = LastWordOn(events, spans[k].opener)
           /\ Len(spans[k].name) \in Nat
      /\ \A j, k \in 1 .. n : j < k => /\ spans[j].opener # spans[k].opener
                                       /\ spans[j].start <= spans[k].start
  BY <1>1, RowsOfHistory
<1> HIDE DEF spans, n, total, track, labels, gutter
<1>l. /\ longestLabel \in Int
      /\ \A k \in 1 .. n : LabelWidth(labels[k]) \in Int /\ LabelWidth(labels[k]) <= longestLabel
  <2> DEFINE f == [k \in 1 .. n |-> LabelWidth(labels[k])]
             S == {1} \cup {f[k] : k \in 1 .. n}
  <2>1. \A k \in 1 .. n : f[k] \in Int /\ f[k] = LabelWidth(labels[k])
    BY <1>3, LabelsAre DEF labels
  <2>2. S = {1} \cup {LabelWidth(labels[k]) : k \in DOMAIN spans}
    BY <1>3
  <2>3. Max(S) \in S /\ \A s \in S : s <= Max(S)
    <3> HIDE DEF f
    <3> QED BY <1>3, <2>1, GreatestOf, Zenon
  <2>4. longestLabel = Max(S)
    BY <2>2
  <2> HIDE DEF f
  <2>5. S \subseteq Int /\ \A k \in 1 .. n : f[k] \in S
    BY <2>1
  <2> HIDE DEF S, longestLabel
  <2> QED BY <2>1, <2>3, <2>4, <2>5
<1> HIDE DEF longestLabel
<1>4. total \in Nat \ {0}
  <2> DEFINE f == [k \in 1 .. n |-> spans[k].end]
             S == {1} \cup {f[k] : k \in 1 .. n}
  <2>1. Max(S) \in S /\ \A s \in S : s <= Max(S)
    <3>1. n \in Nat /\ \A k \in 1 .. n : f[k] \in Int
      BY <1>3
    <3> HIDE DEF f
    <3> QED BY <3>1, GreatestOf, Zenon
  <2>2. S \subseteq Int /\ 1 \in S
    BY <1>3
  <2>3. S = {1} \cup {spans[k].end : k \in DOMAIN spans}
    BY <1>3
  <2> HIDE DEF S
  <2>4. Max(S) \in Nat \ {0}
    <3>1. Max(S) \in Int /\ 1 <= Max(S)
      BY <2>1, <2>2, Zenon
    <3> QED BY <3>1
  <2>5. total = IF h.closeTime - origin > 0 THEN h.closeTime - origin ELSE Max(S)
    BY <2>3 DEF total, TotalDuration
  <2> QED BY <1>1, <2>4, <2>5
<1>5. track \in Nat \ {0}
  <2> DEFINE longest == Max({1} \cup durations)
  <2>1. longest \in Int
    <3>1. {1} \cup durations \in SUBSET (1 .. 10) /\ {1} \cup durations # {}
      <4>1. \A k \in 1 .. n : LabelLength(spans[k].end - spans[k].start) \in 1 .. 10
        BY <1>3, LengthOfLabel
      <4> QED BY <1>3, <4>1
    <3> HIDE DEF durations
    <3>2. Max({1} \cup durations) \in {1} \cup durations
      BY <3>1, LastPosition
    <3> QED BY <3>1, <3>2
  <2>2. gutter \in Int
    BY <1>l, Clamped DEF gutter, LabelMin, LabelMax
  <2> HIDE DEF longest
  <2>3. lane \in Int
    BY <1>1, <2>1, <2>2 DEF longest
  <2> HIDE DEF lane
  <2>4. track = IF lane <= 10 THEN 10 ELSE lane
    BY <2>3, GreaterOfTwo DEF track
  <2> QED BY <2>3, <2>4
<1> DEFINE bar(k) == drawn.bars[k]
           left(k) == Rounded(spans[k].start * track, total)
           right(k) == Rounded(spans[k].end * track, total)
<1>6. ASSUME NEW k \in 1 .. n
      PROVE  /\ bar(k).from \in 0 .. track - 1 /\ bar(k).length \in Nat \ {0}
             /\ bar(k).from + bar(k).length <= track
             /\ bar(k).from < track - 1 => left(k) <= bar(k).from
             /\ ~bar(k).instant => bar(k).from + bar(k).length <= right(k)
  <2>1. bar(k) = ComputeBar(spans[k], total, track)
    BY <1>2, <1>3
  <2> QED BY <1>3, <1>4, <1>5, <2>1, BarInLane
<1>7. ASSUME NEW j \in 1 .. n, NEW k \in 1 .. n, spans[j].end <= spans[k].start
      PROVE  right(j) \in Int /\ left(k) \in Int /\ right(j) <= left(k)
  <2>1. /\ spans[j].end * track \in Int /\ spans[k].start * track \in Int
        /\ spans[j].end * track <= spans[k].start * track
    <3>1. spans[j].end \in Int /\ spans[k].start \in Int
      BY <1>3
    <3> DEFINE a == spans[j].end
               b == spans[k].start
               d == b - a
    <3>2. a \in Int /\ b \in Int /\ d \in Nat /\ b = a + d
      BY <1>7, <3>1
    <3> HIDE DEF a, b, d
    <3>3. b * track = a * track + d * track /\ d * track \in Nat /\ a * track \in Int
      BY <1>5, <3>2
    <3>4. a * track \in Int /\ b * track \in Int /\ a * track <= b * track
      BY <3>3
    <3> QED BY <3>4 DEF a, b
  <2> DEFINE c == spans[j].end * track
             e == spans[k].start * track
  <2>2. c \in Int /\ e \in Int /\ c <= e
    BY <2>1
  <2> HIDE DEF c, e
  <2>3. Rounded(c, total) \in Int /\ Rounded(c, total) <= Rounded(e, total)
    BY <1>4, <2>2, RoundedGrows
  <2>4. Rounded(e, total) \in Int
    BY <1>4, <2>2, RoundedGrows
  <2> QED BY <2>3, <2>4 DEF c, e
<1> HIDE DEF bar, left, right
<1>8. \A j, k \in 1 .. n :
        /\ spans[j].end <= spans[k].start /\ ~bar(j).instant /\ bar(k).from < track - 1
        => bar(j).from + bar(j).length <= bar(k).from
  BY <1>5, <1>6, <1>7
<1>9. KeepApart(drawn.ruler, track)
  <2>1. KeepApart(BuildRulerLine(total, track), track)
    BY <1>4, <1>5, RulerKeepsApart
  <2>2. KeepApart(<<>>, track)
    BY DEF KeepApart
  <2> QED BY <1>2, <2>1, <2>2
<1>10. \A k \in DOMAIN drawn.ruler :
         /\ drawn.ruler[k].start + drawn.ruler[k].length <= track
         /\ k > 1 => drawn.ruler[k - 1].start + drawn.ruler[k - 1].length < drawn.ruler[k].start
  <2>1. DOMAIN drawn.ruler = 1 .. Len(drawn.ruler)
    BY <1>9 DEF KeepApart
  <2> QED BY <1>9, <2>1 DEF KeepApart
<1>11. \A j, k \in 1 .. n :
         j < k => /\ drawn.rows[j] = drawn.rows[k] =>
                       LabelWidth(drawn.labels[j]) > LabelMax /\ LabelWidth(drawn.labels[k]) > LabelMax
                  /\ spans[j].name = spans[k].name => drawn.labels[j][2] + 1 <= drawn.labels[k][2]
  <2> SUFFICES ASSUME NEW j \in 1 .. n, NEW k \in 1 .. n, j < k
               PROVE  /\ drawn.rows[j] = drawn.rows[k] =>
                           LabelWidth(labels[j]) > LabelMax /\ LabelWidth(labels[k]) > LabelMax
                      /\ spans[j].name = spans[k].name => labels[j][2] + 1 <= labels[k][2]
    BY <1>2
  <2>1. /\ labels[j][1] # labels[k][1] \/ labels[j][2] # labels[k][2]
        /\ spans[j].name = spans[k].name => labels[j][2] + 1 <= labels[k][2]
    BY <1>3, LabelsTellApart DEF labels
  <2>2. drawn.rows[j] = PadOrTruncate(labels[j], gutter) /\ drawn.rows[k] = PadOrTruncate(labels[k], gutter)
    BY <1>2, <1>3
  <2>3. drawn.rows[j] = drawn.rows[k] =>
          LabelWidth(labels[j]) > LabelMax /\ LabelWidth(labels[k]) > LabelMax
    BY <1>l, <2>1, <2>2, ReadsAlike DEF gutter
  <2> QED BY <2>1, <2>3
<1>12. {spans[k].opener : k \in 1 .. n}
          = {i \in DOMAIN events : events[i].type \in OpenerTypes /\ ~IsNoise(events[i])}
  BY <1>3 DEF Openers
<1>13. drawn.spans = spans /\ DOMAIN spans = 1 .. n /\ drawn.track = track
  BY <1>2, <1>3
<1>14. {drawn.spans[k].opener : k \in DOMAIN drawn.spans}
          = {i \in DOMAIN events : events[i].type \in OpenerTypes /\ ~IsNoise(events[i])}
  BY <1>12, <1>13
<1>15. \A k \in DOMAIN drawn.spans : drawn.spans[k].status = LastWordOn(events, drawn.spans[k].opener)
  BY <1>3, <1>13
<1>16. \A j, k \in DOMAIN drawn.spans :
         j < k => /\ drawn.spans[j].opener # drawn.spans[k].opener
                  /\ drawn.spans[j].start <= drawn.spans[k].start
                  /\ drawn.rows[j] = drawn.rows[k] =>
                       LabelWidth(drawn.labels[j]) > LabelMax /\ LabelWidth(drawn.labels[k]) > LabelMax
                  /\ drawn.spans[j].name = drawn.spans[k].name
                       => drawn.labels[j][2] + 1 <= drawn.labels[k][2]
  BY <1>3, <1>11, <1>13
<1>17. \A k \in DOMAIN drawn.spans :
         /\ drawn.spans[k].start <= drawn.spans[k].end
         /\ drawn.bars[k].from >= 0 /\ drawn.bars[k].length >= 1
         /\ drawn.bars[k].from + drawn.bars[k].length <= drawn.track
  BY <1>3, <1>5, <1>6, <1>13 DEF bar
<1>18. \A j, k \in DOMAIN drawn.spans :
         /\ drawn.spans[j].end <= drawn.spans[k].start
         /\ ~drawn.bars[j].instant
         /\ drawn.bars[k].from < drawn.track - 1
         => drawn.bars[j].from + drawn.bars[j].length <= drawn.bars[k].from
  BY <1>8, <1>13 DEF bar
<1>19. \A k \in DOMAIN drawn.ruler :
         /\ drawn.ruler[k].start + drawn.ruler[k].length <= drawn.track
         /\ k > 1 => drawn.ruler[k - 1].start + drawn.ruler[k - 1].length < drawn.ruler[k].start
  BY <1>10, <1>13
<1>20. DrawsWhatHappened(h, drawn)
  BY <1>14, <1>15, <1>16, <1>17, <1>18, <1>19 DEF DrawsWhatHappened
<1> QED BY <1>20 DEF drawn

(* The waterfall that is drawn is true to the history (cli/src/services/
   workflow_history/, cli/src/utils/waterfall.ts). *)
THEOREM TheWaterfallIsTrue == Spec => []WaterfallDrawsWhatHappened
<1>1. AnswersAsComputed => WaterfallDrawsWhatHappened
  BY DrawnAsItHappened, HistoriesAssumption
     DEF AnswersAsComputed, WaterfallDrawsWhatHappened, Told
<1> QED BY <1>1, AlwaysComputed, PTL

-----------------------------------------------------------------------------
(* The routes. *)

(* A table is a sequence, read as the set of its rows. *)
Rows(s, S) == s \in Seq(S) /\ S = {s[i] : i \in 1 .. Len(s)}

LEMMA RowsOfOne ==
  ASSUME NEW x
  PROVE  Rows(<<x>>, {x})
<1>1. <<x>> \in Seq({x}) /\ Len(<<x>>) = 1 /\ <<x>>[1] = x
  OBVIOUS
<1> QED BY <1>1 DEF Rows

LEMMA RowsJoined ==
  ASSUME NEW s, NEW S, NEW t, NEW T, Rows(s, S), Rows(t, T)
  PROVE  Rows(s \o t, S \cup T)
<1>1. s \in Seq(S \cup T) /\ t \in Seq(S \cup T) /\ Len(s) \in Nat /\ Len(t) \in Nat
  BY DEF Rows
<1>2. /\ s \o t \in Seq(S \cup T) /\ Len(s \o t) = Len(s) + Len(t)
      /\ \A i \in 1 .. Len(s) + Len(t) :
           (s \o t)[i] = IF i <= Len(s) THEN s[i] ELSE t[i - Len(s)]
  BY <1>1, ConcatProperties
<1> DEFINE u == s \o t
<1> HIDE DEF u
<1>3. ASSUME NEW i \in 1 .. Len(s) PROVE i \in 1 .. Len(u) /\ u[i] = s[i]
  BY <1>1, <1>2 DEF u
<1>4. ASSUME NEW i \in 1 .. Len(t) PROVE Len(s) + i \in 1 .. Len(u) /\ u[Len(s) + i] = t[i]
  BY <1>1, <1>2 DEF u
<1>5. {u[i] : i \in 1 .. Len(u)} = S \cup T
  <2>1. \A x \in S \cup T : \E i \in 1 .. Len(u) : u[i] = x
    BY <1>3, <1>4 DEF Rows
  <2>2. \A i \in 1 .. Len(u) : u[i] \in S \cup T
    BY <1>2 DEF u
  <2> QED BY <2>1, <2>2
<1> QED BY <1>2, <1>5 DEF Rows, u

LEMMA WithOneMore ==
  ASSUME NEW s, NEW S, NEW x, Rows(s, S)
  PROVE  Rows(s \o <<x>>, S \cup {x})
BY RowsOfOne, RowsJoined

(* A path that is put together of two parts is spelled in full. *)
LEMMA Spelled ==
  ASSUME NEW S, NEW s \in Seq(S), NEW t \in Seq(S), NEW u \in Seq(S),
         Len(u) = Len(s) + Len(t),
         \A i \in 1 .. Len(s) : u[i] = s[i],
         \A i \in 1 .. Len(t) : u[Len(s) + i] = t[i]
  PROVE  s \o t = u
<1>1. /\ s \o t \in Seq(S) /\ Len(s \o t) = Len(s) + Len(t)
      /\ \A i \in 1 .. Len(s) + Len(t) :
           (s \o t)[i] = IF i <= Len(s) THEN s[i] ELSE t[i - Len(s)]
  BY ConcatProperties
<1>2. ASSUME NEW i \in 1 .. Len(s \o t) PROVE (s \o t)[i] = u[i]
  <2>1. CASE i <= Len(s)
    BY <1>1, <2>1
  <2>2. CASE ~(i <= Len(s))
    <3>1. i - Len(s) \in 1 .. Len(t) /\ Len(s) + (i - Len(s)) = i
      BY <1>1, <2>2
    <3>2. u[Len(s) + (i - Len(s))] = t[i - Len(s)]
      BY <3>1, Zenon
    <3> QED BY <1>1, <2>2, <3>1, <3>2
  <2> QED BY <2>1, <2>2
<1> QED BY <1>1, <1>2, SeqEqual

WorkflowPath(a) == <<"workflow", ":id", a>>
WorkflowPathOn(a, b) == <<"workflow", ":id", a, b>>
RunPath(a) == <<"workflow", ":id", "runs", ":rid", a>>
RunPathOn(a, b) == <<"workflow", ":id", "runs", ":rid", a, b>>

LEMMA PathOfWorkflow ==
  ASSUME NEW a
  PROVE  OfWorkflow(<<a>>) = WorkflowPath(a)
<1> DEFINE S == {"workflow", ":id", a}
           s == <<"workflow", ":id">>
           t == <<a>>
           u == <<"workflow", ":id", a>>
<1>1. /\ s \in Seq(S) /\ t \in Seq(S) /\ u \in Seq(S)
      /\ Len(s) = 2 /\ Len(t) = 1 /\ Len(u) = 3
  OBVIOUS
<1>2. s[1] = u[1] /\ s[2] = u[2] /\ t[1] = u[3]
  OBVIOUS
<1> HIDE DEF S, s, t, u
<1>3. s \o t = u
  <2>1. \A i \in 1 .. Len(s) : u[i] = s[i]
    BY <1>1, <1>2
  <2>2. \A i \in 1 .. Len(t) : u[Len(s) + i] = t[i]
    BY <1>1, <1>2
  <2>3. Len(u) = Len(s) + Len(t)
    BY <1>1
  <2> QED BY <1>1, <2>1, <2>2, <2>3, Spelled
<1> QED BY <1>3 DEF OfWorkflow, s, t, u, WorkflowPath

LEMMA PathOfWorkflowOn ==
  ASSUME NEW a, NEW b
  PROVE  OfWorkflow(<<a, b>>) = WorkflowPathOn(a, b)
<1> DEFINE S == {"workflow", ":id", a, b}
           s == <<"workflow", ":id">>
           t == <<a, b>>
           u == <<"workflow", ":id", a, b>>
<1>1. /\ s \in Seq(S) /\ t \in Seq(S) /\ u \in Seq(S)
      /\ Len(s) = 2 /\ Len(t) = 2 /\ Len(u) = 4
  OBVIOUS
<1>2. s[1] = u[1] /\ s[2] = u[2] /\ t[1] = u[3] /\ t[2] = u[4]
  OBVIOUS
<1> HIDE DEF S, s, t, u
<1>3. s \o t = u
  <2>1. \A i \in 1 .. Len(s) : u[i] = s[i]
    BY <1>1, <1>2
  <2>2. \A i \in 1 .. Len(t) : u[Len(s) + i] = t[i]
    BY <1>1, <1>2
  <2>3. Len(u) = Len(s) + Len(t)
    BY <1>1
  <2> QED BY <1>1, <2>1, <2>2, <2>3, Spelled
<1> QED BY <1>3 DEF OfWorkflow, s, t, u, WorkflowPathOn

LEMMA PathOfRun ==
  ASSUME NEW a
  PROVE  OfRun(<<a>>) = RunPath(a)
<1> DEFINE S == {"workflow", ":id", "runs", ":rid", a}
           s == <<"workflow", ":id", "runs", ":rid">>
           t == <<a>>
           u == <<"workflow", ":id", "runs", ":rid", a>>
<1>1. /\ s \in Seq(S) /\ t \in Seq(S) /\ u \in Seq(S)
      /\ Len(s) = 4 /\ Len(t) = 1 /\ Len(u) = 5
  OBVIOUS
<1>2. /\ s[1] = u[1] /\ s[2] = u[2] /\ s[3] = u[3] /\ s[4] = u[4]
      /\ t[1] = u[5]
  OBVIOUS
<1> HIDE DEF S, s, t, u
<1>3. s \o t = u
  <2>1. \A i \in 1 .. Len(s) : u[i] = s[i]
    BY <1>1, <1>2
  <2>2. \A i \in 1 .. Len(t) : u[Len(s) + i] = t[i]
    BY <1>1, <1>2
  <2>3. Len(u) = Len(s) + Len(t)
    BY <1>1
  <2> QED BY <1>1, <2>1, <2>2, <2>3, Spelled
<1> QED BY <1>3 DEF OfRun, s, t, u, RunPath

LEMMA PathOfRunOn ==
  ASSUME NEW a, NEW b
  PROVE  OfRun(<<a, b>>) = RunPathOn(a, b)
<1> DEFINE S == {"workflow", ":id", "runs", ":rid", a, b}
           s == <<"workflow", ":id", "runs", ":rid">>
           t == <<a, b>>
           u == <<"workflow", ":id", "runs", ":rid", a, b>>
<1>1. /\ s \in Seq(S) /\ t \in Seq(S) /\ u \in Seq(S)
      /\ Len(s) = 4 /\ Len(t) = 2 /\ Len(u) = 6
  OBVIOUS
<1>2. /\ s[1] = u[1] /\ s[2] = u[2] /\ s[3] = u[3] /\ s[4] = u[4]
      /\ t[1] = u[5] /\ t[2] = u[6]
  OBVIOUS
<1> HIDE DEF S, s, t, u
<1>3. s \o t = u
  <2>1. \A i \in 1 .. Len(s) : u[i] = s[i]
    BY <1>1, <1>2
  <2>2. \A i \in 1 .. Len(t) : u[Len(s) + i] = t[i]
    BY <1>1, <1>2
  <2>3. Len(u) = Len(s) + Len(t)
    BY <1>1
  <2> QED BY <1>1, <2>1, <2>2, <2>3, Spelled
<1> QED BY <1>3 DEF OfRun, s, t, u, RunPathOn

LEMMA RowsOfTwo ==
  ASSUME NEW a, NEW b
  PROVE  Rows(<<a>> \o <<b>>, {a, b})
<1>1. Rows(<<a>> \o <<b>>, {a} \cup {b})
  BY RowsOfOne, RowsJoined
<1>2. {a} \cup {b} = {a, b}
  OBVIOUS
<1> QED BY <1>1, <1>2, Zenon

LEMMA RowsOfThree ==
  ASSUME NEW a, NEW b, NEW c
  PROVE  Rows(<<a>> \o <<b>> \o <<c>>, {a, b, c})
<1>1. Rows(<<a>> \o <<b>> \o <<c>>, {a, b} \cup {c})
  BY RowsOfTwo, RowsOfOne, RowsJoined
<1>2. {a, b} \cup {c} = {a, b, c}
  OBVIOUS
<1> QED BY <1>1, <1>2, Zenon

LEMMA RowsOfFour ==
  ASSUME NEW a, NEW b, NEW c, NEW d
  PROVE  /\ Rows(<<a>> \o <<b>> \o <<c>> \o <<d>>, {a, b, c, d})
         /\ Rows((<<a>> \o <<b>>) \o (<<c>> \o <<d>>), {a, b, c, d})
<1>1. Rows(<<a>> \o <<b>> \o <<c>> \o <<d>>, {a, b, c} \cup {d})
  BY RowsOfThree, RowsOfOne, RowsJoined
<1>2. Rows((<<a>> \o <<b>>) \o (<<c>> \o <<d>>), {a, b} \cup {c, d})
  BY RowsOfTwo, RowsJoined
<1>3. {a, b, c} \cup {d} = {a, b, c, d} /\ {a, b} \cup {c, d} = {a, b, c, d}
  OBVIOUS
<1> QED BY <1>1, <1>2, <1>3, Zenon

(* What an entry of the table says, and the rows of the table in the order of index.js. *)
Entry(method, path, route) == [method |-> method, path |-> path, route |-> route]

OpenRoutesRows ==
    {Entry("GET", <<"health">>, Nothing),
     Entry("GET", <<"ready">>, Nothing)}
RunAndStartRows ==
    {Entry("POST", <<"workflow", "run">>, "run"),
     Entry("POST", <<"workflow", "start">>, "start")}
StatusAndStopRows ==
    {Entry("GET", WorkflowPath("status"), "status"),
     Entry("GET", RunPath("status"), "status_of_run"),
     Entry("PATCH", RunPath("stop"), "stop_run"),
     Entry("PATCH", WorkflowPath("stop"), "stop")}
TerminateAndResetRows ==
    {Entry("POST", RunPath("terminate"), "terminate"),
     Entry("POST", WorkflowPath("terminate"), "terminate"),
     Entry("POST", RunPath("reset"), "reset"),
     Entry("POST", WorkflowPath("reset"), "reset")}
ResultAndInputRows ==
    {Entry("GET", WorkflowPath("result"), "result"),
     Entry("GET", RunPath("result"), "result_of_run"),
     Entry("GET", WorkflowPath("input"), "input"),
     Entry("GET", RunPath("input"), "input_of_run")}
TraceLogRows ==
    {Entry("GET", WorkflowPath("trace-log"), "trace_log"),
     Entry("GET", RunPath("trace-log"), "trace_log_of_run")}
HistoryAndStreamRows ==
    {Entry("GET", WorkflowPath("history"), "history"),
     Entry("GET", RunPath("history"), "history"),
     Entry("GET", WorkflowPathOn("history", "stream"), "history"),
     Entry("GET", RunPathOn("history", "stream"), "history")}
CatalogAndRunsRows ==
    {Entry("GET", <<"workflow", "catalog", ":id">>, Nothing),
     Entry("GET", <<"workflow", "catalog">>, Nothing),
     Entry("GET", <<"workflow", "runs">>, "runs")}
MessagesRows ==
    {Entry("POST", WorkflowPath("feedback"), "feedback"),
     Entry("POST", WorkflowPathOn("signal", ":signal"), "signal"),
     Entry("POST", WorkflowPathOn("query", ":query"), "query"),
     Entry("POST", WorkflowPathOn("update", ":update"), "update")}
HeartbeatRows ==
    {Entry("POST", <<"heartbeat">>, Nothing)}

BeforeCatalogs ==
    OpenRoutes \o RunAndStart \o StatusAndStop \o TerminateAndReset
    \o ResultAndInput \o TraceLog \o HistoryAndStream
BeforeCatalogsRows ==
    OpenRoutesRows \cup RunAndStartRows \cup StatusAndStopRows \cup TerminateAndResetRows
    \cup ResultAndInputRows \cup TraceLogRows \cup HistoryAndStreamRows
RouteTableRows ==
    BeforeCatalogsRows \cup CatalogAndRunsRows \cup MessagesRows \cup HeartbeatRows

LEMMA RowsOfOpenRoutes == Rows(OpenRoutes, OpenRoutesRows)
<1>1. OpenRoutes =
          <<Entry("GET", <<"health">>, Nothing)>>
          \o <<Entry("GET", <<"ready">>, Nothing)>>
  BY DEF OpenRoutes, On, OfEither, Entry
<1> QED BY <1>1, RowsOfTwo, Zenon DEF OpenRoutesRows

LEMMA RowsOfRunAndStart == Rows(RunAndStart, RunAndStartRows)
<1>1. RunAndStart =
          <<Entry("POST", <<"workflow", "run">>, "run")>>
          \o <<Entry("POST", <<"workflow", "start">>, "start")>>
  BY DEF RunAndStart, On, OfEither, Entry
<1> QED BY <1>1, RowsOfTwo, Zenon DEF RunAndStartRows

LEMMA RowsOfStatusAndStop == Rows(StatusAndStop, StatusAndStopRows)
<1>1. StatusAndStop =
          (<<Entry("GET", WorkflowPath("status"), "status")>>
          \o <<Entry("GET", RunPath("status"), "status_of_run")>>)
          \o <<Entry("PATCH", RunPath("stop"), "stop_run")>>
          \o <<Entry("PATCH", WorkflowPath("stop"), "stop")>>
  <2>1. /\ OfWorkflow(<<"status">>) = WorkflowPath("status")
        /\ OfRun(<<"status">>) = RunPath("status")
        /\ OfRun(<<"stop">>) = RunPath("stop")
        /\ OfWorkflow(<<"stop">>) = WorkflowPath("stop")
    BY PathOfRun, PathOfWorkflow
  <2> QED BY <2>1 DEF StatusAndStop, On, OfEither, Entry
<1> QED BY <1>1, RowsOfFour, Zenon DEF StatusAndStopRows

LEMMA RowsOfTerminateAndReset == Rows(TerminateAndReset, TerminateAndResetRows)
<1>1. TerminateAndReset =
          <<Entry("POST", RunPath("terminate"), "terminate")>>
          \o <<Entry("POST", WorkflowPath("terminate"), "terminate")>>
          \o <<Entry("POST", RunPath("reset"), "reset")>>
          \o <<Entry("POST", WorkflowPath("reset"), "reset")>>
  <2>1. /\ OfRun(<<"terminate">>) = RunPath("terminate")
        /\ OfWorkflow(<<"terminate">>) = WorkflowPath("terminate")
        /\ OfRun(<<"reset">>) = RunPath("reset")
        /\ OfWorkflow(<<"reset">>) = WorkflowPath("reset")
    BY PathOfRun, PathOfWorkflow
  <2> QED BY <2>1 DEF TerminateAndReset, On, OfEither, Entry
<1> QED BY <1>1, RowsOfFour, Zenon DEF TerminateAndResetRows

LEMMA RowsOfResultAndInput == Rows(ResultAndInput, ResultAndInputRows)
<1>1. ResultAndInput =
          (<<Entry("GET", WorkflowPath("result"), "result")>>
          \o <<Entry("GET", RunPath("result"), "result_of_run")>>)
          \o (<<Entry("GET", WorkflowPath("input"), "input")>>
          \o <<Entry("GET", RunPath("input"), "input_of_run")>>)
  <2>1. /\ OfWorkflow(<<"result">>) = WorkflowPath("result")
        /\ OfRun(<<"result">>) = RunPath("result")
        /\ OfWorkflow(<<"input">>) = WorkflowPath("input")
        /\ OfRun(<<"input">>) = RunPath("input")
    BY PathOfRun, PathOfWorkflow
  <2> QED BY <2>1 DEF ResultAndInput, On, OfEither, Entry
<1> QED BY <1>1, RowsOfFour, Zenon DEF ResultAndInputRows

LEMMA RowsOfTraceLog == Rows(TraceLog, TraceLogRows)
<1>1. TraceLog =
          (<<Entry("GET", WorkflowPath("trace-log"), "trace_log")>>
          \o <<Entry("GET", RunPath("trace-log"), "trace_log_of_run")>>)
  <2>1. /\ OfWorkflow(<<"trace-log">>) = WorkflowPath("trace-log")
        /\ OfRun(<<"trace-log">>) = RunPath("trace-log")
    BY PathOfRun, PathOfWorkflow
  <2> QED BY <2>1 DEF TraceLog, On, OfEither, Entry
<1> QED BY <1>1, RowsOfTwo, Zenon DEF TraceLogRows

LEMMA RowsOfHistoryAndStream == Rows(HistoryAndStream, HistoryAndStreamRows)
<1>1. HistoryAndStream =
          (<<Entry("GET", WorkflowPath("history"), "history")>>
          \o <<Entry("GET", RunPath("history"), "history")>>)
          \o (<<Entry("GET", WorkflowPathOn("history", "stream"), "history")>>
          \o <<Entry("GET", RunPathOn("history", "stream"), "history")>>)
  <2>1. /\ OfWorkflow(<<"history">>) = WorkflowPath("history")
        /\ OfRun(<<"history">>) = RunPath("history")
        /\ OfWorkflow(<<"history", "stream">>) = WorkflowPathOn("history", "stream")
        /\ OfRun(<<"history", "stream">>) = RunPathOn("history", "stream")
    BY PathOfRun, PathOfRunOn, PathOfWorkflow, PathOfWorkflowOn
  <2> QED BY <2>1 DEF HistoryAndStream, On, OfEither, Entry
<1> QED BY <1>1, RowsOfFour, Zenon DEF HistoryAndStreamRows

LEMMA RowsOfCatalogAndRuns == Rows(CatalogAndRuns, CatalogAndRunsRows)
<1>1. CatalogAndRuns =
          <<Entry("GET", <<"workflow", "catalog", ":id">>, Nothing)>>
          \o <<Entry("GET", <<"workflow", "catalog">>, Nothing)>>
          \o <<Entry("GET", <<"workflow", "runs">>, "runs")>>
  BY DEF CatalogAndRuns, On, OfEither, Entry
<1> QED BY <1>1, RowsOfThree, Zenon DEF CatalogAndRunsRows

LEMMA RowsOfMessages == Rows(Messages, MessagesRows)
<1>1. Messages =
          <<Entry("POST", WorkflowPath("feedback"), "feedback")>>
          \o <<Entry("POST", WorkflowPathOn("signal", ":signal"), "signal")>>
          \o <<Entry("POST", WorkflowPathOn("query", ":query"), "query")>>
          \o <<Entry("POST", WorkflowPathOn("update", ":update"), "update")>>
  <2>1. /\ OfWorkflow(<<"feedback">>) = WorkflowPath("feedback")
        /\ OfWorkflow(<<"signal", ":signal">>) = WorkflowPathOn("signal", ":signal")
        /\ OfWorkflow(<<"query", ":query">>) = WorkflowPathOn("query", ":query")
        /\ OfWorkflow(<<"update", ":update">>) = WorkflowPathOn("update", ":update")
    BY PathOfWorkflow, PathOfWorkflowOn
  <2> QED BY <2>1 DEF Messages, On, OfEither, Entry
<1> QED BY <1>1, RowsOfFour, Zenon DEF MessagesRows

LEMMA RowsOfHeartbeat == Rows(Heartbeat, HeartbeatRows)
<1>1. Heartbeat =
          <<Entry("POST", <<"heartbeat">>, Nothing)>>
  BY DEF Heartbeat, On, OfEither, Entry
<1> QED BY <1>1, RowsOfOne, Zenon DEF HeartbeatRows

(* The rows of the whole, of which those before the catalogs come first. *)
LEMMA RowsOfTable ==
  /\ Rows(BeforeCatalogs, BeforeCatalogsRows)
  /\ Rows(RouteTable, RouteTableRows)
  /\ Len(BeforeCatalogs) <= Len(RouteTable)
  /\ \A i \in 1 .. Len(BeforeCatalogs) : RouteTable[i] = BeforeCatalogs[i]
<1>1. Rows(BeforeCatalogs, BeforeCatalogsRows)
  BY RowsOfOpenRoutes, RowsOfRunAndStart, RowsOfStatusAndStop, RowsOfTerminateAndReset,
     RowsOfResultAndInput, RowsOfTraceLog, RowsOfHistoryAndStream, RowsJoined, Zenon
     DEF BeforeCatalogs, BeforeCatalogsRows
<1> DEFINE mid == BeforeCatalogs \o CatalogAndRuns
           most == mid \o Messages
<1>2. RouteTable = most \o Heartbeat
  BY DEF RouteTable, BeforeCatalogs
<1>3. Rows(mid, BeforeCatalogsRows \cup CatalogAndRunsRows)
  BY <1>1, RowsOfCatalogAndRuns, RowsJoined, Zenon
<1>4. Rows(most, BeforeCatalogsRows \cup CatalogAndRunsRows \cup MessagesRows)
  BY <1>3, RowsOfMessages, RowsJoined, Zenon
<1>5. Rows(RouteTable, RouteTableRows)
  BY <1>2, <1>4, RowsOfHeartbeat, RowsJoined, Zenon DEF RouteTableRows
<1>6. ASSUME NEW s, NEW S, NEW t, NEW T, Rows(s, S), Rows(t, T)
      PROVE  /\ Len(s) \in Nat /\ Len(s) <= Len(s \o t)
             /\ \A i \in 1 .. Len(s) : (s \o t)[i] = s[i]
  <2>1. s \in Seq(S \cup T) /\ t \in Seq(S \cup T) /\ Len(s) \in Nat /\ Len(t) \in Nat
    BY <1>6 DEF Rows
  <2>2. /\ Len(s \o t) = Len(s) + Len(t)
        /\ \A i \in 1 .. Len(s) + Len(t) :
             (s \o t)[i] = IF i <= Len(s) THEN s[i] ELSE t[i - Len(s)]
    BY <2>1, ConcatProperties
  <2> QED BY <2>1, <2>2
<1> HIDE DEF mid, most
<1>7. /\ Len(BeforeCatalogs) \in Nat /\ Len(BeforeCatalogs) <= Len(mid)
      /\ \A i \in 1 .. Len(BeforeCatalogs) : mid[i] = BeforeCatalogs[i]
  BY <1>1, <1>6, RowsOfCatalogAndRuns, Zenon DEF mid
<1>8. /\ Len(mid) \in Nat /\ Len(mid) <= Len(most)
      /\ \A i \in 1 .. Len(mid) : most[i] = mid[i]
  BY <1>3, <1>6, RowsOfMessages, Zenon DEF most
<1>9. /\ Len(most) \in Nat /\ Len(most) <= Len(RouteTable)
      /\ \A i \in 1 .. Len(most) : RouteTable[i] = most[i]
  BY <1>2, <1>4, <1>6, RowsOfHeartbeat, Zenon
<1>10. Len(RouteTable) \in Nat
  BY <1>5 DEF Rows
<1> QED BY <1>1, <1>5, <1>7, <1>8, <1>9, <1>10

LEMMA RowsInOrder ==
  ASSUME NEW s, NEW S, Rows(s, S)
  PROVE  Len(s) \in Nat /\ DOMAIN s = 1 .. Len(s)
BY DEF Rows

(* What is dispatched to, when one row alone fits among the first ones. *)
LEMMA FirstThatFits ==
  ASSUME NEW method, NEW path, NEW t, NEW T, Rows(t, T), Len(t) <= Len(RouteTable),
         \A i \in 1 .. Len(t) : RouteTable[i] = t[i],
         NEW own \in T, own.method = method, Fits(path, own.path),
         \A r \in T : r.method = method /\ Fits(path, r.path) => r = own,
         NEW reached, reached = Dispatch(method, path)
  PROVE  /\ reached.route = own.route /\ reached.path = own.path
         /\ reached.taken = {<<own.path[i], path[i]>> :
                               i \in {j \in DOMAIN path : own.path[j] \in Parameters}}
<1> DEFINE n == Len(RouteTable)
           fitting == {i \in DOMAIN RouteTable :
                         RouteTable[i].method = method /\ Fits(path, RouteTable[i].path)}
<1>1. n \in Nat /\ DOMAIN RouteTable = 1 .. n /\ Len(t) \in Nat
  BY RowsOfTable, RowsInOrder
<1>2. PICK k \in 1 .. Len(t) : t[k] = own
  BY DEF Rows
<1>3. k \in fitting
  <2>1. k \in 1 .. n
    BY <1>1
  <2>2. RouteTable[k] = own
    BY <1>2
  <2> QED BY <1>1, <2>1, <2>2
<1>4. fitting \in SUBSET Nat
  BY <1>1
<1>5. Min(fitting) \in fitting /\ Min(fitting) <= k
  BY <1>3, <1>4, FirstPosition
<1>6. Min(fitting) \in 1 .. Len(t)
  BY <1>1, <1>4, <1>5
<1>7. RouteTable[Min(fitting)] = own
  <2>1. RouteTable[Min(fitting)] = t[Min(fitting)] /\ t[Min(fitting)] \in T
    BY <1>6 DEF Rows
  <2>2. t[Min(fitting)].method = method /\ Fits(path, t[Min(fitting)].path)
    BY <1>5, <2>1
  <2> QED BY <2>1, <2>2
<1>8. fitting # {}
  BY <1>3
<1>9. Dispatch(method, path) =
           [route |-> own.route, path |-> own.path,
            taken |-> {<<own.path[i], path[i]>> :
                         i \in {j \in DOMAIN path : own.path[j] \in Parameters}}]
  BY <1>7, <1>8, Zenon DEF Dispatch
<1> QED BY <1>9

(* No literal segment tells one path from the other. *)
Resemble(path, pattern) ==
    /\ Len(pattern) = Len(path)
    /\ \A i \in 1 .. Len(path) :
         path[i] \in Parameters \/ pattern[i] \in Parameters \/ pattern[i] = path[i]

(* What is asked for fits the path it was made of, whatever the ids are. *)
LEMMA UrlHasItsForm ==
  ASSUME NEW o, NEW arguments, NEW url, url = UrlOf(o, arguments),
         Len(o.path) \in Nat, DOMAIN o.path = 1 .. Len(o.path)
  PROVE  /\ Len(url) = Len(o.path) /\ DOMAIN url = 1 .. Len(o.path)
         /\ \A i \in 1 .. Len(o.path) :
              url[i] = IF o.path[i] \in Parameters THEN arguments[o.path[i]] ELSE o.path[i]
         /\ Fits(url, o.path)
         /\ \A pattern : Fits(url, pattern) => Resemble(o.path, pattern)
<1> DEFINE n == Len(o.path)
<1>1. n \in Nat /\ DOMAIN o.path = 1 .. n
  OBVIOUS
<1>2. url = [i \in 1 .. n |-> IF o.path[i] \in Parameters THEN arguments[o.path[i]] ELSE o.path[i]]
  BY <1>1 DEF UrlOf
<1> HIDE DEF n
<1>3. Len(url) = n /\ DOMAIN url = 1 .. n
  BY <1>1, <1>2
<1>4. \A i \in 1 .. n : url[i] = IF o.path[i] \in Parameters THEN arguments[o.path[i]] ELSE o.path[i]
  BY <1>2
<1>5. Fits(url, o.path)
  BY <1>3, <1>4 DEF Fits, n
<1>6. ASSUME NEW pattern, Fits(url, pattern) PROVE Resemble(o.path, pattern)
  BY <1>3, <1>4, <1>6 DEF Fits, Resemble, n
<1> QED BY <1>3, <1>4, <1>5, <1>6 DEF n

(* The entry is there, and whatever the ids are no other row can be taken for it. *)
OnlyFit(rows, method, path, route) ==
    /\ Len(path) \in Nat /\ DOMAIN path = 1 .. Len(path)
    /\ Entry(method, path, route) \in rows
    /\ \A r \in rows : r.method = method /\ Resemble(path, r.path) => r = Entry(method, path, route)

(* The entry is there, and no other row fits what is asked for. *)
FitsAlone(rows, url, method, path, route) ==
    /\ Entry(method, path, route) \in rows
    /\ \A r \in rows : r.method = method /\ Fits(url, r.path) => r = Entry(method, path, route)

(* The table begins with these rows. *)
Leads(t, rows) ==
    /\ Rows(t, rows) /\ Len(t) <= Len(RouteTable)
    /\ \A i \in 1 .. Len(t) : RouteTable[i] = t[i]

(* The type of the answers has the status of every error that the route throws. *)
Knows(expects, route) ==
    route # Nothing =>
      \A e \in Routes[route].thrown :
        StatusOf(<<[class |-> e, grpc |-> Nothing, http |-> 0]>>) \in expects

LEMMA StatusOfItself ==
  ASSUME NEW e
  PROVE  StatusOf(<<[class |-> e, grpc |-> Nothing, http |-> 0]>>) =
           IF e \in DOMAIN NamedErrorStatuses THEN NamedErrorStatuses[e] ELSE 500
<1> DEFINE link == [class |-> e, grpc |-> Nothing, http |-> 0]
           chain == <<link>>
<1>1. Head(chain) = link /\ DOMAIN chain = {1} /\ chain[1] = link
  OBVIOUS
<1>2. link.class = e /\ link.grpc = Nothing /\ link.http = 0
  OBVIOUS
<1> HIDE DEF link, chain
<1>3. GrpcHttpStatus(chain) = 0
  <2>1. {i \in DOMAIN chain : chain[i].grpc \in DOMAIN GrpcStatusHttp} = {}
    BY <1>1, <1>2 DEF GrpcStatusHttp, Nothing
  <2> QED BY <2>1 DEF GrpcHttpStatus
<1>4. StatusOf(chain) = IF e \in DOMAIN NamedErrorStatuses THEN NamedErrorStatuses[e] ELSE 500
  BY <1>1, <1>2, <1>3 DEF StatusOf
<1> QED BY <1>4 DEF chain, link

(* What an operation is told that reaches the route it was generated for. *)
ReachesOwn(o, arguments, reached) ==
    /\ reached.path = o.path
    /\ reached.taken = {<<p, arguments[p]>> : p \in DOMAIN arguments}
    /\ reached.route # Nothing =>
         \A e \in Routes[reached.route].thrown :
           StatusOf(<<[class |-> e, grpc |-> Nothing, http |-> 0]>>) \in o.expects

(* An operation reaches the only entry that fits. *)
LEMMA ReachesOnlyFit ==
  ASSUME NEW o, NEW arguments,
         NEW method, NEW path, NEW expects, NEW route, o = Operation(method, path, expects),
         Len(path) \in Nat, DOMAIN path = 1 .. Len(path),
         DOMAIN arguments = {path[i] : i \in DOMAIN path} \cap Parameters,
         NEW url, url = UrlOf(o, arguments),
         NEW reached, reached = Dispatch(method, url),
         NEW t, NEW T, Leads(t, T), FitsAlone(T, url, method, path, route),
         Knows(expects, route)
  PROVE  ReachesOwn(o, arguments, reached)
<1> DEFINE own == Entry(method, path, route)
<1>0. o.method = method /\ o.path = path /\ o.expects = expects
  BY DEF Operation
<1>1. /\ DOMAIN url = 1 .. Len(path) /\ Fits(url, path)
      /\ \A i \in 1 .. Len(path) :
           url[i] = IF path[i] \in Parameters THEN arguments[path[i]] ELSE path[i]
      /\ DOMAIN arguments = {path[i] : i \in 1 .. Len(path)} \cap Parameters
  <2>1. DOMAIN url = 1 .. Len(path)
    BY <1>0, UrlHasItsForm
  <2>2. Fits(url, path)
    BY <1>0, UrlHasItsForm
  <2>3. \A i \in 1 .. Len(path) :
           url[i] = IF path[i] \in Parameters THEN arguments[path[i]] ELSE path[i]
    BY <1>0, UrlHasItsForm
  <2> QED BY <2>1, <2>2, <2>3
<1>2. own.method = method /\ own.path = path /\ own.route = route
  BY DEF Entry
<1> HIDE DEF own
<1>3. /\ reached.route = own.route /\ reached.path = own.path
      /\ reached.taken = {<<own.path[i], url[i]>> :
                            i \in {j \in DOMAIN url : own.path[j] \in Parameters}}
  <2>1. own \in T /\ Fits(url, own.path)
    BY <1>1, <1>2 DEF own, FitsAlone
  <2>2. \A r \in T : r.method = method /\ Fits(url, r.path) => r = own
    BY DEF own, FitsAlone
  <2> QED BY <1>2, <2>1, <2>2, FirstThatFits DEF Leads
<1>4. {<<path[i], url[i]>> : i \in {j \in 1 .. Len(path) : path[j] \in Parameters}}
        = {<<p, arguments[p]>> : p \in DOMAIN arguments}
  <2>1. \A i \in {j \in 1 .. Len(path) : path[j] \in Parameters} :
          path[i] \in DOMAIN arguments /\ url[i] = arguments[path[i]]
    BY <1>1
  <2>2. \A p \in DOMAIN arguments :
          \E i \in {j \in 1 .. Len(path) : path[j] \in Parameters} : path[i] = p
    BY <1>1
  <2> DEFINE places == {j \in 1 .. Len(path) : path[j] \in Parameters}
             Pair(p) == <<p, arguments[p]>>
  <2>3. \A i \in places : <<path[i], url[i]>> = Pair(path[i])
    BY <2>1
  <2>4. {<<path[i], url[i]>> : i \in places} = {Pair(path[i]) : i \in places}
    <3> HIDE DEF places, Pair
    <3> QED BY <2>3
  <2>5. {Pair(path[i]) : i \in places} = {Pair(p) : p \in DOMAIN arguments}
    <3> HIDE DEF places, Pair
    <3>1. \A i \in places : path[i] \in DOMAIN arguments
      BY <2>1 DEF places
    <3>2. \A p \in DOMAIN arguments : \E i \in places : path[i] = p
      BY <2>2 DEF places
    <3> QED BY <3>1, <3>2
  <2> QED BY <2>4, <2>5
<1>5. reached.taken = {<<p, arguments[p]>> : p \in DOMAIN arguments}
  <2> DEFINE places == {j \in 1 .. Len(path) : path[j] \in Parameters}
  <2>1. {j \in DOMAIN url : own.path[j] \in Parameters} = places /\ own.path = path
    BY <1>1, <1>2
  <2> HIDE DEF places
  <2>2. reached.taken = {<<path[i], url[i]>> : i \in places}
    BY <1>3, <2>1, Zenon
  <2> QED BY <1>4, <2>2 DEF places
<1>6. reached.route = route /\ reached.path = path
  BY <1>2, <1>3
<1> QED BY <1>0, <1>5, <1>6 DEF ReachesOwn, Knows

LEMMA FitsIfItResembles ==
  ASSUME NEW o, NEW arguments, NEW method, NEW path, NEW expects, o = Operation(method, path, expects),
         NEW url, url = UrlOf(o, arguments),
         NEW route, NEW T, OnlyFit(T, method, path, route)
  PROVE  FitsAlone(T, url, method, path, route)
<1>1. o.method = method /\ o.path = path
  BY DEF Operation
<1>2. \A pattern : Fits(url, pattern) => Resemble(path, pattern)
  BY <1>1, UrlHasItsForm DEF OnlyFit
<1> QED BY <1>2 DEF OnlyFit, FitsAlone

(* The table, entry by entry. *)
LEMMA OtherPathsApart ==
  /\ OnlyFit(BeforeCatalogsRows, "GET", <<"health">>, Nothing)
  /\ OnlyFit(BeforeCatalogsRows, "GET", <<"ready">>, Nothing)
  /\ OnlyFit(RouteTableRows, "POST", <<"heartbeat">>, Nothing)
  /\ OnlyFit(BeforeCatalogsRows, "POST", <<"workflow", "run">>, "run")
  /\ OnlyFit(BeforeCatalogsRows, "POST", <<"workflow", "start">>, "start")
  /\ OnlyFit(RouteTableRows, "GET", <<"workflow", "catalog">>, Nothing)
  /\ OnlyFit(RouteTableRows, "GET", <<"workflow", "runs">>, "runs")
BY DEF OnlyFit, Entry, Resemble, Parameters, Nothing, BeforeCatalogsRows,
       OpenRoutesRows, RunAndStartRows, StatusAndStopRows,
       TerminateAndResetRows, ResultAndInputRows, TraceLogRows, HistoryAndStreamRows,
       WorkflowPath, WorkflowPathOn, RunPath, RunPathOn,
       RouteTableRows, CatalogAndRunsRows, MessagesRows, HeartbeatRows

LEMMA WorkflowPathsApart ==
  /\ OnlyFit(BeforeCatalogsRows, "GET", WorkflowPath("status"), "status")
  /\ OnlyFit(BeforeCatalogsRows, "PATCH", WorkflowPath("stop"), "stop")
  /\ OnlyFit(BeforeCatalogsRows, "POST", WorkflowPath("terminate"), "terminate")
  /\ OnlyFit(BeforeCatalogsRows, "POST", WorkflowPath("reset"), "reset")
  /\ OnlyFit(BeforeCatalogsRows, "GET", WorkflowPath("result"), "result")
  /\ OnlyFit(BeforeCatalogsRows, "GET", WorkflowPath("input"), "input")
  /\ OnlyFit(BeforeCatalogsRows, "GET", WorkflowPath("trace-log"), "trace_log")
  /\ OnlyFit(BeforeCatalogsRows, "GET", WorkflowPath("history"), "history")
  /\ OnlyFit(BeforeCatalogsRows, "GET", WorkflowPathOn("history", "stream"), "history")
BY DEF OnlyFit, Entry, Resemble, Parameters, Nothing, BeforeCatalogsRows,
       OpenRoutesRows, RunAndStartRows, StatusAndStopRows,
       TerminateAndResetRows, ResultAndInputRows, TraceLogRows, HistoryAndStreamRows,
       WorkflowPath, WorkflowPathOn, RunPath, RunPathOn

LEMMA RunPathsApart ==
  /\ OnlyFit(BeforeCatalogsRows, "GET", RunPath("status"), "status_of_run")
  /\ OnlyFit(BeforeCatalogsRows, "PATCH", RunPath("stop"), "stop_run")
  /\ OnlyFit(BeforeCatalogsRows, "POST", RunPath("terminate"), "terminate")
  /\ OnlyFit(BeforeCatalogsRows, "POST", RunPath("reset"), "reset")
  /\ OnlyFit(BeforeCatalogsRows, "GET", RunPath("result"), "result_of_run")
  /\ OnlyFit(BeforeCatalogsRows, "GET", RunPath("input"), "input_of_run")
  /\ OnlyFit(BeforeCatalogsRows, "GET", RunPath("trace-log"), "trace_log_of_run")
  /\ OnlyFit(BeforeCatalogsRows, "GET", RunPath("history"), "history")
  /\ OnlyFit(BeforeCatalogsRows, "GET", RunPathOn("history", "stream"), "history")
BY DEF OnlyFit, Entry, Resemble, Parameters, Nothing, BeforeCatalogsRows,
       OpenRoutesRows, RunAndStartRows, StatusAndStopRows,
       TerminateAndResetRows, ResultAndInputRows, TraceLogRows, HistoryAndStreamRows,
       WorkflowPath, WorkflowPathOn, RunPath, RunPathOn

LEMMA MessagePathsApart ==
  /\ OnlyFit(RouteTableRows, "POST", WorkflowPath("feedback"), "feedback")
  /\ OnlyFit(RouteTableRows, "POST", WorkflowPathOn("signal", ":signal"), "signal")
  /\ OnlyFit(RouteTableRows, "POST", WorkflowPathOn("query", ":query"), "query")
  /\ OnlyFit(RouteTableRows, "POST", WorkflowPathOn("update", ":update"), "update")
BY DEF OnlyFit, Entry, Resemble, Parameters, Nothing, BeforeCatalogsRows,
       OpenRoutesRows, RunAndStartRows, StatusAndStopRows,
       TerminateAndResetRows, ResultAndInputRows, TraceLogRows, HistoryAndStreamRows,
       WorkflowPath, WorkflowPathOn, RunPath, RunPathOn,
       RouteTableRows, CatalogAndRunsRows, MessagesRows, HeartbeatRows

(* An operation and its route.  For most the route is looked for before the catalogs, whose
   own route an operation on a workflow of the name "catalog" would fit as well. *)
Reachable(o, route) ==
    /\ o = Operation(o.method, o.path, o.expects)
    /\ Knows(o.expects, route)
    /\ \/ OnlyFit(BeforeCatalogsRows, o.method, o.path, route)
       \/ OnlyFit(RouteTableRows, o.method, o.path, route)

(* Every operation but that on one catalog is told from all others by the table alone. *)
LEMMA OnlyOneFits ==
  ASSUME NEW o \in Operations \ {getWorkflowCatalogId}
  PROVE  \E route : Reachable(o, route)
<1>1. CASE o = getHealth
  <2>1. o = Operation("GET", <<"health">>, {200})
    BY <1>1 DEF getHealth
  <2>2. Knows({200}, Nothing)
    BY DEF Knows
  <2>3. OnlyFit(BeforeCatalogsRows, o.method, o.path, Nothing)
    BY <2>1, OtherPathsApart DEF Operation
  <2> QED BY <2>1, <2>2, <2>3 DEF Reachable, Operation
<1>2. CASE o = getReady
  <2>1. o = Operation("GET", <<"ready">>, {200, 503})
    BY <1>2 DEF getReady
  <2>2. Knows({200, 503}, Nothing)
    BY DEF Knows
  <2>3. OnlyFit(BeforeCatalogsRows, o.method, o.path, Nothing)
    BY <2>1, OtherPathsApart DEF Operation
  <2> QED BY <2>1, <2>2, <2>3 DEF Reachable, Operation
<1>3. CASE o = postHeartbeat
  <2>1. o = Operation("POST", <<"heartbeat">>, {204})
    BY <1>3 DEF postHeartbeat
  <2>2. Knows({204}, Nothing)
    BY DEF Knows
  <2>3. OnlyFit(RouteTableRows, o.method, o.path, Nothing)
    BY <2>1, OtherPathsApart DEF Operation
  <2> QED BY <2>1, <2>2, <2>3 DEF Reachable, Operation
<1>4. CASE o = postWorkflowRun
  <2>1. o = Operation("POST", <<"workflow", "run">>, {200, 400, 404, 408, 424, 500, 503})
    BY <1>4 DEF postWorkflowRun
  <2>2. Knows({200, 400, 404, 408, 424, 500, 503}, "run")
    BY StatusOfItself
       DEF Knows, NamedErrorStatuses, NoWorkflow, Routes, Route, RunRoute
  <2>3. OnlyFit(BeforeCatalogsRows, o.method, o.path, "run")
    BY <2>1, OtherPathsApart DEF Operation
  <2> QED BY <2>1, <2>2, <2>3 DEF Reachable, Operation
<1>5. CASE o = postWorkflowStart
  <2>1. o = Operation("POST", <<"workflow", "start">>, {200, 400, 404, 424, 500, 503})
    BY <1>5 DEF postWorkflowStart
  <2>2. Knows({200, 400, 404, 424, 500, 503}, "start")
    BY StatusOfItself
       DEF Knows, NamedErrorStatuses, NoWorkflow, Routes, Route, StartRoute
  <2>3. OnlyFit(BeforeCatalogsRows, o.method, o.path, "start")
    BY <2>1, OtherPathsApart DEF Operation
  <2> QED BY <2>1, <2>2, <2>3 DEF Reachable, Operation
<1>6. CASE o = getWorkflowIdStatus
  <2>1. o = Operation("GET", WorkflowPath("status"), {200, 404, 500})
    BY <1>6, PathOfWorkflow DEF getWorkflowIdStatus
  <2>2. Knows({200, 404, 500}, "status")
    BY StatusOfItself
       DEF Knows, NamedErrorStatuses, NoWorkflow, Routes, Route, StatusRoutes
  <2>3. OnlyFit(BeforeCatalogsRows, o.method, o.path, "status")
    BY <2>1, WorkflowPathsApart DEF Operation
  <2> QED BY <2>1, <2>2, <2>3 DEF Reachable, Operation
<1>7. CASE o = getWorkflowIdRunsRidStatus
  <2>1. o = Operation("GET", RunPath("status"), {200, 400, 404, 500})
    BY <1>7, PathOfRun DEF getWorkflowIdRunsRidStatus
  <2>2. Knows({200, 400, 404, 500}, "status_of_run")
    BY StatusOfItself
       DEF Knows, NamedErrorStatuses, NoWorkflow, Routes, Route, StatusRoutes
  <2>3. OnlyFit(BeforeCatalogsRows, o.method, o.path, "status_of_run")
    BY <2>1, RunPathsApart DEF Operation
  <2> QED BY <2>1, <2>2, <2>3 DEF Reachable, Operation
<1>8. CASE o = patchWorkflowIdStop
  <2>1. o = Operation("PATCH", WorkflowPath("stop"), {200, 404, 409, 500})
    BY <1>8, PathOfWorkflow DEF patchWorkflowIdStop
  <2>2. Knows({200, 404, 409, 500}, "stop")
    BY StatusOfItself
       DEF Knows, NamedErrorStatuses, NoWorkflow, Routes, Route, StopRoutes
  <2>3. OnlyFit(BeforeCatalogsRows, o.method, o.path, "stop")
    BY <2>1, WorkflowPathsApart DEF Operation
  <2> QED BY <2>1, <2>2, <2>3 DEF Reachable, Operation
<1>9. CASE o = patchWorkflowIdRunsRidStop
  <2>1. o = Operation("PATCH", RunPath("stop"), {200, 400, 404, 409, 500})
    BY <1>9, PathOfRun DEF patchWorkflowIdRunsRidStop
  <2>2. Knows({200, 400, 404, 409, 500}, "stop_run")
    BY StatusOfItself
       DEF Knows, NamedErrorStatuses, NoWorkflow, Routes, Route, StopRoutes
  <2>3. OnlyFit(BeforeCatalogsRows, o.method, o.path, "stop_run")
    BY <2>1, RunPathsApart DEF Operation
  <2> QED BY <2>1, <2>2, <2>3 DEF Reachable, Operation
<1>10. CASE o = postWorkflowIdTerminate
  <2>1. o = Operation("POST", WorkflowPath("terminate"), {200, 400, 404, 409, 500})
    BY <1>10, PathOfWorkflow DEF postWorkflowIdTerminate
  <2>2. Knows({200, 400, 404, 409, 500}, "terminate")
    BY StatusOfItself
       DEF Knows, NamedErrorStatuses, NoWorkflow, Routes, Route, TerminateRoute
  <2>3. OnlyFit(BeforeCatalogsRows, o.method, o.path, "terminate")
    BY <2>1, WorkflowPathsApart DEF Operation
  <2> QED BY <2>1, <2>2, <2>3 DEF Reachable, Operation
<1>11. CASE o = postWorkflowIdRunsRidTerminate
  <2>1. o = Operation("POST", RunPath("terminate"), {200, 400, 404, 409, 500})
    BY <1>11, PathOfRun DEF postWorkflowIdRunsRidTerminate
  <2>2. Knows({200, 400, 404, 409, 500}, "terminate")
    BY StatusOfItself
       DEF Knows, NamedErrorStatuses, NoWorkflow, Routes, Route, TerminateRoute
  <2>3. OnlyFit(BeforeCatalogsRows, o.method, o.path, "terminate")
    BY <2>1, RunPathsApart DEF Operation
  <2> QED BY <2>1, <2>2, <2>3 DEF Reachable, Operation
<1>12. CASE o = postWorkflowIdReset
  <2>1. o = Operation("POST", WorkflowPath("reset"), {200, 400, 404, 409, 500})
    BY <1>12, PathOfWorkflow DEF postWorkflowIdReset
  <2>2. Knows({200, 400, 404, 409, 500}, "reset")
    BY StatusOfItself
       DEF Knows, NamedErrorStatuses, NoWorkflow, Routes, Route, ResetRoute
  <2>3. OnlyFit(BeforeCatalogsRows, o.method, o.path, "reset")
    BY <2>1, WorkflowPathsApart DEF Operation
  <2> QED BY <2>1, <2>2, <2>3 DEF Reachable, Operation
<1>13. CASE o = postWorkflowIdRunsRidReset
  <2>1. o = Operation("POST", RunPath("reset"), {200, 400, 404, 409, 500})
    BY <1>13, PathOfRun DEF postWorkflowIdRunsRidReset
  <2>2. Knows({200, 400, 404, 409, 500}, "reset")
    BY StatusOfItself
       DEF Knows, NamedErrorStatuses, NoWorkflow, Routes, Route, ResetRoute
  <2>3. OnlyFit(BeforeCatalogsRows, o.method, o.path, "reset")
    BY <2>1, RunPathsApart DEF Operation
  <2> QED BY <2>1, <2>2, <2>3 DEF Reachable, Operation
<1>14. CASE o = getWorkflowIdResult
  <2>1. o = Operation("GET", WorkflowPath("result"), {200, 404, 424, 500})
    BY <1>14, PathOfWorkflow DEF getWorkflowIdResult
  <2>2. Knows({200, 404, 424, 500}, "result")
    BY StatusOfItself
       DEF Knows, NamedErrorStatuses, NoWorkflow, Routes, Route, ResultRoutes
  <2>3. OnlyFit(BeforeCatalogsRows, o.method, o.path, "result")
    BY <2>1, WorkflowPathsApart DEF Operation
  <2> QED BY <2>1, <2>2, <2>3 DEF Reachable, Operation
<1>15. CASE o = getWorkflowIdRunsRidResult
  <2>1. o = Operation("GET", RunPath("result"), {200, 400, 404, 424, 500})
    BY <1>15, PathOfRun DEF getWorkflowIdRunsRidResult
  <2>2. Knows({200, 400, 404, 424, 500}, "result_of_run")
    BY StatusOfItself
       DEF Knows, NamedErrorStatuses, NoWorkflow, Routes, Route, ResultRoutes
  <2>3. OnlyFit(BeforeCatalogsRows, o.method, o.path, "result_of_run")
    BY <2>1, RunPathsApart DEF Operation
  <2> QED BY <2>1, <2>2, <2>3 DEF Reachable, Operation
<1>16. CASE o = getWorkflowIdInput
  <2>1. o = Operation("GET", WorkflowPath("input"), {200, 404, 500})
    BY <1>16, PathOfWorkflow DEF getWorkflowIdInput
  <2>2. Knows({200, 404, 500}, "input")
    BY StatusOfItself
       DEF Knows, NamedErrorStatuses, NoWorkflow, Routes, Route, InputRoutes
  <2>3. OnlyFit(BeforeCatalogsRows, o.method, o.path, "input")
    BY <2>1, WorkflowPathsApart DEF Operation
  <2> QED BY <2>1, <2>2, <2>3 DEF Reachable, Operation
<1>17. CASE o = getWorkflowIdRunsRidInput
  <2>1. o = Operation("GET", RunPath("input"), {200, 400, 404, 500})
    BY <1>17, PathOfRun DEF getWorkflowIdRunsRidInput
  <2>2. Knows({200, 400, 404, 500}, "input_of_run")
    BY StatusOfItself
       DEF Knows, NamedErrorStatuses, NoWorkflow, Routes, Route, InputRoutes
  <2>3. OnlyFit(BeforeCatalogsRows, o.method, o.path, "input_of_run")
    BY <2>1, RunPathsApart DEF Operation
  <2> QED BY <2>1, <2>2, <2>3 DEF Reachable, Operation
<1>18. CASE o = getWorkflowIdTraceLog
  <2>1. o = Operation("GET", WorkflowPath("trace-log"), {200, 404, 424, 500})
    BY <1>18, PathOfWorkflow DEF getWorkflowIdTraceLog
  <2>2. Knows({200, 404, 424, 500}, "trace_log")
    BY StatusOfItself
       DEF Knows, NamedErrorStatuses, NoWorkflow, Routes, Route, TraceLogRoutes
  <2>3. OnlyFit(BeforeCatalogsRows, o.method, o.path, "trace_log")
    BY <2>1, WorkflowPathsApart DEF Operation
  <2> QED BY <2>1, <2>2, <2>3 DEF Reachable, Operation
<1>19. CASE o = getWorkflowIdRunsRidTraceLog
  <2>1. o = Operation("GET", RunPath("trace-log"), {200, 400, 404, 424, 500})
    BY <1>19, PathOfRun DEF getWorkflowIdRunsRidTraceLog
  <2>2. Knows({200, 400, 404, 424, 500}, "trace_log_of_run")
    BY StatusOfItself
       DEF Knows, NamedErrorStatuses, NoWorkflow, Routes, Route, TraceLogRoutes
  <2>3. OnlyFit(BeforeCatalogsRows, o.method, o.path, "trace_log_of_run")
    BY <2>1, RunPathsApart DEF Operation
  <2> QED BY <2>1, <2>2, <2>3 DEF Reachable, Operation
<1>20. CASE o = getWorkflowIdHistory
  <2>1. o = Operation("GET", WorkflowPath("history"), {200, 400, 404, 500})
    BY <1>20, PathOfWorkflow DEF getWorkflowIdHistory
  <2>2. Knows({200, 400, 404, 500}, "history")
    BY StatusOfItself
       DEF Knows, NamedErrorStatuses, NoWorkflow, Routes, Route, HistoryRoute
  <2>3. OnlyFit(BeforeCatalogsRows, o.method, o.path, "history")
    BY <2>1, WorkflowPathsApart DEF Operation
  <2> QED BY <2>1, <2>2, <2>3 DEF Reachable, Operation
<1>21. CASE o = getWorkflowIdRunsRidHistory
  <2>1. o = Operation("GET", RunPath("history"), {200, 400, 404, 500})
    BY <1>21, PathOfRun DEF getWorkflowIdRunsRidHistory
  <2>2. Knows({200, 400, 404, 500}, "history")
    BY StatusOfItself
       DEF Knows, NamedErrorStatuses, NoWorkflow, Routes, Route, HistoryRoute
  <2>3. OnlyFit(BeforeCatalogsRows, o.method, o.path, "history")
    BY <2>1, RunPathsApart DEF Operation
  <2> QED BY <2>1, <2>2, <2>3 DEF Reachable, Operation
<1>22. CASE o = getWorkflowIdHistoryStream
  <2>1. o = Operation("GET", WorkflowPathOn("history", "stream"), {200, 400, 404, 500})
    BY <1>22, PathOfWorkflowOn DEF getWorkflowIdHistoryStream
  <2>2. Knows({200, 400, 404, 500}, "history")
    BY StatusOfItself
       DEF Knows, NamedErrorStatuses, NoWorkflow, Routes, Route, HistoryRoute
  <2>3. OnlyFit(BeforeCatalogsRows, o.method, o.path, "history")
    BY <2>1, WorkflowPathsApart DEF Operation
  <2> QED BY <2>1, <2>2, <2>3 DEF Reachable, Operation
<1>23. CASE o = getWorkflowIdRunsRidHistoryStream
  <2>1. o = Operation("GET", RunPathOn("history", "stream"), {200, 400, 404, 500})
    BY <1>23, PathOfRunOn DEF getWorkflowIdRunsRidHistoryStream
  <2>2. Knows({200, 400, 404, 500}, "history")
    BY StatusOfItself
       DEF Knows, NamedErrorStatuses, NoWorkflow, Routes, Route, HistoryRoute
  <2>3. OnlyFit(BeforeCatalogsRows, o.method, o.path, "history")
    BY <2>1, RunPathsApart DEF Operation
  <2> QED BY <2>1, <2>2, <2>3 DEF Reachable, Operation
<1>24. CASE o = getWorkflowCatalog
  <2>1. o = Operation("GET", <<"workflow", "catalog">>, {200, 404, 500})
    BY <1>24 DEF getWorkflowCatalog
  <2>2. Knows({200, 404, 500}, Nothing)
    BY DEF Knows
  <2>3. OnlyFit(RouteTableRows, o.method, o.path, Nothing)
    BY <2>1, OtherPathsApart DEF Operation
  <2> QED BY <2>1, <2>2, <2>3 DEF Reachable, Operation
<1>25. CASE o = getWorkflowRuns
  <2>1. o = Operation("GET", <<"workflow", "runs">>, {200, 400, 500})
    BY <1>25 DEF getWorkflowRuns
  <2>2. Knows({200, 400, 500}, "runs")
    BY StatusOfItself
       DEF Knows, NamedErrorStatuses, NoWorkflow, Routes, Route, RunsRoute
  <2>3. OnlyFit(RouteTableRows, o.method, o.path, "runs")
    BY <2>1, OtherPathsApart DEF Operation
  <2> QED BY <2>1, <2>2, <2>3 DEF Reachable, Operation
<1>26. CASE o = postWorkflowIdFeedback
  <2>1. o = Operation("POST", WorkflowPath("feedback"), {200, 400, 404, 500})
    BY <1>26, PathOfWorkflow DEF postWorkflowIdFeedback
  <2>2. Knows({200, 400, 404, 500}, "feedback")
    BY StatusOfItself
       DEF Knows, NamedErrorStatuses, NoWorkflow, Routes, Route, FeedbackRoute
  <2>3. OnlyFit(RouteTableRows, o.method, o.path, "feedback")
    BY <2>1, MessagePathsApart DEF Operation
  <2> QED BY <2>1, <2>2, <2>3 DEF Reachable, Operation
<1>27. CASE o = postWorkflowIdSignalSignal
  <2>1. o = Operation("POST", WorkflowPathOn("signal", ":signal"), {200, 400, 404, 500})
    BY <1>27, PathOfWorkflowOn DEF postWorkflowIdSignalSignal
  <2>2. Knows({200, 400, 404, 500}, "signal")
    BY StatusOfItself
       DEF Knows, NamedErrorStatuses, NoWorkflow, Routes, Route, SignalRoute
  <2>3. OnlyFit(RouteTableRows, o.method, o.path, "signal")
    BY <2>1, MessagePathsApart DEF Operation
  <2> QED BY <2>1, <2>2, <2>3 DEF Reachable, Operation
<1>28. CASE o = postWorkflowIdQueryQuery
  <2>1. o = Operation("POST", WorkflowPathOn("query", ":query"), {200, 400, 404, 500})
    BY <1>28, PathOfWorkflowOn DEF postWorkflowIdQueryQuery
  <2>2. Knows({200, 400, 404, 500}, "query")
    BY StatusOfItself
       DEF Knows, NamedErrorStatuses, NoWorkflow, Routes, Route, QueryRoute
  <2>3. OnlyFit(RouteTableRows, o.method, o.path, "query")
    BY <2>1, MessagePathsApart DEF Operation
  <2> QED BY <2>1, <2>2, <2>3 DEF Reachable, Operation
<1>29. CASE o = postWorkflowIdUpdateUpdate
  <2>1. o = Operation("POST", WorkflowPathOn("update", ":update"), {200, 400, 404, 500})
    BY <1>29, PathOfWorkflowOn DEF postWorkflowIdUpdateUpdate
  <2>2. Knows({200, 400, 404, 500}, "update")
    BY StatusOfItself
       DEF Knows, NamedErrorStatuses, NoWorkflow, Routes, Route, UpdateRoute
  <2>3. OnlyFit(RouteTableRows, o.method, o.path, "update")
    BY <2>1, MessagePathsApart DEF Operation
  <2> QED BY <2>1, <2>2, <2>3 DEF Reachable, Operation
<1>30. CASE o \in OperationsOfWorkflow
  BY <1>6, <1>8, <1>10, <1>12, <1>14, <1>16, <1>18, <1>20, <1>22, <1>26, <1>27, <1>28, <1>29,
     <1>30 DEF OperationsOfWorkflow
<1>31. CASE o \in OperationsOfRun
  BY <1>7, <1>9, <1>11, <1>13, <1>15, <1>17, <1>19, <1>21, <1>23, <1>31 DEF OperationsOfRun
<1> QED BY <1>1, <1>2, <1>3, <1>4, <1>5, <1>24, <1>25, <1>30, <1>31 DEF Operations

LEMMA TablesLead ==
  Leads(BeforeCatalogs, BeforeCatalogsRows) /\ Leads(RouteTable, RouteTableRows)
<1>1. Len(RouteTable) \in Nat
  BY RowsOfTable, RowsInOrder
<1> QED BY <1>1, RowsOfTable DEF Leads

(* Every operation but that on one catalog reaches its route, whatever the ids. *)
LEMMA OthersReachTheirOwn ==
  ASSUME NEW o \in Operations \ {getWorkflowCatalogId}, NEW arguments,
         DOMAIN arguments = {o.path[i] : i \in DOMAIN o.path} \cap Parameters,
         NEW url, url = UrlOf(o, arguments),
         NEW reached, reached = Dispatch(o.method, url)
  PROVE  ReachesOwn(o, arguments, reached)
<1>1. Leads(BeforeCatalogs, BeforeCatalogsRows) /\ Leads(RouteTable, RouteTableRows)
  BY TablesLead
<1>2. PICK route : Reachable(o, route)
  BY OnlyOneFits
<1> DEFINE method == o.method
           path == o.path
           expects == o.expects
<1>3. o = Operation(method, path, expects)
  BY <1>2 DEF Reachable
<1>4. /\ reached = Dispatch(method, url)
      /\ DOMAIN arguments = {path[i] : i \in DOMAIN path} \cap Parameters
  OBVIOUS
<1>5. PICK t, T : Leads(t, T) /\ OnlyFit(T, method, path, route)
  BY <1>1, <1>2 DEF Reachable
<1>6. Len(path) \in Nat /\ DOMAIN path = 1 .. Len(path) /\ Knows(expects, route)
  BY <1>2, <1>5 DEF OnlyFit, Reachable
<1> HIDE DEF method, path, expects
<1>7. FitsAlone(T, url, method, path, route)
  BY <1>3, <1>5, FitsIfItResembles
<1> QED BY <1>3, <1>4, <1>5, <1>6, <1>7, ReachesOnlyFit

(* The operations on a workflow that a request for a catalog can be taken for. *)
Namesakes == {"status", "result", "input", "trace-log", "history"}

(* The last segment of the path of an operation on a workflow is no parameter, where it is
   the third. *)
LEMMA LastOfWorkflow ==
  ASSUME NEW o \in OperationsOfWorkflow, o.path[3] \in Parameters
  PROVE  FALSE
BY PathOfWorkflow, PathOfWorkflowOn
   DEF OperationsOfWorkflow, Operation, Parameters, WorkflowPath, WorkflowPathOn,
       getWorkflowIdStatus, patchWorkflowIdStop, postWorkflowIdTerminate, postWorkflowIdReset,
       getWorkflowIdResult, getWorkflowIdInput, getWorkflowIdTraceLog, getWorkflowIdHistory,
       getWorkflowIdHistoryStream, postWorkflowIdFeedback, postWorkflowIdSignalSignal,
       postWorkflowIdQueryQuery, postWorkflowIdUpdateUpdate

LEMMA NamesakesAreTaken ==
  ASSUME NEW request, request.operation = getWorkflowCatalogId,
         request.arguments[":id"] \in Namesakes
  PROVE  TakenFor(request) # {}
<1>1. ASSUME NEW o \in OperationsOfWorkflow, o.method = "GET",
             o.path = OfWorkflow(<<request.arguments[":id"]>>)
      PROVE  TakenFor(request) # {}
  <2>1. o \in TakenFor(request)
    BY <1>1 DEF TakenFor
  <2> QED BY <2>1
<1>2. /\ getWorkflowIdStatus \in OperationsOfWorkflow /\ getWorkflowIdResult \in OperationsOfWorkflow
      /\ getWorkflowIdInput \in OperationsOfWorkflow /\ getWorkflowIdTraceLog \in OperationsOfWorkflow
      /\ getWorkflowIdHistory \in OperationsOfWorkflow
  BY DEF OperationsOfWorkflow
<1>3. /\ getWorkflowIdStatus.method = "GET" /\ getWorkflowIdStatus.path = OfWorkflow(<<"status">>)
      /\ getWorkflowIdResult.method = "GET" /\ getWorkflowIdResult.path = OfWorkflow(<<"result">>)
      /\ getWorkflowIdInput.method = "GET" /\ getWorkflowIdInput.path = OfWorkflow(<<"input">>)
      /\ getWorkflowIdTraceLog.method = "GET"
      /\ getWorkflowIdTraceLog.path = OfWorkflow(<<"trace-log">>)
      /\ getWorkflowIdHistory.method = "GET" /\ getWorkflowIdHistory.path = OfWorkflow(<<"history">>)
  BY DEF Operation, getWorkflowIdStatus, getWorkflowIdResult, getWorkflowIdInput,
         getWorkflowIdTraceLog, getWorkflowIdHistory
<1> DEFINE id == request.arguments[":id"]
<1>4. CASE id = "status"
  BY <1>1, <1>2, <1>3, <1>4
<1>5. CASE id = "result"
  BY <1>1, <1>2, <1>3, <1>5
<1>6. CASE id = "input"
  BY <1>1, <1>2, <1>3, <1>6
<1>7. CASE id = "trace-log"
  BY <1>1, <1>2, <1>3, <1>7
<1>8. CASE id = "history"
  BY <1>1, <1>2, <1>3, <1>8
<1> QED BY <1>4, <1>5, <1>6, <1>7, <1>8 DEF Namesakes

(* One and the same path stands for the catalog and for the workflow "catalog". *)
LEMMA TakenForWorkflow ==
  ASSUME NEW request, IsRequest(request), NEW o \in TakenFor(request),
         NEW reached, reached = Dispatch("GET", UrlOf(request.operation, request.arguments))
  PROVE  /\ reached.path = o.path /\ reached.taken = {<<":id", "catalog">>}
         /\ request.operation = getWorkflowCatalogId
<1> DEFINE id == request.arguments[":id"]
           asked == [p \in {":id"} |-> "catalog"]
           url == <<"workflow", "catalog", id>>
<1>1. /\ o \in OperationsOfWorkflow /\ request.operation = getWorkflowCatalogId
      /\ o.method = "GET" /\ o.path = OfWorkflow(<<id>>)
  BY DEF TakenFor
<1>2. o.path = <<"workflow", ":id", id>>
  BY <1>1, PathOfWorkflow DEF WorkflowPath
<1>3. o \in Operations \ {getWorkflowCatalogId}
  <2>1. getWorkflowCatalogId.path = <<"workflow", "catalog", ":id">>
    BY DEF getWorkflowCatalogId, Operation
  <2>2. getWorkflowCatalogId.path[2] = "catalog" /\ o.path[2] = ":id"
    BY <1>2, <2>1
  <2> QED BY <1>1, <2>2 DEF Operations
<1>4. id \notin Parameters
  BY <1>1, <1>2, LastOfWorkflow
<1> HIDE DEF id
<1>5. UrlOf(request.operation, request.arguments) = url
  <2>1. request.operation.path = <<"workflow", "catalog", ":id">>
    BY <1>1 DEF getWorkflowCatalogId, Operation
  <2> QED BY <2>1 DEF UrlOf, Parameters, id
<1>6. UrlOf(o, asked) = url
  BY <1>2, <1>4 DEF UrlOf, Parameters
<1>7. DOMAIN asked = {o.path[i] : i \in DOMAIN o.path} \cap Parameters
  BY <1>2, <1>4 DEF Parameters
<1>8. ReachesOwn(o, asked, reached)
  <2> HIDE DEF asked, url
  <2> QED BY <1>1, <1>3, <1>5, <1>6, <1>7, OthersReachTheirOwn
<1>9. {<<p, asked[p]>> : p \in DOMAIN asked} = {<<":id", "catalog">>}
  OBVIOUS
<1> QED BY <1>1, <1>8, <1>9 DEF ReachesOwn

LEMMA RequestsAreAnswered ==
  ASSUME NEW request, IsRequest(request), NEW o, o = request.operation,
         NEW url, url = UrlOf(o, request.arguments),
         NEW reached, reached = Dispatch(o.method, url)
  PROVE  ReachesItsRoute(request, reached)
<1>1. o \in Operations /\ DOMAIN request.arguments = {o.path[i] : i \in DOMAIN o.path} \cap Parameters
  BY DEF IsRequest
<1>2. Leads(RouteTable, RouteTableRows)
  BY TablesLead
<1>3. CASE o # getWorkflowCatalogId
  <2>1. ReachesOwn(o, request.arguments, reached)
    BY <1>1, <1>3, OthersReachTheirOwn
  <2>2. TakenFor(request) = {}
    BY <1>3 DEF TakenFor
  <2> QED BY <2>1, <2>2 DEF ReachesItsRoute, ReachesOwn
<1>4. CASE o = getWorkflowCatalogId /\ TakenFor(request) # {}
  <2>1. PICK p \in TakenFor(request) : TRUE
    BY <1>4
  <2>2. o.method = "GET"
    BY <1>4 DEF getWorkflowCatalogId, Operation
  <2>3. reached.path = p.path /\ reached.taken = {<<":id", "catalog">>}
    BY <2>1, <2>2, TakenForWorkflow
  <2>4. reached.path \in {x.path : x \in TakenFor(request)}
    BY <2>1, <2>3
  <2> QED BY <1>4, <2>3, <2>4 DEF ReachesItsRoute
<1>5. CASE o = getWorkflowCatalogId /\ TakenFor(request) = {}
  <2> DEFINE path == <<"workflow", "catalog", ":id">>
             own == Entry("GET", path, Nothing)
  <2>1. o = Operation("GET", path, {200, 404, 500}) /\ o.method = "GET" /\ o.path = path
    BY <1>5 DEF getWorkflowCatalogId, Operation
  <2>2. Len(path) \in Nat /\ DOMAIN path = 1 .. Len(path)
    OBVIOUS
  <2>3. own \in RouteTableRows
    BY DEF RouteTableRows, CatalogAndRunsRows
  <2>4. Knows({200, 404, 500}, Nothing)
    BY DEF Knows
  <2>5. /\ reached = Dispatch("GET", url)
        /\ DOMAIN request.arguments = {path[i] : i \in DOMAIN path} \cap Parameters
    BY <1>1, <2>1
  <2>6. ASSUME NEW r \in RouteTableRows, r.method = "GET", Fits(url, r.path)
        PROVE  r = own
    <3> DEFINE third == request.arguments[":id"]
    <3>1. Resemble(path, r.path)
      <4>1. Len(o.path) \in Nat /\ DOMAIN o.path = 1 .. Len(o.path)
        BY <2>1, <2>2
      <4>2. \A pattern : Fits(url, pattern) => Resemble(o.path, pattern)
        <5> HIDE DEF path, own
        <5> QED BY <4>1, <1>1, UrlHasItsForm
      <4> QED BY <4>2, <2>1, <2>6
    <3>2. third \notin {"status", "result", "input", "trace-log", "history"}
      BY <1>5, NamesakesAreTaken DEF Namesakes
    <3>3. DOMAIN url = 1 .. 3 /\ url[3] = third
      <4>1. DOMAIN url = 1 .. Len(path)
        BY <2>1, <2>2, UrlHasItsForm
      <4>2. \A i \in 1 .. Len(path) :
              url[i] = IF path[i] \in Parameters THEN request.arguments[path[i]] ELSE path[i]
        BY <2>1, <2>2, UrlHasItsForm
      <4>3. Len(path) = 3 /\ path[3] = ":id" /\ ":id" \in Parameters
        BY DEF Parameters
      <4> HIDE DEF path
      <4> QED BY <4>1, <4>2, <4>3
    <3> HIDE DEF third
    <3>4. r.path[3] \in Parameters \/ r.path[3] = third
      BY <2>6, <3>3 DEF Fits
    <3> QED BY <2>6, <3>1, <3>2, <3>4
        DEF Entry, Resemble, Parameters, Nothing, BeforeCatalogsRows,
       OpenRoutesRows, RunAndStartRows, StatusAndStopRows,
            TerminateAndResetRows, ResultAndInputRows, TraceLogRows, HistoryAndStreamRows,
            WorkflowPath, WorkflowPathOn, RunPath, RunPathOn,
            RouteTableRows, CatalogAndRunsRows, MessagesRows, HeartbeatRows
  <2>7. FitsAlone(RouteTableRows, url, "GET", path, Nothing)
    BY <2>3, <2>6 DEF FitsAlone
  <2>8. o = Operation("GET", path, {200, 404, 500}) /\ Knows({200, 404, 500}, Nothing)
    BY <2>1, <2>4
  <2>9. ReachesOwn(o, request.arguments, reached)
    <3> HIDE DEF path, own
    <3> QED BY <1>2, <2>2, <2>5, <2>7, <2>8, ReachesOnlyFit
  <2> QED BY <1>5, <2>9 DEF ReachesItsRoute, ReachesOwn
<1> QED BY <1>3, <1>4, <1>5

(* An operation of the client comes to the one route it was generated for, with the ids it
   was called with, and knows what that route answers (cli/src/api/generated/api.ts,
   api/src/index.js). *)
THEOREM RequestsReach == Spec => []RequestsReachTheirRoute
<1>1. AnswersAsComputed => RequestsReachTheirRoute
  <2> SUFFICES ASSUME AnswersAsComputed, Told("request")
               PROVE  ReachesItsRoute(given.input, told[1])
    BY DEF RequestsReachTheirRoute
  <2>1. IsRequest(given.input)
    BY RequestsAssumption DEF AnswersAsComputed, Told
  <2>2. told[1] = Dispatch(given.input.operation.method,
                           UrlOf(given.input.operation, given.input.arguments))
    BY DEF AnswersAsComputed, Told
  <2> QED BY <2>1, <2>2, RequestsAreAnswered
<1> QED BY <1>1, AlwaysComputed, PTL

-----------------------------------------------------------------------------
(* The bill and the report: what ChargeProofs says of them, for each that is computed. *)

(* A cost tells the truth about itself: a precise one is the bill of every request at the
   rates of its own tier and of every search, and one that is not called incomplete leaves
   nothing out (core/src/llm/utils/cost.js, usage.js, metering.js). *)
THEOREM BillsTellTheTruth == Spec => []BillsByTheRequest
<1>1. AnswersAsComputed => BillsByTheRequest
  <2> SUFFICES ASSUME AnswersAsComputed, Told("bill")
               PROVE  StatusTellsTheBill(given.input, told[1])
    BY DEF BillsByTheRequest
  <2>1. IsCall(given.input)
    BY CallsAssumption DEF AnswersAsComputed, Told
  <2>2. told[1] = CalculateCosts(given.input)
    BY DEF AnswersAsComputed, Told
  <2> QED BY <2>1, <2>2, CostsTellTheBill
<1> QED BY <1>1, AlwaysComputed, PTL

(* The report counts every charge of a trace once, its figures by model and by host add up
   to its totals, and at the rates the SDK used it recomputes what was charged
   (cli/src/services/cost_calculator.ts). *)
THEOREM ReportsTellTheCharges == Spec => []ReportsEachChargeOnce
<1>1. AnswersAsComputed => ReportsEachChargeOnce
  <2> SUFFICES ASSUME AnswersAsComputed, Told("report")
               PROVE  EachChargeOnce(given.input.trace, given.input.config, told[1])
    BY DEF ReportsEachChargeOnce
  <2>1. IsReport(given.input)
    BY ReportsAssumption DEF AnswersAsComputed, Told
  <2>2. told[1] = CalculateCost(given.input.trace, given.input.config)
    BY DEF AnswersAsComputed, Told
  <2>3. IsReport([trace |-> given.input.trace, config |-> given.input.config])
    BY <2>1 DEF IsReport
  <2> QED BY <2>2, <2>3, ReportIsRight
<1> QED BY <1>1, AlwaysComputed, PTL

-----------------------------------------------------------------------------
(* The cases asked for. *)

(* Induction up to n, for a set in place of a predicate. *)
LEMMA UpTo ==
  ASSUME NEW n \in Nat, NEW S, 0 \in S, \A k \in 1 .. n : k - 1 \in S => k \in S
  PROVE  \A k \in 0 .. n : k \in S
<1> SUFFICES ASSUME NEW b \in 0 .. n, b \notin S PROVE FALSE
  OBVIOUS
<1> DEFINE bad == {i \in 0 .. n : i \notin S}
<1>1. PICK k \in bad : \A i \in bad : k <= i
  <2>1. bad \in SUBSET Nat /\ bad # {}
    OBVIOUS
  <2> HIDE DEF bad
  <2> QED BY <2>1, Least
<1>2. k \in 1 .. n /\ k - 1 \in 0 .. n /\ ~(k <= k - 1)
  BY <1>1
<1>3. k - 1 \notin bad
  BY <1>1, <1>2
<1> QED BY <1>1, <1>2, <1>3

IsCases(cases) ==
    /\ Len(cases) \in Nat /\ DOMAIN cases = 1 .. Len(cases)
    /\ \A k \in DOMAIN cases : IsCase(cases[k])

ReadTo(read, cases, asked, k) ==
    IF k = 0 THEN <<>>
    ELSE IF cases[k].name \in asked THEN Append(read[k - 1], cases[k])
    ELSE read[k - 1]

Reading(read, cases, asked, n) == read = [k \in 0 .. n |-> ReadTo(read, cases, asked, k)]

LEMMA ReadingExists ==
  ASSUME NEW cases, NEW asked, NEW n \in Nat
  PROVE  \E read : Reading(read, cases, asked, n)
<1> DEFINE S == {k \in 0 .. n : \E read : Reading(read, cases, asked, k)}
<1>1. 0 \in S
  <2>1. Reading([k \in 0 .. 0 |-> <<>>], cases, asked, 0)
    BY DEF Reading, ReadTo
  <2> QED BY <2>1
<1>2. ASSUME NEW k \in 1 .. n, k - 1 \in S PROVE k \in S
  <2>1. PICK read : Reading(read, cases, asked, k - 1)
    BY <1>2
  <2> DEFINE more == [i \in 0 .. k |-> ReadTo(read, cases, asked, i)]
  <2>2. \A i \in 0 .. k - 1 : more[i] = read[i]
    BY <1>2, <2>1 DEF Reading
  <2>3. \A i \in 0 .. k : ReadTo(read, cases, asked, i) = ReadTo(more, cases, asked, i)
    <3> SUFFICES ASSUME NEW i \in 0 .. k
                 PROVE  ReadTo(read, cases, asked, i) = ReadTo(more, cases, asked, i)
      OBVIOUS
    <3>1. i # 0 => more[i - 1] = read[i - 1]
      <4> HIDE DEF more
      <4> QED BY <1>2, <2>2
    <3> HIDE DEF more
    <3> QED BY <3>1 DEF ReadTo
  <2>4. more = [i \in 0 .. k |-> ReadTo(more, cases, asked, i)]
    BY <2>3
  <2> HIDE DEF more
  <2> QED BY <2>4 DEF Reading
<1>3. \A k \in 0 .. n : k \in S
  <2> HIDE DEF S
  <2> QED BY <1>1, <1>2, UpTo
<1> QED BY <1>3

(* A part of what is asked for, read so far. *)
Chosen(cases, asked, k) == {j \in 1 .. k : cases[j].name \in asked}

ReadSoFar(d, cases, asked, k) ==
    /\ d \in Seq({cases[j] : j \in DOMAIN cases})
    /\ \A i \in 1 .. Len(d) : \E j \in Chosen(cases, asked, k) : d[i] = cases[j]
    /\ \A j \in Chosen(cases, asked, k) : \E i \in 1 .. Len(d) : d[i] = cases[j]
    /\ IsFiniteSet(Chosen(cases, asked, k)) /\ Len(d) = Cardinality(Chosen(cases, asked, k))

LEMMA ReadOneMore ==
  ASSUME NEW cases, IsCases(cases), NEW asked, NEW k \in 1 .. Len(cases), NEW d,
         ReadSoFar(d, cases, asked, k - 1), cases[k].name \in asked
  PROVE  ReadSoFar(Append(d, cases[k]), cases, asked, k)
<1> DEFINE more == Append(d, cases[k])
<1> DEFINE S == {cases[j] : j \in DOMAIN cases}
<1>1. k \in DOMAIN cases /\ cases[k] \in S /\ Len(cases) \in Nat /\ k \in Nat
  BY DEF IsCases
<1>2. d \in Seq(S)
  BY DEF ReadSoFar
<1> HIDE DEF S
<1>3. /\ more \in Seq(S) /\ Len(more) = Len(d) + 1 /\ Len(d) \in Nat
      /\ \A i \in 1 .. Len(d) : more[i] = d[i]
      /\ more[Len(d) + 1] = cases[k]
  BY <1>1, <1>2
<1>4. /\ Chosen(cases, asked, k) = Chosen(cases, asked, k - 1) \cup {k}
      /\ k \notin Chosen(cases, asked, k - 1)
  BY <1>1 DEF Chosen
<1>5. /\ IsFiniteSet(Chosen(cases, asked, k))
      /\ Cardinality(Chosen(cases, asked, k)) = Len(more)
  BY <1>3, <1>4, FS_AddElement DEF ReadSoFar
<1> HIDE DEF more
<1>6. ASSUME NEW i \in 1 .. Len(more)
      PROVE  \E j \in Chosen(cases, asked, k) : more[i] = cases[j]
  <2>1. CASE i = Len(d) + 1
    BY <2>1, <1>3, <1>4
  <2>2. CASE i # Len(d) + 1
    <3>1. i \in 1 .. Len(d) /\ more[i] = d[i]
      BY <2>2, <1>3
    <3>2. PICK j \in Chosen(cases, asked, k - 1) : d[i] = cases[j]
      BY <3>1 DEF ReadSoFar
    <3>3. j \in Chosen(cases, asked, k) /\ more[i] = cases[j]
      BY <3>1, <3>2, <1>4
    <3> QED BY <3>3
  <2> QED BY <2>1, <2>2
<1>7. ASSUME NEW j \in Chosen(cases, asked, k)
      PROVE  \E i \in 1 .. Len(more) : more[i] = cases[j]
  <2>1. CASE j = k
    <3>1. Len(d) + 1 \in 1 .. Len(more)
      BY <1>3
    <3> QED BY <2>1, <3>1, <1>3
  <2>2. CASE j \in Chosen(cases, asked, k - 1)
    <3>1. PICK i \in 1 .. Len(d) : d[i] = cases[j]
      BY <2>2 DEF ReadSoFar
    <3>2. i \in 1 .. Len(more)
      BY <1>3
    <3> QED BY <3>1, <3>2, <1>3
  <2> QED BY <2>1, <2>2, <1>4
<1>8. more \in Seq({cases[j] : j \in DOMAIN cases})
  BY <1>3 DEF S
<1>9. ReadSoFar(more, cases, asked, k)
  BY <1>5, <1>6, <1>7, <1>8 DEF ReadSoFar
<1> QED BY <1>9 DEF more

LEMMA ReadNoMore ==
  ASSUME NEW cases, NEW asked, NEW k \in Nat, NEW d,
         ReadSoFar(d, cases, asked, k - 1), cases[k].name \notin asked
  PROVE  ReadSoFar(d, cases, asked, k)
<1>1. Chosen(cases, asked, k) = Chosen(cases, asked, k - 1)
  BY DEF Chosen
<1> QED BY <1>1 DEF ReadSoFar

(* What is read is what is asked for. *)
LEMMA DatasetsAre ==
  ASSUME NEW cases, IsCases(cases), NEW asked
  PROVE  ReadSoFar(ReadAllDatasets(cases, asked), cases, asked, Len(cases))
<1> DEFINE read == CHOOSE read : read = [k \in 0 .. Len(cases) |->
                     IF k = 0 THEN <<>>
                     ELSE IF cases[k].name \in asked THEN Append(read[k - 1], cases[k])
                     ELSE read[k - 1]]
<1> DEFINE n == Len(cases)
<1>1. ReadAllDatasets(cases, asked) = read[n] /\ n \in Nat
  BY DEF ReadAllDatasets, IsCases
<1>2. Reading(read, cases, asked, n)
  <2>1. PICK r : Reading(r, cases, asked, n)
    BY <1>1, ReadingExists
  <2>2. r = [k \in 0 .. Len(cases) |->
                     IF k = 0 THEN <<>>
                     ELSE IF cases[k].name \in asked THEN Append(r[k - 1], cases[k])
                     ELSE r[k - 1]]
    BY <2>1 DEF Reading, ReadTo
  <2>3. read = [k \in 0 .. Len(cases) |->
                     IF k = 0 THEN <<>>
                     ELSE IF cases[k].name \in asked THEN Append(read[k - 1], cases[k])
                     ELSE read[k - 1]]
    BY <2>2, Zenon
  <2> HIDE DEF read
  <2> QED BY <2>3 DEF Reading, ReadTo
<1> HIDE DEF read
<1>3. \A k \in 0 .. n : read[k] = ReadTo(read, cases, asked, k)
  BY <1>2 DEF Reading
<1> DEFINE S == {k \in 0 .. n : ReadSoFar(read[k], cases, asked, k)}
<1>4. 0 \in S
  <2>1. read[0] = <<>> /\ 0 \in 0 .. n
    BY <1>1, <1>3 DEF ReadTo
  <2>2. Chosen(cases, asked, 0) = {}
    BY DEF Chosen
  <2>3. Len(<<>>) = 0 /\ <<>> \in Seq({cases[j] : j \in DOMAIN cases}) /\ 1 .. 0 = {}
    OBVIOUS
  <2>4. ReadSoFar(<<>>, cases, asked, 0)
    BY <2>2, <2>3, FS_EmptySet DEF ReadSoFar
  <2> QED BY <2>1, <2>4
<1>5. ASSUME NEW k \in 1 .. n, k - 1 \in S PROVE k \in S
  <2>1. k \in 0 .. n /\ k # 0 /\ k \in Nat
    BY <1>1
  <2>2. ReadSoFar(read[k - 1], cases, asked, k - 1)
    BY <1>5
  <2>3. ReadSoFar(read[k], cases, asked, k)
    BY <2>1, <2>2, <1>3, ReadOneMore, ReadNoMore DEF ReadTo
  <2> QED BY <2>1, <2>3
<1>6. n \in S
  <2>1. n \in Nat /\ n \in 0 .. n
    BY <1>1
  <2> HIDE DEF S, n
  <2>2. \A k \in 0 .. n : k \in S
    BY <2>1, <1>4, <1>5, UpTo
  <2> QED BY <2>1, <2>2
<1> QED BY <1>1, <1>6

-----------------------------------------------------------------------------
(* The judging. *)

LEMMA Increasing ==
  ASSUME NEW n \in Nat, NEW q \in [1 .. n -> 1 .. n],
         \A i, j \in 1 .. n : i < j => q[i] < q[j]
  PROVE  \A i \in 1 .. n : q[i] = i
<1> DEFINE low == {i \in 1 .. n : q[i] < i}
<1> DEFINE high == {i \in 1 .. n : q[i] > i}
<1>1. low = {}
  <2> SUFFICES ASSUME low # {} PROVE FALSE
    OBVIOUS
  <2>1. PICK i \in low : \A j \in low : i <= j
    <3>1. low \in SUBSET Nat
      OBVIOUS
    <3> HIDE DEF low
    <3> QED BY <3>1, Least
  <2>2. q[i] \in 1 .. n /\ i \in 1 .. n /\ q[i] < i
    BY <2>1
  <2>3. q[q[i]] < q[i]
    BY <2>2
  <2>4. q[i] \in low
    BY <2>2, <2>3
  <2> QED BY <2>1, <2>2, <2>4
<1>2. high = {}
  <2> SUFFICES ASSUME high # {} PROVE FALSE
    OBVIOUS
  <2>1. PICK i \in high : \A j \in high : j <= i
    <3>1. high \in SUBSET (1 .. n)
      OBVIOUS
    <3> HIDE DEF high
    <3> QED BY <3>1, LastPosition
  <2>2. q[i] \in 1 .. n /\ i \in 1 .. n /\ i < q[i]
    BY <2>1
  <2>3. q[i] < q[q[i]]
    BY <2>2
  <2>4. q[i] \in high
    BY <2>2, <2>3
  <2> QED BY <2>1, <2>2, <2>4
<1>3. \A i \in 1 .. n : q[i] \in 1 .. n /\ ~(q[i] < i) /\ ~(q[i] > i)
  BY <1>1, <1>2
<1> QED BY <1>3

(* Whatever order the jobs are done in, their results are in the order of the jobs. *)
LEMMA InOrder ==
  ASSUME NEW n \in Nat, NEW wins \in Bijection(1 .. n, 1 .. n), NEW results,
         results = [i \in 1 .. n |-> results[i]]
  PROVE  ExecuteInParallel(results, wins) = results
<1> DEFINE won == [k \in DOMAIN wins |-> [index |-> wins[k], result |-> results[wins[k]]]]
<1> DEFINE Sorts(p) == \A i, j \in DOMAIN won : i < j => won[p[i]].index < won[p[j]].index
<1> DEFINE order == CHOOSE p \in [DOMAIN won -> DOMAIN won] : Sorts(p)
<1>1. /\ wins \in [1 .. n -> 1 .. n]
      /\ \A i \in 1 .. n : \E k \in 1 .. n : wins[k] = i
  BY DEF Bijection, Injection, Surjection
<1>2. /\ DOMAIN won = 1 .. n
      /\ \A k \in 1 .. n : won[k].index = wins[k] /\ won[k].result = results[wins[k]]
  BY <1>1
<1>3. ExecuteInParallel(results, wins) = [i \in DOMAIN won |-> won[order[i]].result]
  BY DEF ExecuteInParallel
<1> HIDE DEF won
<1>4. \E p \in [DOMAIN won -> DOMAIN won] : Sorts(p)
  <2> DEFINE p == [i \in 1 .. n |-> CHOOSE k \in 1 .. n : wins[k] = i]
  <2>1. \A i \in 1 .. n : p[i] \in 1 .. n /\ wins[p[i]] = i
    BY <1>1
  <2>2. p \in [1 .. n -> 1 .. n]
    BY <2>1
  <2> HIDE DEF p
  <2>3. Sorts(p)
    BY <2>1, <1>2
  <2> QED BY <2>2, <2>3, <1>2
<1>5. order \in [1 .. n -> 1 .. n] /\ Sorts(order)
  <2> HIDE DEF Sorts
  <2> QED BY <1>4, <1>2
<1> HIDE DEF order
<1> DEFINE q == [i \in 1 .. n |-> wins[order[i]]]
<1>6. q \in [1 .. n -> 1 .. n] /\ \A i, j \in 1 .. n : i < j => q[i] < q[j]
  <2>1. \A i \in 1 .. n : order[i] \in 1 .. n /\ wins[order[i]] \in 1 .. n
    BY <1>1, <1>5
  <2>2. \A i, j \in 1 .. n : i < j => won[order[i]].index < won[order[j]].index
    BY <1>2, <1>5
  <2>3. \A i, j \in 1 .. n : i < j => wins[order[i]] < wins[order[j]]
    BY <1>2, <2>1, <2>2
  <2> QED BY <2>1, <2>3
<1>7. \A i \in 1 .. n : q[i] = i
  <2> HIDE DEF q
  <2> QED BY <1>6, Increasing
<1>8. \A i \in 1 .. n : won[order[i]].result = results[i]
  BY <1>2, <1>5, <1>7
<1>9. [i \in DOMAIN won |-> won[order[i]].result] = [i \in 1 .. n |-> results[i]]
  BY <1>2, <1>8
<1> QED BY <1>3, <1>9

(* What the eval workflow says of a case. *)
CaseOf(d, project) ==
    LET job == EvalJob(d, project.defs)
    IN  IF job.ok THEN job.result ELSE [datasetName |-> d.name, verdict |-> "fail"]

LEMMA CaseIs ==
  ASSUME NEW d, NEW project
  PROVE  /\ CaseOf(d, project).datasetName = d.name
         /\ CaseOf(d, project).verdict \in {"pass", "partial", "fail"}
         /\ CaseOf(d, project).verdict = "fail" <=> Unacceptable(d, project)
<1> DEFINE defs == project.defs
<1> DEFINE Value(k) == Judge(defs[k].name, d.output, MergedTruth(d.truth, defs[k]))
<1> DEFINE Verdict(k) == InterpretResult(Value(k)[1], defs[k])
<1> DEFINE results == [k \in DOMAIN defs |-> [required |-> defs[k].required, verdict |-> Verdict(k)]]
<1>1. EvalJob(d, defs) = IF \E k \in DOMAIN defs : Value(k) = <<>>
                         THEN [ok |-> FALSE]
                         ELSE [ok |-> TRUE, result |-> [datasetName |-> d.name,
                                                        verdict |-> AggregateCaseVerdict(results)]]
  BY DEF EvalJob
<1>2. Unacceptable(d, project) <=>
        \E k \in DOMAIN defs : Value(k) = <<>> \/ (defs[k].required /\ Verdict(k) = "fail")
  BY DEF Unacceptable
<1>3. /\ DOMAIN results = DOMAIN defs
      /\ \A k \in DOMAIN defs : /\ results[k].required <=> defs[k].required
                                /\ results[k].verdict = Verdict(k)
  <2> HIDE DEF Verdict
  <2> QED OBVIOUS
<1> HIDE DEF results, Value, Verdict, defs
<1>4. /\ AggregateCaseVerdict(results) \in {"pass", "partial", "fail"}
      /\ AggregateCaseVerdict(results) = "fail"
           <=> \E k \in DOMAIN results : results[k].required /\ results[k].verdict = "fail"
  BY DEF AggregateCaseVerdict
<1>5. AggregateCaseVerdict(results) = "fail"
           <=> \E k \in DOMAIN defs : defs[k].required /\ Verdict(k) = "fail"
  BY <1>3, <1>4
<1>6. CaseOf(d, project) = IF \E k \in DOMAIN defs : Value(k) = <<>>
                           THEN [datasetName |-> d.name, verdict |-> "fail"]
                           ELSE [datasetName |-> d.name, verdict |-> AggregateCaseVerdict(results)]
  <2> HIDE DEF AggregateCaseVerdict
  <2> QED BY <1>1 DEF CaseOf, defs
<1>7. CASE \E k \in DOMAIN defs : Value(k) = <<>>
  BY <1>2, <1>6, <1>7
<1>8. CASE ~\E k \in DOMAIN defs : Value(k) = <<>>
  BY <1>2, <1>4, <1>5, <1>6, <1>8
<1> QED BY <1>7, <1>8

LEMMA ThreeKinds ==
  ASSUME NEW n \in Nat, NEW v, \A i \in 1 .. n : v[i] \in {"pass", "partial", "fail"}
  PROVE  Cardinality({i \in 1 .. n : v[i] = "pass"}) + Cardinality({i \in 1 .. n : v[i] = "partial"})
           + Cardinality({i \in 1 .. n : v[i] = "fail"}) = n
<1> DEFINE Of(x) == {i \in 1 .. n : v[i] = x}
<1>1. IsFiniteSet(1 .. n) /\ Cardinality(1 .. n) = n
  BY FS_Interval
<1>2. \A x : IsFiniteSet(Of(x)) /\ Cardinality(Of(x)) \in Nat
  BY <1>1, FS_Subset, FS_CardinalityType
<1>3. Of("pass") \cap Of("partial") = {} /\ (Of("pass") \cup Of("partial")) \cap Of("fail") = {}
  OBVIOUS
<1>4. (Of("pass") \cup Of("partial")) \cup Of("fail") = 1 .. n
  OBVIOUS
<1> HIDE DEF Of
<1>5. /\ IsFiniteSet(Of("pass") \cup Of("partial"))
      /\ Cardinality(Of("pass") \cup Of("partial"))
           = Cardinality(Of("pass")) + Cardinality(Of("partial")) - 0
  BY <1>2, <1>3, FS_Union, FS_EmptySet
<1> DEFINE passed == Of("pass") \cup Of("partial")
<1>6. Cardinality(1 .. n) = Cardinality(passed) + Cardinality(Of("fail")) - 0
  <2>1. IsFiniteSet(passed) /\ IsFiniteSet(Of("fail"))
    BY <1>2, <1>5
  <2>2. passed \cap Of("fail") = {} /\ passed \cup Of("fail") = 1 .. n
    BY <1>3, <1>4
  <2> HIDE DEF passed
  <2>3. Cardinality(passed \cup Of("fail"))
          = Cardinality(passed) + Cardinality(Of("fail")) - Cardinality(passed \cap Of("fail"))
    BY <2>1, FS_Union
  <2> QED BY <2>2, <2>3, FS_EmptySet
<1>7. Cardinality(Of("pass")) + Cardinality(Of("partial")) + Cardinality(Of("fail")) = n
  <2>1. \A x : Cardinality(Of(x)) \in Nat
    BY <1>2
  <2> QED BY <1>1, <2>1, <1>5, <1>6
<1> QED BY <1>7 DEF Of

LEMMA WorkflowJudges ==
  ASSUME NEW n \in Nat, NEW datasets, DOMAIN datasets = 1 .. n, NEW project,
         project.wins \in Bijection(1 .. n, 1 .. n)
  PROVE  LET o == EvalWorkflow(datasets, project.defs, project.wins)
         IN  /\ o.cases = [i \in 1 .. n |-> CaseOf(datasets[i], project)]
             /\ o.total = n /\ o.passed + o.partial + o.failed = n
<1> DEFINE jobs == [i \in DOMAIN datasets |-> EvalJob(datasets[i], project.defs)]
<1> DEFINE results == ExecuteInParallel(jobs, project.wins)
<1> DEFINE cases == [i \in DOMAIN results |->
                       IF results[i].ok THEN results[i].result
                       ELSE [datasetName |-> datasets[i].name, verdict |-> "fail"]]
<1> DEFINE Tally(v) == Cardinality({i \in DOMAIN cases : cases[i].verdict = v})
<1> DEFINE judged == [i \in 1 .. n |-> CaseOf(datasets[i], project)]
<1>1. EvalWorkflow(datasets, project.defs, project.wins)
        = [cases |-> cases, total |-> Len(cases), passed |-> Tally("pass"),
           partial |-> Tally("partial"), failed |-> Tally("fail")]
  BY DEF EvalWorkflow
<1>2. results = jobs
  <2>1. jobs = [i \in 1 .. n |-> jobs[i]]
    OBVIOUS
  <2> HIDE DEF jobs
  <2> QED BY <2>1, InOrder
<1>3. cases = judged
  <2>1. DOMAIN results = 1 .. n /\ \A i \in 1 .. n : results[i] = EvalJob(datasets[i], project.defs)
    BY <1>2
  <2> HIDE DEF results
  <2> QED BY <2>1 DEF CaseOf
<1> HIDE DEF cases
<1>4. Len(judged) = n /\ DOMAIN judged = 1 .. n
  OBVIOUS
<1>5. \A i \in 1 .. n : judged[i].verdict \in {"pass", "partial", "fail"}
  BY CaseIs
<1> DEFINE verdicts == [i \in 1 .. n |-> judged[i].verdict]
<1>6. \A v : Tally(v) = Cardinality({i \in 1 .. n : verdicts[i] = v})
  <2> SUFFICES ASSUME NEW v PROVE Tally(v) = Cardinality({i \in 1 .. n : verdicts[i] = v})
    OBVIOUS
  <2> HIDE DEF judged
  <2>1. {i \in DOMAIN cases : cases[i].verdict = v} = {i \in 1 .. n : verdicts[i] = v}
    BY <1>3, <1>4
  <2> QED BY <2>1, Zenon
<1>7. \A i \in 1 .. n : verdicts[i] \in {"pass", "partial", "fail"}
  <2> HIDE DEF judged
  <2> QED BY <1>5
<1> HIDE DEF judged, verdicts
<1>8. Tally("pass") + Tally("partial") + Tally("fail") = n
  <2> HIDE DEF Tally
  <2> QED BY <1>6, <1>7, ThreeKinds
<1> HIDE DEF Tally
<1>9. /\ EvalWorkflow(datasets, project.defs, project.wins).cases = judged
      /\ EvalWorkflow(datasets, project.defs, project.wins).total = n
      /\ EvalWorkflow(datasets, project.defs, project.wins).passed = Tally("pass")
      /\ EvalWorkflow(datasets, project.defs, project.wins).partial = Tally("partial")
      /\ EvalWorkflow(datasets, project.defs, project.wins).failed = Tally("fail")
  BY <1>1, <1>3, <1>4
<1> QED BY <1>8, <1>9 DEF judged

-----------------------------------------------------------------------------
(* The runs of the workflow and what they save. *)

Updated(d, produced) == [d EXCEPT !.output = produced[d.name]]

Judged(d, verdict) == [d EXCEPT !.eval = verdict]

LEMMA UpdatedIs ==
  ASSUME NEW c, IsCase(c), NEW produced
  PROVE  /\ IsCase(Updated(c, produced))
         /\ Updated(c, produced).name = c.name /\ Updated(c, produced).file = c.file
         /\ Updated(c, produced).truth = c.truth /\ Updated(c, produced).output = produced[c.name]
<1>1. Updated(c, produced) = [name |-> c.name, file |-> c.file, truth |-> c.truth,
                              output |-> produced[c.name], eval |-> c.eval]
  BY DEF IsCase, Updated
<1> QED BY <1>1 DEF IsCase

LEMMA JudgedIs ==
  ASSUME NEW c, IsCase(c), NEW verdict
  PROVE  /\ IsCase(Judged(c, verdict))
         /\ Judged(c, verdict).name = c.name /\ Judged(c, verdict).file = c.file
         /\ Judged(c, verdict).truth = c.truth /\ Judged(c, verdict).output = c.output
         /\ Judged(c, verdict).eval = verdict
<1>1. Judged(c, verdict) = [name |-> c.name, file |-> c.file, truth |-> c.truth,
                            output |-> c.output, eval |-> verdict]
  BY DEF IsCase, Judged
<1> QED BY <1>1 DEF IsCase

(* A name is the name of one case. *)
AreNamed(datasets, cases) ==
    \A i \in DOMAIN datasets, k \in DOMAIN cases :
        datasets[i].name = cases[k].name => datasets[i] = cases[k]

RunTo(run, cases, datasets, produced, save, i) ==
    IF i = 0 THEN [ok |-> TRUE, prepared |-> <<>>, cases |-> cases]
    ELSE IF ~run[i - 1].ok \/ produced[datasets[i].name] = Fails
    THEN [run[i - 1] EXCEPT !.ok = FALSE]
    ELSE [ok |-> TRUE,
          prepared |-> Append(run[i - 1].prepared, Updated(datasets[i], produced)),
          cases |-> IF save THEN WriteDataset(run[i - 1].cases, Updated(datasets[i], produced))
                    ELSE run[i - 1].cases]

Running(run, cases, datasets, produced, save, n) ==
    run = [i \in 0 .. n |-> RunTo(run, cases, datasets, produced, save, i)]

LEMMA RunsExist ==
  ASSUME NEW cases, NEW datasets, NEW produced, NEW save, NEW n \in Nat
  PROVE  \E run : Running(run, cases, datasets, produced, save, n)
<1> DEFINE To(run, i) == RunTo(run, cases, datasets, produced, save, i)
<1> DEFINE Is(run, k) == Running(run, cases, datasets, produced, save, k)
<1> DEFINE S == {k \in 0 .. n : \E run : Is(run, k)}
<1>1. 0 \in S
  <2>1. Is([k \in 0 .. 0 |-> [ok |-> TRUE, prepared |-> <<>>, cases |-> cases]], 0)
    BY DEF Running, RunTo
  <2> QED BY <2>1
<1>2. ASSUME NEW k \in 1 .. n, k - 1 \in S PROVE k \in S
  <2>1. PICK run : Is(run, k - 1)
    BY <1>2
  <2> DEFINE more == [i \in 0 .. k |-> To(run, i)]
  <2>0. \A i \in 0 .. k - 1 : i \in 0 .. k
    OBVIOUS
  <2>2. \A i \in 0 .. k - 1 : more[i] = run[i]
    <3> HIDE DEF To
    <3>1. run = [i \in 0 .. k - 1 |-> To(run, i)]
      BY <2>1 DEF Running, To
    <3> QED BY <2>0, <3>1
  <2>3. \A i \in 0 .. k : To(run, i) = To(more, i)
    <3> SUFFICES ASSUME NEW i \in 0 .. k PROVE To(run, i) = To(more, i)
      OBVIOUS
    <3>1. i # 0 => more[i - 1] = run[i - 1]
      <4> HIDE DEF more
      <4> QED BY <1>2, <2>2
    <3> HIDE DEF more
    <3> QED BY <3>1 DEF RunTo
  <2>4. more = [i \in 0 .. k |-> To(more, i)]
    <3> HIDE DEF To
    <3> QED BY <2>3
  <2> HIDE DEF more
  <2>5. Is(more, k)
    BY <2>4 DEF Running
  <2> HIDE DEF Is
  <2> QED BY <2>5
<1>3. \A k \in 0 .. n : k \in S
  <2> HIDE DEF S
  <2> QED BY <1>1, <1>2, UpTo
<1> QED BY <1>3

(* Where the runs have come to. *)
RanSoFar(s, cases, datasets, produced, save, i) ==
    /\ DOMAIN s = {"ok", "prepared", "cases"}
    /\ DOMAIN s.cases = DOMAIN cases
    /\ ~save => s.cases = cases
    /\ \A k \in DOMAIN cases :
         \/ s.cases[k] = cases[k]
         \/ /\ s.cases[k] = Updated(cases[k], produced)
            /\ \E j \in DOMAIN datasets : datasets[j] = cases[k]
    /\ s.ok =>
         /\ s.prepared \in Seq({Updated(datasets[j], produced) : j \in DOMAIN datasets})
         /\ Len(s.prepared) = i
         /\ \A j \in 1 .. i : s.prepared[j] = Updated(datasets[j], produced)
         /\ save => \A k \in DOMAIN cases, j \in 1 .. i :
                      datasets[j] = cases[k] => s.cases[k] = Updated(cases[k], produced)

(* What one write of an output makes of the cases. *)
LEMMA WriteUpdated ==
  ASSUME NEW cases, \A k \in DOMAIN cases : IsCase(cases[k]), NEW datasets, AreNamed(datasets, cases),
         NEW produced, NEW now, DOMAIN now = DOMAIN cases,
         \A k \in DOMAIN cases : now[k] = cases[k] \/ now[k] = Updated(cases[k], produced),
         NEW i \in DOMAIN datasets, IsCase(datasets[i])
  PROVE  LET written == WriteDataset(now, Updated(datasets[i], produced))
         IN  /\ DOMAIN written = DOMAIN cases
             /\ \A k \in DOMAIN cases : written[k] = IF datasets[i] = cases[k]
                                                     THEN Updated(cases[k], produced) ELSE now[k]
<1> DEFINE u == Updated(datasets[i], produced)
<1>1. u.name = datasets[i].name /\ u.file = datasets[i].file
  BY UpdatedIs
<1>2. ASSUME NEW k \in DOMAIN cases
      PROVE  /\ now[k].name = cases[k].name /\ now[k].file = cases[k].file
             /\ datasets[i].name = cases[k].name => datasets[i] = cases[k]
  <2>1. /\ Updated(cases[k], produced).name = cases[k].name
        /\ Updated(cases[k], produced).file = cases[k].file
    BY UpdatedIs
  <2> QED BY <2>1 DEF AreNamed
<1> HIDE DEF u
<1>3. /\ DOMAIN WriteDataset(now, u) = DOMAIN cases
      /\ \A k \in DOMAIN cases :
           WriteDataset(now, u)[k] = IF now[k].file = u.file /\ now[k].name = u.name THEN u ELSE now[k]
  BY DEF WriteDataset
<1>4. ASSUME NEW k \in DOMAIN cases
      PROVE  WriteDataset(now, u)[k] = IF datasets[i] = cases[k] THEN Updated(cases[k], produced) ELSE now[k]
  <2>1. CASE datasets[i] = cases[k]
    BY <2>1, <1>1, <1>2, <1>3 DEF u
  <2>2. CASE datasets[i] # cases[k]
    BY <2>2, <1>1, <1>2, <1>3
  <2> QED BY <2>1, <2>2
<1> QED BY <1>3, <1>4 DEF u

LEMMA RunOneMore ==
  ASSUME NEW cases, \A k \in DOMAIN cases : IsCase(cases[k]), NEW datasets, AreNamed(datasets, cases),
         NEW produced, NEW save, NEW n \in Nat, DOMAIN datasets = 1 .. n, NEW i \in 1 .. n,
         IsCase(datasets[i]), NEW s, RanSoFar(s, cases, datasets, produced, save, i - 1), s.ok
  PROVE  RanSoFar([ok |-> TRUE,
                   prepared |-> Append(s.prepared, Updated(datasets[i], produced)),
                   cases |-> IF save THEN WriteDataset(s.cases, Updated(datasets[i], produced))
                             ELSE s.cases],
                  cases, datasets, produced, save, i)
<1> DEFINE u == Updated(datasets[i], produced)
<1> DEFINE T == {Updated(datasets[j], produced) : j \in DOMAIN datasets}
<1> DEFINE prepared == Append(s.prepared, u)
<1> DEFINE written == WriteDataset(s.cases, u)
<1> DEFINE now == IF save THEN written ELSE s.cases
<1>1. s.prepared \in Seq(T) /\ u \in T /\ Len(s.prepared) = i - 1 /\ i - 1 \in Nat
  BY DEF RanSoFar
<1>2. \A j \in 1 .. i - 1 : s.prepared[j] = Updated(datasets[j], produced)
  BY DEF RanSoFar
<1>3. /\ prepared \in Seq(T) /\ Len(prepared) = i
      /\ \A j \in 1 .. i - 1 : prepared[j] = s.prepared[j]
      /\ prepared[i] = u
  <2> HIDE DEF u, T
  <2> QED BY <1>1
<1> HIDE DEF prepared
<1>4. \A j \in 1 .. i : prepared[j] = Updated(datasets[j], produced)
  <2> SUFFICES ASSUME NEW j \in 1 .. i PROVE prepared[j] = Updated(datasets[j], produced)
    OBVIOUS
  <2>1. j = i \/ j \in 1 .. i - 1
    OBVIOUS
  <2> QED BY <2>1, <1>2, <1>3
<1>5. /\ DOMAIN s.cases = DOMAIN cases
      /\ ~save => s.cases = cases
      /\ \A k \in DOMAIN cases :
           \/ s.cases[k] = cases[k]
           \/ /\ s.cases[k] = Updated(cases[k], produced)
              /\ \E j \in DOMAIN datasets : datasets[j] = cases[k]
      /\ save => \A k \in DOMAIN cases, j \in 1 .. i - 1 :
                   datasets[j] = cases[k] => s.cases[k] = Updated(cases[k], produced)
  BY DEF RanSoFar
<1>6. /\ DOMAIN written = DOMAIN cases
      /\ \A k \in DOMAIN cases : written[k] = IF datasets[i] = cases[k]
                                              THEN Updated(cases[k], produced) ELSE s.cases[k]
  BY <1>5, WriteUpdated
<1> HIDE DEF written, u
<1>7. /\ DOMAIN now = DOMAIN cases
      /\ ~save => now = cases
      /\ \A k \in DOMAIN cases :
           \/ now[k] = cases[k]
           \/ /\ now[k] = Updated(cases[k], produced)
              /\ \E j \in DOMAIN datasets : datasets[j] = cases[k]
  BY <1>5, <1>6
<1>8. save => \A k \in DOMAIN cases, j \in 1 .. i :
                datasets[j] = cases[k] => now[k] = Updated(cases[k], produced)
  <2> SUFFICES ASSUME save, NEW k \in DOMAIN cases, NEW j \in 1 .. i, datasets[j] = cases[k]
               PROVE  written[k] = Updated(cases[k], produced)
    OBVIOUS
  <2>1. CASE j = i
    BY <2>1, <1>6
  <2>2. CASE j \in 1 .. i - 1
    BY <2>2, <1>5, <1>6
  <2> QED BY <2>1, <2>2
<1> HIDE DEF now
<1> DEFINE more == [ok |-> TRUE, prepared |-> prepared, cases |-> now]
<1>9. /\ DOMAIN more = {"ok", "prepared", "cases"}
      /\ more.prepared = prepared /\ more.cases = now
  OBVIOUS
<1> HIDE DEF more
<1>10. RanSoFar(more, cases, datasets, produced, save, i)
  BY <1>3, <1>4, <1>7, <1>8, <1>9 DEF RanSoFar, T
<1> QED BY <1>10 DEF more, prepared, now, written, u

LEMMA RunNoMore ==
  ASSUME NEW cases, NEW datasets, NEW produced, NEW save, NEW i, NEW j, NEW s,
         RanSoFar(s, cases, datasets, produced, save, j)
  PROVE  RanSoFar([s EXCEPT !.ok = FALSE], cases, datasets, produced, save, i)
<1> DEFINE more == [s EXCEPT !.ok = FALSE]
<1>1. DOMAIN s = {"ok", "prepared", "cases"}
  BY DEF RanSoFar
<1>2. DOMAIN more = DOMAIN s /\ more.cases = s.cases
  BY <1>1
<1>3. ~more.ok
  BY <1>1
<1> HIDE DEF more
<1>4. RanSoFar(more, cases, datasets, produced, save, i)
  BY <1>2, <1>3 DEF RanSoFar
<1> QED BY <1>4 DEF more

LEMMA RunIs ==
  ASSUME NEW cases, \A k \in DOMAIN cases : IsCase(cases[k]), NEW datasets, AreNamed(datasets, cases),
         NEW produced, NEW save, NEW n \in Nat, DOMAIN datasets = 1 .. n, Len(datasets) = n,
         \A i \in 1 .. n : IsCase(datasets[i])
  PROVE  RanSoFar(RunWorkflowForDatasets(cases, datasets, produced, save),
                  cases, datasets, produced, save, n)
<1> DEFINE run == CHOOSE run : run = [i \in 0 .. Len(datasets) |->
          IF i = 0 THEN [ok |-> TRUE, prepared |-> <<>>, cases |-> cases]
          ELSE IF ~run[i - 1].ok \/ produced[datasets[i].name] = Fails
          THEN [run[i - 1] EXCEPT !.ok = FALSE]
          ELSE [ok |-> TRUE,
                prepared |-> Append(run[i - 1].prepared,
                                    [datasets[i] EXCEPT !.output = produced[datasets[i].name]]),
                cases |-> IF save
                          THEN WriteDataset(run[i - 1].cases,
                                            [datasets[i] EXCEPT !.output = produced[datasets[i].name]])
                          ELSE run[i - 1].cases]]
<1>1. RunWorkflowForDatasets(cases, datasets, produced, save) = run[n]
  BY DEF RunWorkflowForDatasets
<1>2. Running(run, cases, datasets, produced, save, n)
  <2>1. \E r : Running(r, cases, datasets, produced, save, Len(datasets))
    BY RunsExist
  <2>2. run = CHOOSE r : Running(r, cases, datasets, produced, save, Len(datasets))
    BY DEF Running, RunTo, Updated
  <2> HIDE DEF run
  <2>3. Running(run, cases, datasets, produced, save, Len(datasets))
    BY <2>1, <2>2
  <2> QED BY <2>3
<1> HIDE DEF run
<1> DEFINE To(i) == RunTo(run, cases, datasets, produced, save, i)
<1> DEFINE Good(s, i) == RanSoFar(s, cases, datasets, produced, save, i)
<1>3. \A i \in 0 .. n : run[i] = To(i)
  <2> HIDE DEF To
  <2>1. run = [i \in 0 .. n |-> To(i)]
    BY <1>2 DEF Running, To
  <2> QED BY <2>1
<1> DEFINE S == {i \in 0 .. n : Good(run[i], i)}
<1>4. 0 \in S
  <2> DEFINE s == [ok |-> TRUE, prepared |-> <<>>, cases |-> cases]
  <2>1. 0 \in 0 .. n /\ run[0] = s
    <3>1. 0 \in 0 .. n /\ run[0] = To(0)
      BY <1>3
    <3> QED BY <3>1 DEF RunTo
  <2>2. Good(s, 0)
    <3>1. <<>> \in Seq({Updated(datasets[j], produced) : j \in DOMAIN datasets}) /\ Len(<<>>) = 0
          /\ 1 .. 0 = {}
      OBVIOUS
    <3>2. DOMAIN s = {"ok", "prepared", "cases"} /\ s.prepared = <<>> /\ s.cases = cases
      OBVIOUS
    <3> HIDE DEF s
    <3> QED BY <3>1, <3>2 DEF RanSoFar
  <2> QED BY <2>1, <2>2
<1>5. ASSUME NEW i \in 1 .. n, i - 1 \in S PROVE i \in S
  <2>1. i \in 0 .. n /\ i # 0
    OBVIOUS
  <2>2. Good(run[i - 1], i - 1) /\ run[i] = To(i)
    BY <1>3, <1>5, <2>1
  <2>3. CASE ~run[i - 1].ok \/ produced[datasets[i].name] = Fails
    <3>1. run[i] = [run[i - 1] EXCEPT !.ok = FALSE]
      BY <2>1, <2>2, <2>3 DEF RunTo
    <3> QED BY <2>1, <2>2, <3>1, RunNoMore
  <2>4. CASE ~(~run[i - 1].ok \/ produced[datasets[i].name] = Fails)
    <3>1. run[i] = [ok |-> TRUE,
                    prepared |-> Append(run[i - 1].prepared, Updated(datasets[i], produced)),
                    cases |-> IF save
                              THEN WriteDataset(run[i - 1].cases, Updated(datasets[i], produced))
                              ELSE run[i - 1].cases]
      BY <2>1, <2>2, <2>4 DEF RunTo
    <3>2. IsCase(datasets[i]) /\ run[i - 1].ok
      BY <2>4
    <3>3. RanSoFar(run[i - 1], cases, datasets, produced, save, i - 1)
      BY <2>2
    <3> HIDE DEF To, S, run
    <3>4. Good([ok |-> TRUE,
                prepared |-> Append(run[i - 1].prepared, Updated(datasets[i], produced)),
                cases |-> IF save
                          THEN WriteDataset(run[i - 1].cases, Updated(datasets[i], produced))
                          ELSE run[i - 1].cases], i)
      BY <3>2, <3>3, RunOneMore
    <3>5. Good(run[i], i)
      <4> HIDE DEF Good
      <4> QED BY <3>1, <3>4
    <3> QED BY <2>1, <3>5 DEF S
  <2> QED BY <2>3, <2>4
<1>6. n \in S
  <2>1. n \in 0 .. n
    OBVIOUS
  <2> HIDE DEF S
  <2>2. \A k \in 0 .. n : k \in S
    BY <1>4, <1>5, UpTo
  <2> QED BY <2>1, <2>2
<1> QED BY <1>1, <1>6

-----------------------------------------------------------------------------
(* The verdicts and where they are saved. *)

Carries(verdicts, datasets) ==
    \A i \in DOMAIN verdicts : i \in DOMAIN datasets /\ verdicts[i].datasetName = datasets[i].name

SaveTo(saved, cases, verdicts, datasets, i) ==
    IF i = 0 THEN cases
    ELSE LET named == {j \in DOMAIN datasets : datasets[j].name = verdicts[i].datasetName}
         IN  IF named = {} THEN saved[i - 1]
             ELSE WriteDataset(saved[i - 1], Judged(datasets[Min(named)], verdicts[i].verdict))

Saving(saved, cases, verdicts, datasets, n) ==
    saved = [i \in 0 .. n |-> SaveTo(saved, cases, verdicts, datasets, i)]

LEMMA SavingExists ==
  ASSUME NEW cases, NEW verdicts, NEW datasets, NEW n \in Nat
  PROVE  \E saved : Saving(saved, cases, verdicts, datasets, n)
<1> DEFINE To(saved, i) == SaveTo(saved, cases, verdicts, datasets, i)
<1> DEFINE Is(saved, k) == Saving(saved, cases, verdicts, datasets, k)
<1> DEFINE S == {k \in 0 .. n : \E saved : Is(saved, k)}
<1>1. 0 \in S
  <2>1. Is([k \in 0 .. 0 |-> cases], 0)
    BY DEF Saving, SaveTo
  <2> QED BY <2>1
<1>2. ASSUME NEW k \in 1 .. n, k - 1 \in S PROVE k \in S
  <2>1. PICK saved : Is(saved, k - 1)
    BY <1>2
  <2> DEFINE more == [i \in 0 .. k |-> To(saved, i)]
  <2>2. \A i \in 0 .. k - 1 : i \in 0 .. k
    OBVIOUS
  <2>3. \A i \in 0 .. k - 1 : more[i] = saved[i]
    <3> HIDE DEF To
    <3>1. saved = [i \in 0 .. k - 1 |-> To(saved, i)]
      BY <2>1 DEF Saving, To
    <3> QED BY <2>2, <3>1
  <2>4. \A i \in 0 .. k : To(saved, i) = To(more, i)
    <3> SUFFICES ASSUME NEW i \in 0 .. k PROVE To(saved, i) = To(more, i)
      OBVIOUS
    <3>1. i # 0 => more[i - 1] = saved[i - 1]
      <4> HIDE DEF more
      <4> QED BY <1>2, <2>3
    <3> HIDE DEF more
    <3> QED BY <3>1 DEF SaveTo
  <2>5. more = [i \in 0 .. k |-> To(more, i)]
    <3> HIDE DEF To
    <3> QED BY <2>4
  <2> HIDE DEF more
  <2>6. Is(more, k)
    BY <2>5 DEF Saving
  <2> HIDE DEF Is
  <2> QED BY <2>6
<1>3. \A k \in 0 .. n : k \in S
  <2> HIDE DEF S
  <2> QED BY <1>1, <1>2, UpTo
<1> QED BY <1>3

(* Where the saving has come to. *)
ToldOf(c, verdicts, i) == {j \in 1 .. i : verdicts[j].datasetName = c.name}

SavedSoFar(s, cases, verdicts, i) ==
    /\ DOMAIN s = DOMAIN cases
    /\ \A k \in DOMAIN cases :
         \/ s[k] = cases[k] /\ ToldOf(cases[k], verdicts, i) = {}
         \/ \E j \in ToldOf(cases[k], verdicts, i) : s[k] = Judged(cases[k], verdicts[j].verdict)

LEMMA SaveOneMore ==
  ASSUME NEW cases, \A k \in DOMAIN cases : IsCase(cases[k]), NEW datasets, AreNamed(datasets, cases),
         \A m \in DOMAIN datasets : IsCase(datasets[m]), NEW verdicts, NEW i \in Nat, i # 0,
         NEW s, SavedSoFar(s, cases, verdicts, i - 1),
         NEW m \in DOMAIN datasets, datasets[m].name = verdicts[i].datasetName
  PROVE  SavedSoFar(WriteDataset(s, Judged(datasets[m], verdicts[i].verdict)), cases, verdicts, i)
<1> DEFINE d == Judged(datasets[m], verdicts[i].verdict)
<1> DEFINE now == WriteDataset(s, d)
<1>1. d.name = datasets[m].name /\ d.file = datasets[m].file
  BY JudgedIs
<1> HIDE DEF d
<1>2. DOMAIN s = DOMAIN cases
  BY DEF SavedSoFar
<1>3. /\ DOMAIN now = DOMAIN cases
      /\ \A k \in DOMAIN cases :
           now[k] = IF s[k].file = d.file /\ s[k].name = d.name THEN d ELSE s[k]
  BY <1>2 DEF WriteDataset
<1> HIDE DEF now
<1>4. ASSUME NEW k \in DOMAIN cases
      PROVE  \/ now[k] = cases[k] /\ ToldOf(cases[k], verdicts, i) = {}
             \/ \E j \in ToldOf(cases[k], verdicts, i) : now[k] = Judged(cases[k], verdicts[j].verdict)
  <2>1. \/ s[k] = cases[k] /\ ToldOf(cases[k], verdicts, i - 1) = {}
        \/ \E j \in ToldOf(cases[k], verdicts, i - 1) : s[k] = Judged(cases[k], verdicts[j].verdict)
    BY DEF SavedSoFar
  <2>2. s[k].name = cases[k].name /\ s[k].file = cases[k].file
    BY <2>1, JudgedIs
  <2>3. CASE datasets[m].name = cases[k].name
    <3>1. datasets[m] = cases[k]
      BY <2>3 DEF AreNamed
    <3>2. now[k] = d
      BY <1>1, <1>3, <2>2, <3>1
    <3>3. i \in ToldOf(cases[k], verdicts, i)
      <4>1. i \in 1 .. i
        OBVIOUS
      <4>2. verdicts[i].datasetName = cases[k].name
        BY <2>3
      <4> QED BY <4>1, <4>2 DEF ToldOf
    <3> QED BY <3>1, <3>2, <3>3 DEF d
  <2>4. CASE datasets[m].name # cases[k].name
    <3>1. now[k] = s[k]
      BY <1>1, <1>3, <2>2, <2>4
    <3>2. ToldOf(cases[k], verdicts, i) = ToldOf(cases[k], verdicts, i - 1)
      BY <2>4 DEF ToldOf
    <3> QED BY <2>1, <3>1, <3>2
  <2> QED BY <2>3, <2>4
<1>5. SavedSoFar(now, cases, verdicts, i)
  BY <1>3, <1>4 DEF SavedSoFar
<1> QED BY <1>5 DEF now, d

LEMMA SaveIs ==
  ASSUME NEW cases, \A k \in DOMAIN cases : IsCase(cases[k]), NEW datasets, AreNamed(datasets, cases),
         \A m \in DOMAIN datasets : IsCase(datasets[m]), NEW n \in Nat, DOMAIN datasets = 1 .. n,
         NEW verdicts, DOMAIN verdicts = 1 .. n, Len(verdicts) = n, Carries(verdicts, datasets)
  PROVE  SavedSoFar(SaveEvalResults(cases, verdicts, datasets), cases, verdicts, n)
<1> DEFINE saved == CHOOSE saved : saved = [i \in 0 .. Len(verdicts) |->
          IF i = 0 THEN cases
          ELSE LET named == {j \in DOMAIN datasets : datasets[j].name = verdicts[i].datasetName}
               IN  IF named = {} THEN saved[i - 1]
                   ELSE WriteDataset(saved[i - 1],
                                     [datasets[Min(named)] EXCEPT !.eval = verdicts[i].verdict])]
<1>1. SaveEvalResults(cases, verdicts, datasets) = saved[n]
  BY DEF SaveEvalResults
<1>2. Saving(saved, cases, verdicts, datasets, n)
  <2>1. \E r : Saving(r, cases, verdicts, datasets, Len(verdicts))
    BY SavingExists
  <2>2. saved = CHOOSE r : Saving(r, cases, verdicts, datasets, Len(verdicts))
    BY DEF Saving, SaveTo, Judged
  <2> HIDE DEF saved
  <2>3. Saving(saved, cases, verdicts, datasets, Len(verdicts))
    BY <2>1, <2>2
  <2> QED BY <2>3
<1> HIDE DEF saved
<1> DEFINE To(i) == SaveTo(saved, cases, verdicts, datasets, i)
<1> DEFINE Good(s, i) == SavedSoFar(s, cases, verdicts, i)
<1>3. \A i \in 0 .. n : saved[i] = To(i)
  <2> HIDE DEF To
  <2>1. saved = [i \in 0 .. n |-> To(i)]
    BY <1>2 DEF Saving, To
  <2> QED BY <2>1
<1> DEFINE S == {i \in 0 .. n : Good(saved[i], i)}
<1>4. 0 \in S
  <2>1. 0 \in 0 .. n /\ saved[0] = To(0)
    BY <1>3
  <2>2. saved[0] = cases
    BY <2>1 DEF SaveTo
  <2>3. Good(cases, 0)
    <3>1. \A c : ToldOf(c, verdicts, 0) = {}
      BY DEF ToldOf
    <3> QED BY <3>1 DEF SavedSoFar
  <2> QED BY <2>1, <2>2, <2>3
<1>5. ASSUME NEW i \in 1 .. n, i - 1 \in S PROVE i \in S
  <2>1. i \in 0 .. n /\ i # 0 /\ i \in Nat
    OBVIOUS
  <2>2. Good(saved[i - 1], i - 1) /\ saved[i] = To(i)
    BY <1>3, <1>5, <2>1
  <2> DEFINE named == {j \in DOMAIN datasets : datasets[j].name = verdicts[i].datasetName}
  <2> DEFINE m == Min(named)
  <2>3. m \in DOMAIN datasets /\ datasets[m].name = verdicts[i].datasetName /\ named # {}
    <3>1. named \in SUBSET Nat /\ named # {}
      <4>1. i \in DOMAIN verdicts
        OBVIOUS
      <4>2. i \in DOMAIN datasets /\ verdicts[i].datasetName = datasets[i].name
        BY <4>1 DEF Carries
      <4>3. i \in named
        BY <4>2
      <4> QED BY <4>3
    <3>2. m \in named
      <4> HIDE DEF named
      <4> QED BY <3>1, FirstPosition
    <3> QED BY <3>1, <3>2
  <2>4. saved[i] = WriteDataset(saved[i - 1], Judged(datasets[m], verdicts[i].verdict))
    BY <2>1, <2>2, <2>3 DEF SaveTo
  <2> HIDE DEF m, named, To, S
  <2>5. SavedSoFar(saved[i - 1], cases, verdicts, i - 1)
    BY <2>2
  <2>6. Good(WriteDataset(saved[i - 1], Judged(datasets[m], verdicts[i].verdict)), i)
    BY <2>1, <2>3, <2>5, SaveOneMore
  <2>7. Good(saved[i], i)
    <3> HIDE DEF Good
    <3> QED BY <2>4, <2>6
  <2> QED BY <2>1, <2>7 DEF S
<1>6. n \in S
  <2>1. n \in 0 .. n
    OBVIOUS
  <2> HIDE DEF S
  <2>2. \A k \in 0 .. n : k \in S
    BY <1>4, <1>5, UpTo
  <2> QED BY <2>1, <2>2
<1> QED BY <1>1, <1>6

-----------------------------------------------------------------------------
(* A test run. *)

Tested(c, project) ==
    [c EXCEPT !.output = IF project.mode = "cached" THEN c.output ELSE project.produced[c.name]]

(* What is tested is what was asked for. *)
Ready(datasets, project) ==
    LET n == Cardinality(AskedFor(project)) IN
    /\ n \in Nat /\ Len(datasets) = n /\ DOMAIN datasets = 1 .. n
    /\ \A i \in 1 .. n : \E k \in AskedFor(project) : datasets[i] = project.cases[k]
    /\ \A k \in AskedFor(project) : \E i \in 1 .. n : datasets[i] = project.cases[k]
    /\ AreNamed(datasets, project.cases)

LEMMA DatasetsReady ==
  ASSUME NEW project, IsProject(project), ~HasDuplicates(project.cases)
  PROVE  Ready(ReadAllDatasets(project.cases, project.asked), project)
<1> DEFINE cases == project.cases
<1> DEFINE A == AskedFor(project)
<1> DEFINE datasets == ReadAllDatasets(cases, project.asked)
<1>1. IsCases(cases)
  BY DEF IsProject, IsCases
<1>2. ReadSoFar(datasets, cases, project.asked, Len(cases))
  BY <1>1, DatasetsAre
<1>3. Chosen(cases, project.asked, Len(cases)) = A
  BY <1>1 DEF IsCases, Chosen, AskedFor
<1>4. \A j, k \in DOMAIN cases : cases[j].name = cases[k].name => j = k
  BY DEF HasDuplicates
<1>5. A \subseteq DOMAIN cases
  BY DEF AskedFor
<1> HIDE DEF datasets, cases, A
<1>6. /\ datasets \in Seq({cases[j] : j \in DOMAIN cases})
      /\ \A i \in 1 .. Len(datasets) : \E j \in A : datasets[i] = cases[j]
      /\ \A j \in A : \E i \in 1 .. Len(datasets) : datasets[i] = cases[j]
      /\ Len(datasets) = Cardinality(A)
  BY <1>2, <1>3 DEF ReadSoFar
<1>7. DOMAIN datasets = 1 .. Len(datasets) /\ Len(datasets) \in Nat
  BY <1>6
<1>8. AreNamed(datasets, cases)
  BY <1>4, <1>5, <1>6, <1>7 DEF AreNamed
<1> QED BY <1>6, <1>7, <1>8 DEF Ready, datasets, cases, A

(* The outputs that are judged, and the files they are saved in. *)
RanWell(ran, datasets, project) ==
    LET cases == project.cases IN
    /\ DOMAIN ran.cases = DOMAIN cases
    /\ project.mode # "save" => ran.cases = cases
    /\ \A k \in DOMAIN cases :
         \/ ran.cases[k] = cases[k]
         \/ ran.cases[k] = Updated(cases[k], project.produced) /\ k \in AskedFor(project)
    /\ ran.ok =>
         /\ DOMAIN ran.prepared = DOMAIN datasets
         /\ \A j \in DOMAIN datasets : ran.prepared[j] = Tested(datasets[j], project)
         /\ project.mode = "save" =>
              \A k \in AskedFor(project) : ran.cases[k] = Updated(cases[k], project.produced)

LEMMA CasesAre ==
  ASSUME NEW project, IsProject(project), NEW datasets, Ready(datasets, project)
  PROVE  /\ \A k \in DOMAIN project.cases : IsCase(project.cases[k])
         /\ AskedFor(project) \subseteq DOMAIN project.cases
         /\ \A i \in DOMAIN datasets : /\ IsCase(datasets[i])
                                       /\ datasets[i].name \in project.asked
         /\ \A i \in DOMAIN datasets, k \in DOMAIN project.cases :
              datasets[i].name = project.cases[k].name =>
                datasets[i] = project.cases[k] /\ k \in AskedFor(project)
<1>1. \A k \in DOMAIN project.cases : IsCase(project.cases[k])
  BY DEF IsProject
<1>2. /\ AskedFor(project) \subseteq DOMAIN project.cases
      /\ \A k \in DOMAIN project.cases :
           k \in AskedFor(project) <=> project.cases[k].name \in project.asked
  BY DEF AskedFor
<1>3. \A i \in DOMAIN datasets : \E k \in AskedFor(project) : datasets[i] = project.cases[k]
  BY DEF Ready
<1>4. \A i \in DOMAIN datasets : IsCase(datasets[i]) /\ datasets[i].name \in project.asked
  BY <1>1, <1>2, <1>3
<1>5. \A i \in DOMAIN datasets, k \in DOMAIN project.cases :
        datasets[i].name = project.cases[k].name => datasets[i] = project.cases[k]
  BY DEF Ready, AreNamed
<1> QED BY <1>1, <1>2, <1>4, <1>5

LEMMA TestedIs ==
  ASSUME NEW c, IsCase(c), NEW project
  PROVE  /\ project.mode = "cached" => Tested(c, project) = c
         /\ project.mode # "cached" => Tested(c, project) = Updated(c, project.produced)
         /\ IsCase(Tested(c, project)) /\ Tested(c, project).name = c.name
<1>1. project.mode = "cached" => Tested(c, project) = c
  BY DEF Tested, IsCase
<1>2. project.mode # "cached" => Tested(c, project) = Updated(c, project.produced)
  BY DEF Tested, Updated
<1> QED BY <1>1, <1>2, UpdatedIs

LEMMA CachedWell ==
  ASSUME NEW project, project.mode = "cached", NEW datasets, \A i \in DOMAIN datasets : IsCase(datasets[i])
  PROVE  RanWell([ok |-> TRUE, prepared |-> datasets, cases |-> project.cases], datasets, project)
<1> DEFINE ran == [ok |-> TRUE, prepared |-> datasets, cases |-> project.cases]
<1>1. ran.prepared = datasets /\ ran.cases = project.cases
  OBVIOUS
<1>2. \A j \in DOMAIN datasets : datasets[j] = Tested(datasets[j], project)
  BY TestedIs
<1> HIDE DEF ran
<1>3. RanWell(ran, datasets, project)
  BY <1>1, <1>2 DEF RanWell
<1> QED BY <1>3 DEF ran

LEMMA RanIsWell ==
  ASSUME NEW project, IsProject(project), NEW datasets, Ready(datasets, project),
         project.mode # "cached"
  PROVE  RanWell(RunWorkflowForDatasets(project.cases, datasets, project.produced, project.mode = "save"),
                 datasets, project)
<1> DEFINE save == project.mode = "save"
<1> DEFINE cases == project.cases
<1> DEFINE produced == project.produced
<1> DEFINE ran == RunWorkflowForDatasets(cases, datasets, produced, save)
<1> DEFINE n == Cardinality(AskedFor(project))
<1>1. /\ n \in Nat /\ Len(datasets) = n /\ DOMAIN datasets = 1 .. n /\ AreNamed(datasets, cases)
      /\ \A k \in AskedFor(project) : \E i \in 1 .. n : datasets[i] = cases[k]
  BY DEF Ready
<1>2. /\ \A k \in DOMAIN cases : IsCase(cases[k])
      /\ AskedFor(project) \subseteq DOMAIN cases
      /\ \A i \in DOMAIN datasets : IsCase(datasets[i])
      /\ \A i \in DOMAIN datasets, k \in DOMAIN cases :
           datasets[i] = cases[k] => k \in AskedFor(project)
  BY CasesAre
<1> HIDE DEF n, cases
<1>3. \A i \in 1 .. n : IsCase(datasets[i])
  BY <1>1, <1>2
<1>4. RanSoFar(ran, cases, datasets, produced, save, n)
  <2> HIDE DEF save, produced
  <2> QED BY <1>1, <1>2, <1>3, RunIs
<1> HIDE DEF ran, produced
<1>5. \A k \in DOMAIN cases :
         \/ ran.cases[k] = cases[k]
         \/ ran.cases[k] = Updated(cases[k], produced) /\ k \in AskedFor(project)
  BY <1>2, <1>4 DEF RanSoFar
<1>6. DOMAIN ran.cases = DOMAIN cases /\ (project.mode # "save" => ran.cases = cases)
  BY <1>4 DEF RanSoFar
<1>7. ASSUME ran.ok
      PROVE  /\ DOMAIN ran.prepared = DOMAIN datasets
             /\ \A j \in DOMAIN datasets : ran.prepared[j] = Tested(datasets[j], project)
             /\ save => \A k \in AskedFor(project) : ran.cases[k] = Updated(cases[k], produced)
  <2> HIDE DEF save
  <2>1. /\ ran.prepared \in Seq({Updated(datasets[j], produced) : j \in DOMAIN datasets})
        /\ Len(ran.prepared) = n
        /\ \A j \in 1 .. n : ran.prepared[j] = Updated(datasets[j], produced)
        /\ save => \A k \in DOMAIN cases, j \in 1 .. n :
                     datasets[j] = cases[k] => ran.cases[k] = Updated(cases[k], produced)
    BY <1>4, <1>7 DEF RanSoFar
  <2>2. DOMAIN ran.prepared = DOMAIN datasets
    BY <1>1, <2>1
  <2>3. \A j \in DOMAIN datasets : Tested(datasets[j], project) = Updated(datasets[j], produced)
    BY <1>2, TestedIs DEF produced
  <2>4. save => \A k \in AskedFor(project) : ran.cases[k] = Updated(cases[k], produced)
    BY <1>1, <1>2, <2>1
  <2> QED BY <1>1, <2>1, <2>2, <2>3, <2>4
<1>8. RanWell(ran, datasets, project)
  BY <1>5, <1>6, <1>7 DEF RanWell, cases, produced
<1> QED BY <1>8 DEF ran, cases, produced

(* Judged by its output and its truth. *)
LEMMA UnacceptableAlike ==
  ASSUME NEW c, NEW d, c.output = d.output, c.truth = d.truth, NEW project
  PROVE  Unacceptable(c, project) <=> Unacceptable(d, project)
BY DEF Unacceptable

(* What the files hold when all is saved. *)
SavedWell(saved, project) ==
    /\ DOMAIN saved = DOMAIN project.cases
    /\ \A k \in DOMAIN project.cases :
         LET before == project.cases[k]
             after == saved[k]
         IN  /\ after.name = before.name /\ after.file = before.file /\ after.truth = before.truth
             /\ k \notin AskedFor(project) => after = before
             /\ k \in AskedFor(project) =>
                  /\ after.output = project.produced[before.name]
                  /\ (after.eval = "fail") <=> Unacceptable(after, project)

LEMMA VerdictsAreSaved ==
  ASSUME NEW project, IsProject(project), project.mode = "save",
         NEW datasets, Ready(datasets, project), NEW ran, RanWell(ran, datasets, project), ran.ok,
         NEW verdicts, verdicts = [i \in DOMAIN datasets |-> CaseOf(ran.prepared[i], project)]
  PROVE  SavedWell(SaveEvalResults(ran.cases, verdicts, ran.prepared), project)
<1> DEFINE cases == project.cases
<1> DEFINE A == AskedFor(project)
<1> DEFINE n == Cardinality(A)
<1> DEFINE p == ran.prepared
<1> DEFINE up(c) == Updated(c, project.produced)
<1> DEFINE saved == SaveEvalResults(ran.cases, verdicts, p)
<1>1. /\ n \in Nat /\ DOMAIN datasets = 1 .. n
      /\ \A k \in A : \E i \in 1 .. n : datasets[i] = cases[k]
  BY DEF Ready
<1>2. /\ \A k \in DOMAIN cases : IsCase(cases[k])
      /\ A \subseteq DOMAIN cases
      /\ \A i \in DOMAIN datasets : IsCase(datasets[i]) /\ datasets[i].name \in project.asked
      /\ \A i \in DOMAIN datasets, k \in DOMAIN cases :
           datasets[i].name = cases[k].name => datasets[i] = cases[k] /\ k \in A
  BY CasesAre
<1>3. /\ DOMAIN ran.cases = DOMAIN cases
      /\ \A k \in DOMAIN cases : k \notin A => ran.cases[k] = cases[k]
      /\ \A k \in A : ran.cases[k] = up(cases[k])
      /\ DOMAIN p = 1 .. n
      /\ \A j \in 1 .. n : p[j] = Tested(datasets[j], project)
  BY <1>1 DEF RanWell
<1>4. \A j \in 1 .. n : p[j] = up(datasets[j])
  <2> SUFFICES ASSUME NEW j \in 1 .. n PROVE p[j] = up(datasets[j])
    OBVIOUS
  <2>1. IsCase(datasets[j]) /\ p[j] = Tested(datasets[j], project)
    BY <1>1, <1>2, <1>3
  <2>2. project.mode # "cached"
    OBVIOUS
  <2>3. Tested(datasets[j], project) = up(datasets[j])
    BY <2>1, <2>2, TestedIs
  <2> QED BY <2>1, <2>3
<1> HIDE DEF p, cases, n, A
<1>5. \A k \in DOMAIN cases : /\ IsCase(ran.cases[k])
                              /\ ran.cases[k].name = cases[k].name /\ ran.cases[k].file = cases[k].file
                              /\ ran.cases[k].truth = cases[k].truth
  BY <1>2, <1>3, UpdatedIs
<1>6. \A j \in 1 .. n : IsCase(p[j]) /\ p[j].name = datasets[j].name
  BY <1>1, <1>2, <1>4, UpdatedIs
<1>7. ASSUME NEW j \in 1 .. n, NEW k \in DOMAIN cases, p[j].name = cases[k].name
      PROVE  p[j] = ran.cases[k] /\ k \in A
  <2>1. datasets[j] = cases[k] /\ k \in A
    BY <1>1, <1>2, <1>6, <1>7
  <2> HIDE DEF up
  <2> QED BY <1>3, <1>4, <2>1
<1> HIDE DEF up
<1>8. AreNamed(p, ran.cases)
  BY <1>3, <1>5, <1>7 DEF AreNamed
<1>9. DOMAIN verdicts = 1 .. n /\ Len(verdicts) = n
  BY <1>1
<1>10. \A i \in 1 .. n : /\ verdicts[i].datasetName = p[i].name
                         /\ verdicts[i].verdict = "fail" <=> Unacceptable(p[i], project)
  BY <1>1, CaseIs DEF p
<1>11. Carries(verdicts, p)
  BY <1>3, <1>9, <1>10 DEF Carries
<1>12. SavedSoFar(saved, ran.cases, verdicts, n)
  <2>1. \A k \in DOMAIN ran.cases : IsCase(ran.cases[k])
    BY <1>3, <1>5
  <2>2. \A j \in DOMAIN p : IsCase(p[j])
    BY <1>3, <1>6
  <2>3. n \in Nat
    BY <1>1
  <2> QED BY <1>3, <1>8, <1>9, <1>11, <2>1, <2>2, <2>3, SaveIs
<1> HIDE DEF saved
<1>13. ASSUME NEW k \in DOMAIN cases, k \notin A
       PROVE  saved[k] = cases[k]
  <2>1. ToldOf(ran.cases[k], verdicts, n) = {}
    <3> SUFFICES ASSUME NEW j \in ToldOf(ran.cases[k], verdicts, n) PROVE FALSE
      OBVIOUS
    <3>1. j \in 1 .. n /\ verdicts[j].datasetName = ran.cases[k].name
      BY DEF ToldOf
    <3>2. p[j].name = cases[k].name
      BY <1>5, <1>10, <3>1
    <3> QED BY <1>7, <1>13, <3>1, <3>2
  <2> QED BY <1>3, <1>12, <1>13, <2>1 DEF SavedSoFar
<1>14. ASSUME NEW k \in A
       PROVE  \E v : /\ saved[k] = Judged(ran.cases[k], v)
                     /\ v = "fail" <=> Unacceptable(ran.cases[k], project)
  <2>1. k \in DOMAIN cases /\ k \in DOMAIN ran.cases
    BY <1>2, <1>3
  <2>2. PICK i \in 1 .. n : datasets[i] = cases[k]
    BY <1>1
  <2>3. i \in ToldOf(ran.cases[k], verdicts, n)
    <3>1. verdicts[i].datasetName = ran.cases[k].name
      BY <1>5, <1>6, <1>10, <2>1, <2>2
    <3> QED BY <3>1 DEF ToldOf
  <2>4. PICK j \in ToldOf(ran.cases[k], verdicts, n) : saved[k] = Judged(ran.cases[k], verdicts[j].verdict)
    BY <1>12, <2>1, <2>3 DEF SavedSoFar
  <2>5. j \in 1 .. n /\ verdicts[j].datasetName = ran.cases[k].name
    BY DEF ToldOf
  <2>6. p[j] = ran.cases[k]
    BY <1>5, <1>7, <1>10, <2>1, <2>5
  <2> QED BY <1>10, <2>4, <2>5, <2>6
<1>15. ASSUME NEW k \in A
       PROVE  /\ saved[k].name = cases[k].name /\ saved[k].file = cases[k].file
              /\ saved[k].truth = cases[k].truth
              /\ saved[k].output = project.produced[cases[k].name]
              /\ (saved[k].eval = "fail") <=> Unacceptable(saved[k], project)
  <2>1. PICK v : /\ saved[k] = Judged(ran.cases[k], v)
                 /\ v = "fail" <=> Unacceptable(ran.cases[k], project)
    BY <1>14
  <2>2. k \in DOMAIN cases /\ IsCase(ran.cases[k])
    BY <1>2, <1>5
  <2>3. /\ saved[k].name = ran.cases[k].name /\ saved[k].file = ran.cases[k].file
        /\ saved[k].truth = ran.cases[k].truth /\ saved[k].output = ran.cases[k].output
        /\ saved[k].eval = v
    BY <2>1, <2>2, JudgedIs
  <2>4. ran.cases[k].output = project.produced[cases[k].name]
    BY <1>2, <1>3, <2>2, UpdatedIs DEF up
  <2>5. Unacceptable(saved[k], project) <=> Unacceptable(ran.cases[k], project)
    BY <2>3, UnacceptableAlike
  <2> QED BY <1>5, <2>1, <2>2, <2>3, <2>4, <2>5
<1>16. DOMAIN saved = DOMAIN cases
  BY <1>3, <1>12 DEF SavedSoFar
<1>17. SavedWell(saved, project)
  BY <1>13, <1>15, <1>16 DEF SavedWell, cases, A
<1> QED BY <1>17 DEF saved, p

(* A run that ends before anything is judged. *)
LEMMA NothingJudged ==
  ASSUME NEW project, IsProject(project), NEW cases, DOMAIN cases = DOMAIN project.cases,
         project.mode # "save" => cases = project.cases,
         \A k \in DOMAIN project.cases :
           \/ cases[k] = project.cases[k]
           \/ cases[k] = Updated(project.cases[k], project.produced) /\ k \in AskedFor(project)
  PROVE  VerdictsBelongToTheirCases(project, Ended(1, cases, <<>>))
<1> DEFINE outcome == Ended(1, cases, <<>>)
<1>1. outcome.output = <<>> /\ outcome.exit = 1 /\ outcome.cases = cases
  BY DEF Ended
<1> HIDE DEF outcome
<1>2. \A k \in DOMAIN project.cases : IsCase(project.cases[k])
  BY DEF IsProject
<1>3. ASSUME NEW k \in DOMAIN project.cases
      PROVE  /\ cases[k].name = project.cases[k].name /\ cases[k].file = project.cases[k].file
             /\ cases[k].truth = project.cases[k].truth
             /\ k \notin AskedFor(project) => cases[k] = project.cases[k]
  BY <1>2, UpdatedIs
<1>4. VerdictsBelongToTheirCases(project, outcome)
  BY <1>1, <1>3 DEF VerdictsBelongToTheirCases
<1> QED BY <1>4 DEF outcome

LEMMA AllJudged ==
  ASSUME NEW project, IsProject(project), NEW datasets, Ready(datasets, project),
         NEW ran, RanWell(ran, datasets, project), ran.ok,
         NEW output, output = EvalWorkflow(ran.prepared, project.defs, project.wins)
  PROVE  VerdictsBelongToTheirCases(project,
           Ended(IF \E i \in DOMAIN output.cases : output.cases[i].verdict = "fail" THEN 1 ELSE 0,
                 IF project.mode = "save"
                 THEN SaveEvalResults(ran.cases, output.cases, ran.prepared) ELSE ran.cases,
                 <<output>>))
<1> DEFINE A == AskedFor(project)
<1> DEFINE n == Cardinality(A)
<1> DEFINE p == ran.prepared
<1> DEFINE exit == IF \E i \in DOMAIN output.cases : output.cases[i].verdict = "fail" THEN 1 ELSE 0
<1> DEFINE saved == SaveEvalResults(ran.cases, output.cases, p)
<1> DEFINE outcome == Ended(exit, IF project.mode = "save" THEN saved ELSE ran.cases, <<output>>)
<1>1. /\ outcome.exit = exit /\ outcome.output # <<>> /\ outcome.output[1] = output
      /\ outcome.cases = IF project.mode = "save" THEN saved ELSE ran.cases
  <2> HIDE DEF exit, saved
  <2> QED BY DEF Ended
<1> HIDE DEF outcome
<1>2. /\ n \in Nat /\ DOMAIN datasets = 1 .. n
      /\ \A i \in 1 .. n : \E k \in A : datasets[i] = project.cases[k]
      /\ \A k \in A : \E i \in 1 .. n : datasets[i] = project.cases[k]
  BY DEF Ready
<1>3. DOMAIN p = 1 .. n /\ \A j \in 1 .. n : p[j] = Tested(datasets[j], project)
  BY <1>2 DEF RanWell
<1>4. project.wins \in Bijection(1 .. n, 1 .. n)
  BY DEF IsProject
<1> HIDE DEF n
<1>5. /\ output.cases = [i \in 1 .. n |-> CaseOf(p[i], project)]
      /\ output.total = n /\ output.passed + output.partial + output.failed = n
  <2>1. output = EvalWorkflow(p, project.defs, project.wins)
    BY DEF p
  <2> HIDE DEF p
  <2>2. n \in Nat /\ DOMAIN p = 1 .. n
    BY <1>2, <1>3
  <2>3. LET o == EvalWorkflow(p, project.defs, project.wins)
        IN  /\ o.cases = [i \in 1 .. n |-> CaseOf(p[i], project)]
            /\ o.total = n /\ o.passed + o.partial + o.failed = n
    BY <1>4, <2>2, WorkflowJudges
  <2> QED BY <2>1, <2>3
<1>6. \A i \in 1 .. n : output.cases[i].verdict = "fail" <=> Unacceptable(p[i], project)
  BY <1>5, CaseIs
<1>7. exit = 0 <=> \A i \in 1 .. n : ~Unacceptable(p[i], project)
  BY <1>5, <1>6
<1> HIDE DEF p, exit
<1>8. exit = 0 <=> \A k \in A : ~Unacceptable(Tested(project.cases[k], project), project)
  <2>1. ASSUME NEW i \in 1 .. n PROVE \E k \in A : p[i] = Tested(project.cases[k], project)
    <3>1. PICK k \in A : datasets[i] = project.cases[k]
      BY <1>2
    <3>2. p[i] = Tested(datasets[i], project)
      BY <1>3
    <3>3. p[i] = Tested(project.cases[k], project)
      BY <3>1, <3>2, Zenon
    <3> QED BY <3>3
  <2>2. ASSUME NEW k \in A PROVE \E i \in 1 .. n : p[i] = Tested(project.cases[k], project)
    <3>1. PICK i \in 1 .. n : datasets[i] = project.cases[k]
      BY <1>2
    <3>2. p[i] = Tested(datasets[i], project)
      BY <1>3
    <3>3. p[i] = Tested(project.cases[k], project)
      BY <3>1, <3>2, Zenon
    <3> QED BY <3>3
  <2> QED BY <1>7, <2>1, <2>2
<1>9. project.mode = "save" => SavedWell(saved, project)
  <2>1. output.cases = [i \in DOMAIN datasets |-> CaseOf(ran.prepared[i], project)]
    BY <1>2, <1>5 DEF p
  <2> QED BY <2>1, VerdictsAreSaved DEF p
<1> HIDE DEF saved
<1>10. project.mode # "save" => ran.cases = project.cases
  BY DEF RanWell
<1>11. \A k \in A : Tested(project.cases[k], project)
         = [project.cases[k] EXCEPT !.output = IF project.mode = "cached" THEN project.cases[k].output
                                               ELSE project.produced[project.cases[k].name]]
  BY DEF Tested
<1>12. /\ outcome.output[1].total = n
       /\ outcome.output[1].passed + outcome.output[1].partial + outcome.output[1].failed = n
       /\ (outcome.exit = 0) <=> \A k \in A : ~Unacceptable(Tested(project.cases[k], project), project)
  BY <1>1, <1>5, <1>8
<1>13. CASE project.mode = "save"
  <2>1. outcome.cases = saved /\ SavedWell(outcome.cases, project)
    BY <1>1, <1>9, <1>13
  <2>2. VerdictsBelongToTheirCases(project, outcome)
    BY <1>1, <1>12, <1>13, <2>1 DEF VerdictsBelongToTheirCases, SavedWell, Tested, n
  <2> QED BY <2>2 DEF outcome, exit, saved, p
<1>14. CASE project.mode # "save"
  <2>1. outcome.cases = project.cases
    BY <1>1, <1>10, <1>14
  <2>2. VerdictsBelongToTheirCases(project, outcome)
    BY <1>1, <1>12, <1>14, <2>1 DEF VerdictsBelongToTheirCases, Tested, n
  <2> QED BY <2>2 DEF outcome, exit, saved, p
<1> QED BY <1>13, <1>14

(* Whatever is refused, thrown or judged in whatever order, and whatever is saved. *)
LEMMA TestIsTold ==
  ASSUME NEW project, IsProject(project)
  PROVE  VerdictsBelongToTheirCases(project, WorkflowTest(project))
<1> DEFINE cases == project.cases
<1> DEFINE datasets == ReadAllDatasets(cases, project.asked)
<1> DEFINE cached == project.mode = "cached"
<1> DEFINE save == project.mode = "save"
<1> DEFINE ran == IF cached THEN [ok |-> TRUE, prepared |-> datasets, cases |-> cases]
                  ELSE RunWorkflowForDatasets(cases, datasets, project.produced, save)
<1> DEFINE output == EvalWorkflow(ran.prepared, project.defs, project.wins)
<1> DEFINE refused == \/ HasDuplicates(cases) \/ datasets = <<>>
                      \/ cached /\ \E i \in DOMAIN datasets : datasets[i].output = Missing
<1> DEFINE final == Ended(IF \E i \in DOMAIN output.cases : output.cases[i].verdict = "fail" THEN 1 ELSE 0,
                          IF save THEN SaveEvalResults(ran.cases, output.cases, ran.prepared)
                          ELSE ran.cases,
                          <<output>>)
<1>1. WorkflowTest(project) = IF refused THEN Ended(1, cases, <<>>)
                              ELSE IF ~ran.ok THEN Ended(1, ran.cases, <<>>)
                              ELSE final
  BY DEF WorkflowTest
<1>2. CASE refused
  <2>1. WorkflowTest(project) = Ended(1, cases, <<>>)
    <3> HIDE DEF refused, ran, final
    <3> QED BY <1>1, <1>2
  <2> HIDE DEF refused
  <2> QED BY <2>1, NothingJudged
<1>3. CASE ~refused
  <2>1. Ready(datasets, project)
    BY <1>3, DatasetsReady
  <2>2. RanWell(ran, datasets, project)
    <3>1. CASE cached
      <4>1. \A i \in DOMAIN datasets : IsCase(datasets[i])
        <5> HIDE DEF datasets
        <5> QED BY <2>1, CasesAre
      <4>2. ran = [ok |-> TRUE, prepared |-> datasets, cases |-> cases]
        BY <3>1
      <4> HIDE DEF ran, datasets
      <4>3. RanWell([ok |-> TRUE, prepared |-> datasets, cases |-> cases], datasets, project)
        BY <3>1, <4>1, CachedWell
      <4> QED BY <4>2, <4>3, Zenon
    <3>2. CASE ~cached
      <4>1. ran = RunWorkflowForDatasets(cases, datasets, project.produced, save)
        BY <3>2
      <4> HIDE DEF ran, datasets
      <4>2. RanWell(RunWorkflowForDatasets(cases, datasets, project.produced, save), datasets, project)
        BY <2>1, <3>2, RanIsWell
      <4> QED BY <4>1, <4>2, Zenon
    <3> HIDE DEF cached, ran
    <3> QED BY <3>1, <3>2
  <2>3. CASE ~ran.ok
    <3>1. WorkflowTest(project) = Ended(1, ran.cases, <<>>)
      <4> HIDE DEF refused, ran, final
      <4> QED BY <1>1, <1>3, <2>3
    <3> HIDE DEF refused, ran, final, datasets
    <3>2. VerdictsBelongToTheirCases(project, Ended(1, ran.cases, <<>>))
      BY <2>2, NothingJudged DEF RanWell
    <3> QED BY <3>1, <3>2, Zenon
  <2>4. CASE ran.ok
    <3>1. WorkflowTest(project) = final
      <4> HIDE DEF refused, ran, final
      <4> QED BY <1>1, <1>3, <2>4
    <3> HIDE DEF refused, ran, datasets
    <3>2. VerdictsBelongToTheirCases(project, final)
      <4>1. output = EvalWorkflow(ran.prepared, project.defs, project.wins)
        OBVIOUS
      <4> HIDE DEF output
      <4> QED BY <2>1, <2>2, <2>4, <4>1, AllJudged
    <3> HIDE DEF final
    <3> QED BY <3>1, <3>2, Zenon
  <2> QED BY <2>3, <2>4
<1> HIDE DEF refused
<1> QED BY <1>2, <1>3

(* A test run speaks of its cases, whatever the project, the evaluators and the order in
   which the cases come to be judged (test.ts, datasets.ts, eval_workflow.ts). *)
THEOREM TestsTellOfThem == Spec => []TestsTellOfTheirCases
<1>1. AnswersAsComputed => TestsTellOfTheirCases
  <2> SUFFICES ASSUME AnswersAsComputed, Told("test")
               PROVE  VerdictsBelongToTheirCases(given.input, told[1])
    BY DEF TestsTellOfTheirCases
  <2>1. given.input \in Projects /\ told[1] = WorkflowTest(given.input)
    BY DEF AnswersAsComputed, Told
  <2>2. IsProject(given.input)
    BY <2>1, ProjectsAssumption
  <2> QED BY <2>1, <2>2, TestIsTold
<1> QED BY <1>1, AlwaysComputed, PTL

-----------------------------------------------------------------------------
(* What is built of a project.  What leads on does so in rounds. *)

(* f tells what is reached in each number of rounds. *)
Rounds(f, some, leads, n) ==
    f = [k \in 0 .. n |->
              IF k = 0 THEN some
              ELSE f[k - 1] \cup UNION {leads[x] : x \in f[k - 1] \cap DOMAIN leads}]

(* What one more round adds to what f has found. *)
OneRound(f, some, leads, k) ==
    IF k = 0 THEN some ELSE f[k - 1] \cup UNION {leads[x] : x \in f[k - 1] \cap DOMAIN leads}

LEMMA RoundsAre ==
  ASSUME NEW f, NEW some, NEW leads, NEW n \in Nat, Rounds(f, some, leads, n)
  PROVE  /\ f[0] = some
         /\ \A k \in 1 .. n : f[k] = f[k - 1] \cup UNION {leads[x] : x \in f[k - 1] \cap DOMAIN leads}
<1>1. f = [k \in 0 .. n |-> OneRound(f, some, leads, k)]
  BY DEF Rounds, OneRound
<1>2. \A k \in 0 .. n : f[k] = OneRound(f, some, leads, k)
  BY <1>1
<1>3. 0 \in 0 .. n /\ \A k \in 1 .. n : k \in 0 .. n /\ k # 0
  OBVIOUS
<1>4. f[0] = some
  BY <1>2, <1>3 DEF OneRound
<1>5. ASSUME NEW k \in 1 .. n
      PROVE  f[k] = f[k - 1] \cup UNION {leads[x] : x \in f[k - 1] \cap DOMAIN leads}
  BY <1>2, <1>3, Zenon DEF OneRound
<1> QED BY <1>4, <1>5

LEMMA RoundsExist ==
  ASSUME NEW some, NEW leads, NEW n \in Nat
  PROVE  \E f : Rounds(f, some, leads, n)
<1> DEFINE S == {k \in 0 .. n : \E f : Rounds(f, some, leads, k)}
<1>1. 0 \in S
  <2>1. Rounds([k \in 0 .. 0 |-> some], some, leads, 0)
    BY DEF Rounds
  <2> QED BY <2>1
<1>2. ASSUME NEW k \in 1 .. n, k - 1 \in S PROVE k \in S
  <2>1. PICK f : Rounds(f, some, leads, k - 1)
    BY <1>2
  <2> DEFINE more == [i \in 0 .. k |-> OneRound(f, some, leads, i)]
  <2>2. \A i \in 0 .. k - 1 : more[i] = f[i]
    <3>1. f = [i \in 0 .. k - 1 |-> OneRound(f, some, leads, i)]
      BY <2>1 DEF Rounds, OneRound
    <3>2. \A i \in 0 .. k - 1 : f[i] = OneRound(f, some, leads, i)
      BY <3>1
    <3>3. \A i \in 0 .. k - 1 : i \in 0 .. k
      BY <1>2
    <3> QED BY <3>2, <3>3
  <2>3. \A i \in 0 .. k : OneRound(f, some, leads, i) = OneRound(more, some, leads, i)
    <3> SUFFICES ASSUME NEW i \in 0 .. k
                 PROVE  OneRound(f, some, leads, i) = OneRound(more, some, leads, i)
      OBVIOUS
    <3>1. i # 0 => more[i - 1] = f[i - 1]
      <4> HIDE DEF more
      <4> QED BY <1>2, <2>2
    <3> HIDE DEF more
    <3> QED BY <3>1, Zenon DEF OneRound
  <2>4. more = [i \in 0 .. k |-> OneRound(more, some, leads, i)]
    BY <2>3
  <2> HIDE DEF more
  <2>5. Rounds(more, some, leads, k)
    BY <2>4 DEF Rounds, OneRound
  <2> QED BY <2>5
<1>3. \A k \in 0 .. n : k \in S
  <2> HIDE DEF S
  <2> QED BY <1>1, <1>2, UpTo
<1> QED BY <1>3

LEMMA ReachedIs ==
  ASSUME NEW some, NEW leads, NEW n \in Nat
  PROVE  \E f : Rounds(f, some, leads, n) /\ ReachedIn(n, some, leads) = f[n]
<1> DEFINE g == CHOOSE f : Rounds(f, some, leads, n)
<1>1. Rounds(g, some, leads, n)
  BY RoundsExist
<1>2. ReachedIn(n, some, leads) = g[n]
  BY DEF ReachedIn, Rounds
<1> QED BY <1>1, <1>2

(* More to begin with reaches no less. *)
LEMMA MoreIsReached ==
  ASSUME NEW some, NEW all, some \subseteq all, NEW leads, NEW n \in Nat
  PROVE  ReachedIn(n, some, leads) \subseteq ReachedIn(n, all, leads)
<1>1. PICK f : Rounds(f, some, leads, n) /\ ReachedIn(n, some, leads) = f[n]
  BY ReachedIs
<1>2. PICK g : Rounds(g, all, leads, n) /\ ReachedIn(n, all, leads) = g[n]
  BY ReachedIs
<1> DEFINE S == {k \in 0 .. n : f[k] \subseteq g[k]}
<1>3. 0 \in S
  BY <1>1, <1>2, RoundsAre
<1>4. ASSUME NEW k \in 1 .. n, k - 1 \in S PROVE k \in S
  <2>1. f[k - 1] \subseteq g[k - 1]
    BY <1>4
  <2>2. f[k] = f[k - 1] \cup UNION {leads[x] : x \in f[k - 1] \cap DOMAIN leads}
    <3>1. \A j \in 1 .. n : f[j] = f[j - 1] \cup UNION {leads[x] : x \in f[j - 1] \cap DOMAIN leads}
      BY <1>1, RoundsAre
    <3> QED BY <1>4, <3>1, Zenon
  <2>3. g[k] = g[k - 1] \cup UNION {leads[x] : x \in g[k - 1] \cap DOMAIN leads}
    <3>1. \A j \in 1 .. n : g[j] = g[j - 1] \cup UNION {leads[x] : x \in g[j - 1] \cap DOMAIN leads}
      BY <1>2, RoundsAre
    <3> QED BY <1>4, <3>1, Zenon
  <2>4. f[k] \subseteq g[k]
    BY <2>1, <2>2, <2>3
  <2> QED BY <2>4
<1>5. \A k \in 0 .. n : k \in S
  <2> HIDE DEF S
  <2> QED BY <1>3, <1>4, UpTo
<1> QED BY <1>1, <1>2, <1>5

(* What leads nowhere is all that is reached. *)
LEMMA ReachesNoFurther ==
  ASSUME NEW some, NEW leads, \A x \in some : x \in DOMAIN leads => leads[x] = {}, NEW n \in Nat
  PROVE  ReachedIn(n, some, leads) = some
<1>1. PICK f : Rounds(f, some, leads, n) /\ ReachedIn(n, some, leads) = f[n]
  BY ReachedIs
<1> DEFINE S == {k \in 0 .. n : f[k] = some}
<1>2. 0 \in S
  BY <1>1, RoundsAre
<1>3. ASSUME NEW k \in 1 .. n, k - 1 \in S PROVE k \in S
  <2>1. f[k - 1] = some
    BY <1>3
  <2>2. f[k] = f[k - 1] \cup UNION {leads[x] : x \in f[k - 1] \cap DOMAIN leads}
    <3>1. \A j \in 1 .. n : f[j] = f[j - 1] \cup UNION {leads[x] : x \in f[j - 1] \cap DOMAIN leads}
      BY <1>1, RoundsAre
    <3> QED BY <1>3, <3>1, Zenon
  <2>3. f[k] = some
    BY <2>1, <2>2
  <2> QED BY <2>3
<1>4. \A k \in 0 .. n : k \in S
  <2> HIDE DEF S
  <2> QED BY <1>2, <1>3, UpTo
<1> QED BY <1>1, <1>4

(* The components of a project: finitely many, each told by its file and its export. *)

LEMMA ComponentIs ==
  ASSUME NEW project, NEW paths, NEW c \in ImportComponents(project, paths)
  PROVE  /\ c.path \in paths /\ c.export \in project.files[c.path].exports
         /\ c.export.factory # "none" /\ c = [path |-> c.path, export |-> c.export]
<1>1. PICK f \in paths : \E e \in {x \in project.files[f].exports : x.factory # "none"} :
                             c = [path |-> f, export |-> e]
  BY DEF ImportComponents
<1>2. PICK e \in {x \in project.files[f].exports : x.factory # "none"} : c = [path |-> f, export |-> e]
  BY <1>1
<1>3. c.path = f /\ c.export = e
  BY <1>2
<1> QED BY <1>2, <1>3

LEMMA ComponentOf ==
  ASSUME NEW project, NEW paths, NEW f \in paths, NEW c \in ImportComponents(project, {f})
  PROVE  c \in ImportComponents(project, paths)
BY DEF ImportComponents

LEMMA ComponentThere ==
  ASSUME NEW project, NEW paths, NEW c \in ImportComponents(project, paths)
  PROVE  c \in ImportComponents(project, {c.path})
<1>1. PICK f \in paths : c \in {[path |-> f, export |-> e] :
                                  e \in {x \in project.files[f].exports : x.factory # "none"}}
  BY DEF ImportComponents
<1>2. c.path = f
  BY <1>1
<1> QED BY <1>1, <1>2 DEF ImportComponents

LEMMA TheExport ==
  ASSUME NEW project, IsTree(project), NEW f \in DOMAIN project.files,
         NEW c \in ImportComponents(project, {f}), NEW d \in ImportComponents(project, {f}),
         c.export.id = d.export.id
  PROVE  c = d
<1>1. /\ c.path = f /\ c.export \in project.files[f].exports
      /\ c = [path |-> c.path, export |-> c.export]
  BY ComponentIs
<1>2. /\ d.path = f /\ d.export \in project.files[f].exports
      /\ d = [path |-> d.path, export |-> d.export]
  BY ComponentIs
<1>3. \A e, other \in project.files[f].exports : e.id = other.id => e = other
  BY DEF IsTree
<1>4. c.export = d.export
  BY <1>1, <1>2, <1>3
<1> QED BY <1>1, <1>2, <1>4

LEMMA ImageIsFinite ==
  ASSUME NEW S, IsFiniteSet(S), NEW f, DOMAIN f = S
  PROVE  IsFiniteSet({f[x] : x \in S})
<1> DEFINE T == {f[x] : x \in S}
           g == [x \in S |-> f[x]]
<1>1. g \in Surjection(S, T)
  BY DEF Surjection
<1> QED BY <1>1, FS_Surjection

LEMMA FinitelyMany ==
  ASSUME NEW project, IsTree(project), NEW paths, paths \subseteq DOMAIN project.files
  PROVE  IsFiniteSet(ImportComponents(project, paths))
<1> DEFINE kept(f) == {x \in project.files[f].exports : x.factory # "none"}
           made(f) == {[path |-> f, export |-> e] : e \in kept(f)}
<1>1. ASSUME NEW f \in paths PROVE IsFiniteSet(made(f))
  <2>1. IsFiniteSet(project.files[f].exports)
    BY DEF IsTree
  <2>2. IsFiniteSet(kept(f))
    BY <2>1, FS_Subset
  <2> DEFINE g == [e \in kept(f) |-> [path |-> f, export |-> e]]
  <2>3. IsFiniteSet({g[e] : e \in kept(f)})
    <3>1. DOMAIN g = kept(f)
      OBVIOUS
    <3> HIDE DEF g, kept
    <3> QED BY <2>2, <3>1, ImageIsFinite
  <2>4. {g[e] : e \in kept(f)} = made(f)
    OBVIOUS
  <2> QED BY <2>3, <2>4
<1>2. IsFiniteSet(paths)
  BY FS_Subset DEF IsTree
<1> DEFINE h == [f \in paths |-> made(f)]
<1>3. IsFiniteSet({h[f] : f \in paths})
  <2>1. DOMAIN h = paths
    OBVIOUS
  <2> HIDE DEF h
  <2> QED BY <1>2, <2>1, ImageIsFinite
<1>4. \A T \in {h[f] : f \in paths} : IsFiniteSet(T)
  <2> HIDE DEF made
  <2> QED BY <1>1
<1>5. ImportComponents(project, paths) = UNION {h[f] : f \in paths}
  BY DEF ImportComponents
<1> HIDE DEF h
<1> QED BY <1>3, <1>4, <1>5, FS_UNION

LEMMA NoOther ==
  ASSUME NEW S, IsFiniteSet(S), ~(Cardinality(S) > 1), NEW c \in S
  PROVE  S = {c}
<1>1. /\ Cardinality(S) \in Nat /\ IsFiniteSet(S \ {c})
      /\ Cardinality(S \ {c}) = Cardinality(S) - 1
  BY FS_CardinalityType, FS_RemoveElement
<1>2. Cardinality(S \ {c}) \in Nat
  BY <1>1, FS_CardinalityType
<1>3. S \ {c} = {}
  BY <1>1, <1>2, FS_EmptySet
<1> QED BY <1>3

-----------------------------------------------------------------------------
(* The workflows that are loaded claim no name twice. *)

WorkflowFiles(project) ==
    {f \in FilesBelow(project, project.root) : IsWorkflowFile(f)}
    \cup {f \in FilesOfPackages(project) : IsWorkflowFile(f)}

Claims(c) == {c.export.name} \cup Range(c.export.aliases)

LEMMA FilesAreThere ==
  ASSUME NEW project
  PROVE  /\ \A dir : FilesBelow(project, dir) \subseteq DOMAIN project.files
         /\ FilesOfPackages(project) \subseteq DOMAIN project.files
         /\ WorkflowFiles(project) \subseteq DOMAIN project.files
         /\ \A f \in WorkflowFiles(project) : IsWorkflowFile(f)
BY DEF FilesBelow, FilesOfPackages, WorkflowFiles

LEMMA ClaimedAt ==
  ASSUME NEW s, s = [k \in 1 .. Len(s) |-> s[k]], Len(s) \in Nat, NEW x, NEW n \in {x} \cup Range(s)
  PROVE  \E k \in DOMAIN (<<x>> \o s) : (<<x>> \o s)[k] = n
<1> DEFINE T == {x} \cup Range(s)
<1>1. DOMAIN s = 1 .. Len(s)
  OBVIOUS
<1>2. \A k \in 1 .. Len(s) : s[k] \in T
  BY <1>1 DEF Range
<1> HIDE DEF T
<1>3. s \in Seq(T)
  <2>1. [k \in 1 .. Len(s) |-> s[k]] \in [1 .. Len(s) -> T]
    BY <1>2
  <2> QED BY <2>1, SeqDef
<1>4. <<x>> \in Seq(T) /\ Len(<<x>>) = 1 /\ <<x>>[1] = x
  BY DEF T
<1>5. /\ Len(<<x>> \o s) = Len(s) + 1 /\ DOMAIN (<<x>> \o s) = 1 .. Len(s) + 1
      /\ (<<x>> \o s)[1] = x
      /\ \A k \in 1 .. Len(s) : (<<x>> \o s)[k + 1] = s[k]
  BY <1>3, <1>4
<1>6. CASE n = x
  BY <1>5, <1>6
<1>7. CASE n # x
  <2>1. PICK k \in DOMAIN s : n = s[k]
    BY <1>7 DEF Range
  <2>2. k + 1 \in 1 .. Len(s) + 1 /\ k \in 1 .. Len(s)
    BY <1>1
  <2> QED BY <1>5, <2>1, <2>2
<1> QED BY <1>6, <1>7

LEMMA LoadedAre ==
  ASSUME NEW project, LoadWorkflows(project).ok
  PROVE  LET loaded == LoadWorkflows(project)
             names(c) == <<c.export.name>> \o c.export.aliases
         IN  /\ loaded.workflows = ImportComponents(project, WorkflowFiles(project))
             /\ loaded.external = {f \in FilesOfPackages(project) : IsWorkflowFile(f)}
             /\ \A c, d \in loaded.workflows : \A k \in DOMAIN names(c), l \in DOMAIN names(d) :
                  names(c)[k] = names(d)[l] => c = d
<1> DEFINE loaded == LoadWorkflows(project)
           names(c) == <<c.export.name>> \o c.export.aliases
           found == ImportComponents(project, WorkflowFiles(project))
           claims == UNION {{<<c, k>> : k \in DOMAIN names(c)} : c \in found}
           claimed(claim) == names(claim[1])[claim[2]]
           external == {f \in FilesOfPackages(project) : IsWorkflowFile(f)}
           bad == \/ \E c \in found : Last(DirName(c.path)) = "shared"
                  \/ \E a, b \in claims : a # b /\ claimed(a) = claimed(b)
                  \/ \E a \in claims : claimed(a) = Catalog
<1>1. loaded = IF bad THEN Refused ELSE [ok |-> TRUE, workflows |-> found, external |-> external]
  BY DEF LoadWorkflows, WorkflowFiles
<1>2. ~bad
  <2> HIDE DEF bad
  <2> QED BY <1>1 DEF Refused
<1>3. loaded = [ok |-> TRUE, workflows |-> found, external |-> external]
  <2> HIDE DEF bad
  <2> QED BY <1>1, <1>2
<1>4. \A a, b \in claims : claimed(a) = claimed(b) => a = b
  BY <1>2
<1>5. ASSUME NEW c \in found, NEW d \in found, NEW k \in DOMAIN names(c), NEW l \in DOMAIN names(d),
             names(c)[k] = names(d)[l]
      PROVE  c = d
  <2>1. <<c, k>> \in claims /\ <<d, l>> \in claims
    OBVIOUS
  <2>2. claimed(<<c, k>>) = claimed(<<d, l>>)
    BY <1>5
  <2>3. <<c, k>> = <<d, l>>
    <3> HIDE DEF claims, claimed
    <3> QED BY <1>4, <2>1, <2>2
  <2> QED BY <2>3
<1>6. loaded.workflows = found /\ loaded.external = external
  <2> HIDE DEF loaded, found, external
  <2> QED BY <1>3
<1> HIDE DEF loaded, found, external, names
<1>7. \A c, d \in loaded.workflows : \A k \in DOMAIN names(c), l \in DOMAIN names(d) :
        names(c)[k] = names(d)[l] => c = d
  BY <1>5, <1>6
<1> QED BY <1>6, <1>7 DEF loaded, found, external, names

LEMMA ClaimedOnce ==
  ASSUME NEW project, IsTree(project), LoadWorkflows(project).ok,
         NEW c \in LoadWorkflows(project).workflows, NEW d \in LoadWorkflows(project).workflows,
         NEW n \in Claims(c) \cap Claims(d)
  PROVE  c = d
<1> DEFINE found == ImportComponents(project, WorkflowFiles(project))
           names(x) == <<x.export.name>> \o x.export.aliases
<1>1. c \in found /\ d \in found
  BY LoadedAre
<1>2. ASSUME NEW x \in found, n \in Claims(x)
      PROVE  \E k \in DOMAIN names(x) : names(x)[k] = n
  <2>1. x.path \in DOMAIN project.files /\ x.export \in project.files[x.path].exports
    BY ComponentIs, FilesAreThere
  <2>2. /\ x.export.aliases = [k \in 1 .. Len(x.export.aliases) |-> x.export.aliases[k]]
        /\ Len(x.export.aliases) \in Nat
    BY <2>1 DEF IsTree
  <2> DEFINE s == x.export.aliases
             t == x.export.name
  <2>3. s = [k \in 1 .. Len(s) |-> s[k]] /\ Len(s) \in Nat /\ n \in {t} \cup Range(s)
    BY <1>2, <2>2 DEF Claims
  <2>4. \E k \in DOMAIN (<<t>> \o s) : (<<t>> \o s)[k] = n
    <3> HIDE DEF s, t
    <3> QED BY <2>3, ClaimedAt
  <2> QED BY <2>4
<1>3. PICK k \in DOMAIN names(c) : names(c)[k] = n
  BY <1>1, <1>2
<1>4. PICK l \in DOMAIN names(d) : names(d)[l] = n
  BY <1>1, <1>2
<1> QED BY <1>3, <1>4, LoadedAre

(* So a name or an alias starts the workflow that declares it. *)
LEMMA Starts ==
  ASSUME NEW project, IsTree(project), LoadWorkflows(project).ok,
         NEW w \in LoadWorkflows(project).workflows, NEW n \in Claims(w)
  PROVE  LET workflows == LoadWorkflows(project).workflows
         IN  /\ n \in DOMAIN Entrypoint(project, workflows)
             /\ Entrypoint(project, workflows)[n] = {w}
             /\ WorkflowNames(workflows)[n] = w.export.name
<1> DEFINE workflows == LoadWorkflows(project).workflows
           of(m) == CHOOSE c \in workflows : m \in Claims(c)
           all == UNION {Claims(c) : c \in workflows}
<1>1. n \in all
  OBVIOUS
<1>2. of(n) = w
  <2>1. of(n) \in workflows /\ n \in Claims(of(n))
    OBVIOUS
  <2> HIDE DEF of
  <2> QED BY <2>1, ClaimedOnce
<1>3. w.path \in DOMAIN project.files /\ IsWorkflowFile(w.path) /\ w \in ImportComponents(project, {w.path})
  <2>1. w \in ImportComponents(project, WorkflowFiles(project))
    BY LoadedAre
  <2> QED BY <2>1, ComponentIs, ComponentThere, FilesAreThere
<1>4. w.export.id = "default"
  <2>1. w.export \in project.files[w.path].exports /\ w.export.factory # "none"
    BY <1>3, ComponentIs
  <2>2. \A e \in project.files[w.path].exports :
          IsWorkflowFile(w.path) /\ e.factory # "none" => e.id = "default"
    <3>1. w.path \in DOMAIN project.files
      BY <1>3
    <3> QED BY <3>1, Zenon DEF IsTree
  <2> QED BY <1>3, <2>1, <2>2
<1> DEFINE defaults(c) == {d \in ImportComponents(project, {c.path}) : d.export.id = "default"}
<1>5. defaults(w) = {w}
  <2>1. \A d \in ImportComponents(project, {w.path}) : d.export.id = "default" => d = w
    BY <1>3, <1>4, TheExport
  <2> QED BY <1>3, <1>4, <2>1
<1>6. Entrypoint(project, workflows) = [m \in all |-> defaults(of(m))]
  BY DEF Entrypoint, Claims
<1>7. WorkflowNames(workflows) = [m \in all |-> of(m).export.name]
  BY DEF WorkflowNames, Claims
<1> HIDE DEF workflows, of, all, defaults
<1>8. n \in DOMAIN Entrypoint(project, workflows) /\ Entrypoint(project, workflows)[n] = defaults(of(n))
  BY <1>1, <1>6
<1>9. WorkflowNames(workflows)[n] = of(n).export.name
  BY <1>1, <1>7
<1> QED BY <1>2, <1>5, <1>8, <1>9 DEF workflows

-----------------------------------------------------------------------------
(* Under the name of a workflow, each activity that it can call is found by its own name. *)

LEMMA ActivitiesAre ==
  ASSUME NEW project, IsTree(project), LoadWorkflows(project).ok,
         NEW loaded, loaded = LoadWorkflows(project), LoadActivities(project, loaded).ok,
         NEW w \in loaded.workflows, NEW c \in OwnActivities(project, w) \cup SharedActivities(project, loaded)
  PROVE  LET at == LoadActivities(project, loaded).activities[w.export.name]
         IN  c.export.name \in DOMAIN at /\ at[c.export.name] = c
<1> DEFINE shared == SharedActivities(project, loaded)
           own(v) == OwnActivities(project, v)
           names(v) == {x.export.name : x \in shared \cup own(v)}
           under(v, n) == IF Named(own(v), n) # {} THEN Named(own(v), n) ELSE Named(shared, n)
           of(name) == CHOOSE x \in Named(loaded.workflows, name) : TRUE
           table(v) == [n \in names(v) |-> CHOOSE x \in under(v, n) : TRUE]
           bad == \/ \E x \in shared : Cardinality(Named(shared, x.export.name)) > 1
                  \/ \E v \in loaded.workflows : Overlaps(own(v), shared)
           all == [name \in {x.export.name : x \in loaded.workflows} |-> table(of(name))]
<1>1. LoadActivities(project, loaded) = IF bad THEN Refused ELSE [ok |-> TRUE, activities |-> all]
  BY DEF LoadActivities
<1>2. ~bad
  <2> HIDE DEF bad, all
  <2> QED BY <1>1 DEF Refused
<1>3. LoadActivities(project, loaded).activities = all
  <2>1. LoadActivities(project, loaded) = [ok |-> TRUE, activities |-> all]
    <3> HIDE DEF bad, all
    <3> QED BY <1>1, <1>2
  <2> HIDE DEF all
  <2> QED BY <2>1
<1>4. of(w.export.name) = w
  <2>1. w \in Named(loaded.workflows, w.export.name)
    BY DEF Named
  <2>2. of(w.export.name) \in Named(loaded.workflows, w.export.name)
    BY <2>1
  <2>3. of(w.export.name) \in loaded.workflows /\ of(w.export.name).export.name = w.export.name
    BY <2>2 DEF Named
  <2> HIDE DEF of
  <2>4. w.export.name \in Claims(of(w.export.name)) \cap Claims(w)
    BY <2>3 DEF Claims
  <2> QED BY <2>3, <2>4, ClaimedOnce
<1>5. IsFiniteSet(own(w)) /\ IsFiniteSet(shared)
  <2>1. \A dir : FilesBelow(project, dir) \subseteq DOMAIN project.files
    BY FilesAreThere
  <2>2. IsFiniteSet(own(w))
    <3> DEFINE files == {f \in FilesBelow(project, DirName(w.path)) : IsActivityOf(DirName(w.path), f)}
    <3>1. files \subseteq DOMAIN project.files
      BY <2>1
    <3>2. own(w) = ImportComponents(project, files)
      BY DEF OwnActivities
    <3> HIDE DEF files
    <3> QED BY <3>1, <3>2, FinitelyMany
  <2>3. IsFiniteSet(shared)
    <3> DEFINE roots == {PackageRoot(project, x.path) : x \in {v \in loaded.workflows : v.path \in loaded.external}}
               below == FilesBelow(project, project.root)
                        \cup UNION {FilesBelow(project, r) : r \in roots \ {<<>>}}
               files == {f \in below : IsSharedActivity(f)}
    <3>1. files \subseteq DOMAIN project.files
      BY <2>1
    <3>2. shared = ImportComponents(project, files)
      BY DEF SharedActivities
    <3> HIDE DEF files
    <3> QED BY <3>1, <3>2, FinitelyMany
  <2> QED BY <2>2, <2>3
<1> DEFINE n == c.export.name
<1> HIDE DEF shared, own
<1>6. under(w, n) = {c}
  <2>1. Named(own(w), n) \subseteq own(w) /\ Named(shared, n) \subseteq shared
    BY DEF Named
  <2>2. IsFiniteSet(Named(own(w), n)) /\ IsFiniteSet(Named(shared, n))
    BY <1>5, <2>1, FS_Subset
  <2>3. CASE c \in own(w)
    <3>1. c \in Named(own(w), n)
      BY <2>3 DEF Named
    <3>2. ~(Cardinality(Named(own(w), n)) > 1)
      BY <1>2, <2>3 DEF Overlaps
    <3>3. Named(own(w), n) = {c}
      BY <2>2, <3>1, <3>2, NoOther
    <3> QED BY <3>3
  <2>4. CASE c \notin own(w)
    <3>1. c \in shared
      BY <2>4 DEF shared, own
    <3>2. c \in Named(shared, n)
      BY <3>1 DEF Named
    <3>3. ~(Cardinality(Named(shared, n)) > 1)
      BY <1>2, <3>1
    <3>4. Named(shared, n) = {c}
      BY <2>2, <3>2, <3>3, NoOther
    <3>5. Named(own(w), n) = {}
      <4> SUFFICES ASSUME NEW x \in Named(own(w), n) PROVE FALSE
        OBVIOUS
      <4>1. x \in own(w) /\ x.export.name = n
        BY DEF Named
      <4>2. Named(shared, x.export.name) = {}
        BY <1>2, <4>1 DEF Overlaps
      <4> QED BY <3>2, <4>1, <4>2
    <3> QED BY <3>4, <3>5
  <2> QED BY <2>3, <2>4
<1>7. n \in names(w)
  BY DEF shared, own
<1>8. n \in DOMAIN table(w) /\ table(w)[n] = c
  <2>1. (CHOOSE x \in under(w, n) : TRUE) = c
    <3> HIDE DEF under, n
    <3> QED BY <1>6
  <2> HIDE DEF names, under, n
  <2> QED BY <1>7, <2>1
<1>9. all[w.export.name] = table(of(w.export.name))
  <2> HIDE DEF table, of
  <2> QED OBVIOUS
<1> HIDE DEF all, table, of
<1> QED BY <1>3, <1>4, <1>8, <1>9

-----------------------------------------------------------------------------
(* What is built, and that each use of a module is told of. *)

RunsIn(project, w) == {m \in Bundled(project, {w.path}) : m = w.path \/ ~IsWorkflowFile(m)}

LEMMA BuiltIs ==
  ASSUME NEW project, BuildWorker(project).ok
  PROVE  LET loaded == LoadWorkflows(project)
             registered == LoadActivities(project, loaded)
             starts == Entrypoint(project, loaded.workflows)
             built == BuildWorker(project)
         IN  /\ loaded.ok /\ registered.ok
             /\ ~FailsToBundle(project, Bundled(project, {c.path : c \in loaded.workflows}))
             /\ built.starts = starts /\ built.names = WorkflowNames(loaded.workflows)
             /\ DOMAIN built.reached = loaded.workflows
             /\ \A w \in loaded.workflows :
                  /\ DOMAIN built.reached[w] = RunsIn(project, w)
                  /\ \A m \in RunsIn(project, w) :
                       /\ DOMAIN built.reached[w][m] = project.files[m].uses
                       /\ \A u \in project.files[m].uses :
                            built.reached[w][m][u]
                              = Reached(project, starts, registered.activities, w, m, u)
<1> DEFINE loaded == LoadWorkflows(project)
           registered == LoadActivities(project, loaded)
           modules == Bundled(project, {c.path : c \in loaded.workflows})
           starts == Entrypoint(project, loaded.workflows)
           names == WorkflowNames(loaded.workflows)
           Use(w, m, u) == Reached(project, starts, registered.activities, w, m, u)
           reached(w, m) == [u \in project.files[m].uses |-> Use(w, m, u)]
           all == [w \in loaded.workflows |-> [m \in RunsIn(project, w) |-> reached(w, m)]]
           warned == [m \in modules |-> Warnings(project, m)]
           worker == [ok |-> TRUE, starts |-> starts, names |-> names,
                      activities |-> registered.activities, warned |-> warned, reached |-> all]
           built == BuildWorker(project)
<1>1. built = IF ~loaded.ok THEN Refused
              ELSE IF ~registered.ok \/ FailsToBundle(project, modules) THEN Refused ELSE worker
  BY DEF BuildWorker, RunsIn
<1>2. loaded.ok /\ registered.ok /\ ~FailsToBundle(project, modules) /\ built = worker
  <2>1. built.ok
    OBVIOUS
  <2> HIDE DEF loaded, registered, modules, worker, built
  <2> QED BY <1>1, <2>1 DEF Refused
<1>3. built.starts = starts /\ built.names = names /\ built.reached = all
  <2> HIDE DEF loaded, registered, modules, starts, names, all, warned, built
  <2> QED BY <1>2
<1>4. /\ DOMAIN all = loaded.workflows
      /\ \A w \in loaded.workflows :
           /\ DOMAIN all[w] = RunsIn(project, w)
           /\ \A m \in RunsIn(project, w) :
                /\ DOMAIN all[w][m] = project.files[m].uses
                /\ \A u \in project.files[m].uses : all[w][m][u] = Use(w, m, u)
  <2> HIDE DEF loaded, Use
  <2> QED OBVIOUS
<1> HIDE DEF modules, all, built, names
<1>5. /\ DOMAIN built.reached = loaded.workflows
      /\ \A w \in loaded.workflows :
           /\ DOMAIN built.reached[w] = RunsIn(project, w)
           /\ \A m \in RunsIn(project, w) :
                /\ DOMAIN built.reached[w][m] = project.files[m].uses
                /\ \A u \in project.files[m].uses : built.reached[w][m][u] = Use(w, m, u)
  <2> HIDE DEF loaded, Use
  <2> QED BY <1>3, <1>4
<1> QED BY <1>2, <1>3, <1>5 DEF modules, built, names

LEMMA ModulesAreThere ==
  ASSUME NEW project, IsTree(project), BuildWorker(project).ok,
         NEW w \in LoadWorkflows(project).workflows, NEW m \in RunsIn(project, w)
  PROVE  /\ m \in DOMAIN project.files
         /\ IsLoaded(project, m) => ~Invalid(project, m) /\ ~CannotBeRewritten(project, m)
<1> DEFINE workflows == LoadWorkflows(project).workflows
           modules == Bundled(project, {c.path : c \in workflows})
           rounds == Cardinality(DOMAIN project.files)
           leads == [x \in DOMAIN project.files |-> Imported(project, x)]
<1>1. ~FailsToBundle(project, modules)
  BY BuiltIs
<1>2. rounds \in Nat
  BY FS_CardinalityType DEF IsTree
<1>3. Bundled(project, {w.path}) \subseteq modules
  <2>1. {w.path} \subseteq {c.path : c \in workflows}
    OBVIOUS
  <2>2. /\ Bundled(project, {w.path}) = ReachedIn(rounds, {w.path}, leads)
        /\ modules = ReachedIn(rounds, {c.path : c \in workflows}, leads)
    BY DEF Bundled
  <2> HIDE DEF workflows, modules, rounds, leads
  <2> QED BY <1>2, <2>1, <2>2, MoreIsReached
<1>4. m \in modules
  BY <1>3 DEF RunsIn
<1> HIDE DEF modules
<1> QED BY <1>1, <1>4 DEF FailsToBundle

(* What the use of a name reaches, by what it was rewritten to. *)
ReachedSo(project, starts, activities, w, m, u) ==
    LET r == Rewritten(project, m, u)
        got == Reached(project, starts, activities, w, m, u)
        at == activities[w.export.name]
        child == {c \in BoundComponent(project, m, u.of) : c.export.factory = "workflow"}
    IN  /\ u.shadowed => got.by = "itself" /\ got.components = {}
        /\ r.to = "dispatcher" =>
             /\ got.by = "dispatcher"
             /\ r.name \in DOMAIN at => got.components = {at[r.name]}
        /\ r.to = "name" => got.by = "name" /\ got.name = r.name
        /\ r.to = "itself" /\ ~u.shadowed /\ u.kind = "call" /\ child # {} =>
             LET name == (CHOOSE c \in child : TRUE).export.name
             IN  /\ got.by = "child"
                 /\ name \in DOMAIN starts => got.components = starts[name]

LEMMA ReachedBy ==
  ASSUME NEW project, NEW starts, NEW activities, NEW w, NEW m, NEW u
  PROVE  ReachedSo(project, starts, activities, w, m, u)
<1> DEFINE r == Rewritten(project, m, u)
           bound == BoundComponent(project, m, u.of)
           child == {c \in bound : c.export.factory = "workflow"}
           at == activities[w.export.name]
           found(f, name) == IF name \in DOMAIN f THEN {f[name]} ELSE {}
           reached(by, name, components) == [by |-> by, name |-> name, components |-> components]
           named == (CHOOSE c \in child : TRUE).export.name
           got == Reached(project, starts, activities, w, m, u)
<1>1. got = CASE r.to = "dispatcher" -> reached("dispatcher", r.name, found(at, r.name))
               [] r.to = "name" -> reached("name", r.name, {})
               [] r.to = "itself" /\ ~u.shadowed /\ u.kind = "call" /\ child # {} ->
                    reached("child", named, UNION found(starts, named))
               [] OTHER -> reached("itself", u.of, IF u.shadowed THEN {} ELSE bound)
  BY DEF Reached
<1>2. u.shadowed => r.to = "itself"
  BY DEF Rewritten
<1> HIDE DEF r, bound, child, at, named, got
<1>3. u.shadowed => got.by = "itself" /\ got.components = {}
  BY <1>1, <1>2
<1>4. r.to = "dispatcher" => /\ got.by = "dispatcher"
                             /\ r.name \in DOMAIN at => got.components = {at[r.name]}
  BY <1>1
<1>5. r.to = "name" => got.by = "name" /\ got.name = r.name
  BY <1>1
<1>6. r.to = "itself" /\ ~u.shadowed /\ u.kind = "call" /\ child # {} =>
        /\ got.by = "child"
        /\ named \in DOMAIN starts => got.components = starts[named]
  BY <1>1
<1> QED BY <1>3, <1>4, <1>5, <1>6 DEF ReachedSo, r, bound, child, at, named, got

-----------------------------------------------------------------------------
(* A local name is bound once: by an import that is taken out, to its declared name, or
   by another, to what is exported there. *)

LEMMA NameIs ==
  ASSUME NEW project, IsTree(project), NEW m \in DOMAIN project.files,
         NEW i \in project.files[m].imports, NEW n \in Range(i.names)
  PROVE  ActivityName(project, m, n.local)
           = IF i \in Targets(project, m)
             THEN NameOf(project.files[TargetOf(m, i)], n.imported) ELSE {}
<1> DEFINE of(j, k) == NameOf(project.files[TargetOf(m, j)], k.imported)
           local(j) == {k \in Range(j.names) : k.local = n.local}
<1>1. ActivityName(project, m, n.local)
        = UNION {UNION {of(j, k) : k \in local(j)} : j \in Targets(project, m)}
  BY DEF ActivityName
<1>2. \A j \in Targets(project, m) : \A k \in local(j) : j = i /\ k = n
  BY DEF IsTree, Targets
<1>3. n \in local(i)
  OBVIOUS
<1> HIDE DEF of, local
<1>4. UNION {UNION {of(j, k) : k \in local(j)} : j \in Targets(project, m)}
        = IF i \in Targets(project, m) THEN of(i, n) ELSE {}
  BY <1>2, <1>3
<1> QED BY <1>1, <1>4 DEF of

LEMMA BoundIs ==
  ASSUME NEW project, IsTree(project), NEW m \in DOMAIN project.files,
         NEW i \in project.files[m].imports \ Targets(project, m), NEW n \in Range(i.names),
         ~IsBare(i.source)
  PROVE  BoundComponent(project, m, n.local) = Exported(project, TargetOf(m, i), n.imported)
<1> DEFINE source(j) == IF IsBare(j.source) THEN ResolveBareSpecifier(project, j.source)
                        ELSE ToAbsolutePath(DirName(m), j.source)
           of(j, k) == Exported(project, source(j), k.imported)
           local(j) == {k \in Range(j.names) : k.local = n.local}
           others == project.files[m].imports \ Targets(project, m)
<1>1. BoundComponent(project, m, n.local) = UNION {UNION {of(j, k) : k \in local(j)} : j \in others}
  BY DEF BoundComponent
<1>2. \A j \in others : \A k \in local(j) : j = i /\ k = n
  BY DEF IsTree
<1>3. n \in local(i) /\ i \in others
  OBVIOUS
<1>4. of(i, n) = Exported(project, TargetOf(m, i), n.imported)
  BY DEF TargetOf
<1> HIDE DEF of, local, others
<1>5. UNION {UNION {of(j, k) : k \in local(j)} : j \in others} = of(i, n)
  BY <1>2, <1>3
<1> QED BY <1>1, <1>4, <1>5

(* What a file exports itself is all that is exported there under its name. *)
LEMMA ExportedIs ==
  ASSUME NEW project, IsTree(project), NEW t \in DOMAIN project.files, NEW name,
         name = "default", NEW c \in Exports(project, t, name)
  PROVE  Exported(project, t, name) = {c}
<1> DEFINE leads == [at \in (DOMAIN project.files) \X STRING |-> PassesOn(project, at[1], at[2])]
           rounds == Cardinality(DOMAIN project.files)
           from == ReachedIn(rounds, {<<t, name>>}, leads)
<1>1. c \in ImportComponents(project, {t}) /\ c.export.id = name
  BY DEF Exports
<1>2. Exports(project, t, name) = {c}
  <2>1. \A d \in Exports(project, t, name) : d = c
    BY <1>1, TheExport DEF Exports
  <2> QED BY <2>1
<1>3. PassesOn(project, t, name) = {}
  <2>1. c.export \in project.files[t].exports
    <3>1. c.path = t
      BY <1>1, ComponentIs
    <3> QED BY <1>1, <3>1, ComponentIs
  <2>2. \A r \in Range(project.files[t].reexports) : r.star \/ r.as # c.export.id
    <3>1. \A e \in project.files[t].exports : \A r \in Range(project.files[t].reexports) :
            r.star \/ r.as # e.id
      BY DEF IsTree
    <3> QED BY <2>1, <3>1
  <2>3. {q \in Range(project.files[t].reexports) :
           IF q.star THEN name # "default" ELSE q.as = name} = {}
    BY <1>1, <2>2
  <2> QED BY <2>3 DEF PassesOn
<1>4. rounds \in Nat
  BY FS_CardinalityType DEF IsTree
<1>5. \A x \in {<<t, name>>} : x \in DOMAIN leads => leads[x] = {}
  BY <1>3
<1>6. from = {<<t, name>>}
  <2> HIDE DEF rounds, leads
  <2> QED BY <1>4, <1>5, ReachesNoFurther
<1>7. Exported(project, t, name)
        = UNION {Exports(project, at[1], at[2]) : at \in {x \in from : x[1] \in DOMAIN project.files}}
  BY DEF Exported
<1> HIDE DEF from
<1>8. {x \in from : x[1] \in DOMAIN project.files} = {<<t, name>>}
  BY <1>6
<1>9. {Exports(project, at[1], at[2]) : at \in {<<t, name>>}} = {{c}}
  BY <1>2
<1> QED BY <1>7, <1>8, <1>9

-----------------------------------------------------------------------------
(* A use of an imported activity that the guides allow goes to it, by its name. *)

(* What a workflow can have of it is in the table of its own and shared activities. *)
LEMMA DocumentedIsRegistered ==
  ASSUME NEW project, NEW loaded, LoadWorkflows(project).ok, loaded = LoadWorkflows(project),
         NEW w \in loaded.workflows, NEW m, NEW i, Documented(project, w, m, i),
         NEW c \in ImportComponents(project, {TargetOf(m, i)})
  PROVE  c \in OwnActivities(project, w) \cup SharedActivities(project, loaded)
<1> DEFINE t == TargetOf(m, i)
           dir == DirName(w.path)
           package == PackageRoot(project, w.path)
           roots == {PackageRoot(project, x.path) : x \in {v \in loaded.workflows : v.path \in loaded.external}}
           below == FilesBelow(project, project.root)
                    \cup UNION {FilesBelow(project, r) : r \in roots \ {<<>>}}
<1>1. CASE t \in FilesBelow(project, dir) /\ IsActivityOf(dir, t)
  <2>1. t \in {f \in FilesBelow(project, dir) : IsActivityOf(dir, f)}
    BY <1>1
  <2>2. c \in ImportComponents(project, {f \in FilesBelow(project, dir) : IsActivityOf(dir, f)})
    BY <2>1, ComponentOf
  <2> QED BY <2>2 DEF OwnActivities
<1>2. CASE ~(t \in FilesBelow(project, dir) /\ IsActivityOf(dir, t))
  <2>1. /\ IsSharedActivity(t)
        /\ t \in FilesBelow(project, project.root)
                 \cup IF w.path \in FilesOfPackages(project) /\ package # <<>>
                      THEN FilesBelow(project, package) ELSE {}
    BY <1>2 DEF Documented
  <2>2. w.path \in FilesOfPackages(project) => package \in roots
    <3>1. w \in ImportComponents(project, WorkflowFiles(project))
          /\ loaded.external = {f \in FilesOfPackages(project) : IsWorkflowFile(f)}
      BY LoadedAre
    <3>2. IsWorkflowFile(w.path)
      BY <3>1, ComponentIs, FilesAreThere
    <3> QED BY <3>1, <3>2
  <2>3. t \in below
    <3> HIDE DEF roots, package
    <3> QED BY <2>1, <2>2
  <2>4. t \in {f \in below : IsSharedActivity(f)}
    BY <2>1, <2>3
  <2>5. c \in ImportComponents(project, {f \in below : IsSharedActivity(f)})
    <3> HIDE DEF below
    <3> QED BY <2>4, ComponentOf
  <2> QED BY <2>5 DEF SharedActivities
<1> QED BY <1>1, <1>2

(* The validator has refused the call that is left alone at the top of a module. *)
LEMMA NotAtTheTop ==
  ASSUME NEW project, NEW m, ~Invalid(project, m), NEW i \in Targets(project, m),
         NEW w, Documented(project, w, m, i), NEW n \in Range(i.names),
         NEW u \in project.files[m].uses, u.of = n.local, u.kind = "call"
  PROVE  u.at # "top"
<1> DEFINE file == project.files[m]
           bare == {j \in file.imports : IsBare(j.source) /\ GetFileKind(m) # "other"}
           ofKind(j, kind) ==
             CASE j.form \in {"named", "default"} -> j \notin bare /\ GetFileKind(j.source) = kind
               [] j.form = (IF kind = "workflow" THEN "whole" ELSE "destructured") ->
                    GetFileKind(ToAbsolutePath(DirName(m), j.source)) = kind
               [] OTHER -> FALSE
           locals(j) == {k.local : k \in Range(j.names)}
<1>1. /\ i \in file.imports /\ i.form \in {"named", "destructured"} /\ IsActivityPath(i.source)
      /\ ~IsBare(i.source) /\ IsActivityPath(ToAbsolutePath(DirName(m), i.source))
  BY DEF Targets, Documented, TargetOf
<1>2. \A path : IsActivityPath(path) => GetFileKind(path) = "steps" \/ GetFileKind(path) = "evaluators"
  BY DEF GetFileKind, IsActivityPath
<1>3. ofKind(i, "steps") \/ ofKind(i, "evaluators")
  <2>1. i \notin bare
    BY <1>1
  <2> HIDE DEF bare
  <2>2. CASE i.form = "named"
    BY <1>1, <1>2, <2>1, <2>2
  <2>3. CASE i.form = "destructured"
    BY <1>1, <1>2, <2>3
  <2> QED BY <1>1, <2>2, <2>3
<1>4. ASSUME NEW kind \in {"steps", "evaluators"}, ofKind(i, kind)
      PROVE  n.local \in BoundTo(project, m, kind)
  <2>1. BoundTo(project, m, kind)
          = UNION {locals(j) : j \in {x \in file.imports : ofKind(x, kind)}}
            \cup (IF kind = "workflow" THEN UNION {BareWorkflows(project, j) : j \in bare} ELSE {})
    BY DEF BoundTo
  <2>2. i \in {x \in file.imports : ofKind(x, kind)} /\ n.local \in locals(i)
    BY <1>1, <1>4
  <2> HIDE DEF ofKind, locals, bare, file
  <2> QED BY <2>1, <2>2
<1>5. u.of \in Activities(project, m)
  <2> HIDE DEF ofKind
  <2> QED BY <1>3, <1>4 DEF Activities
<1> QED BY <1>5 DEF Invalid

LEMMA RewrittenIs ==
  ASSUME NEW project, NEW m, NEW u, ~u.shadowed
  PROVE  LET name == ActivityName(project, m, u.of)
             r == Rewritten(project, m, u)
         IN  /\ name = {} => r.to = "itself"
             /\ \A x : name = {x} /\ ~(u.kind = "call" /\ u.at = "top") =>
                  r.to = (IF u.kind = "call" THEN "dispatcher" ELSE "name") /\ r.name = x
<1> DEFINE name == ActivityName(project, m, u.of)
           r == Rewritten(project, m, u)
           to == IF u.kind = "call" THEN "dispatcher" ELSE "name"
<1>1. name = {} => r.to = "itself"
  BY DEF Rewritten
<1>2. ASSUME NEW x, name = {x}, ~(u.kind = "call" /\ u.at = "top")
      PROVE  r.to = to /\ r.name = x
  <2>1. r = [to |-> to, name |-> CHOOSE y \in name : TRUE]
    BY <1>2 DEF Rewritten
  <2>2. (CHOOSE y \in name : TRUE) = x
    <3> HIDE DEF name
    <3> QED BY <1>2
  <2> HIDE DEF r, to, name
  <2> QED BY <2>1, <2>2
<1> QED BY <1>1, <1>2

LEMMA ActivityIsReached ==
  ASSUME NEW project, IsTree(project), BuildWorker(project).ok,
         NEW w \in LoadWorkflows(project).workflows, NEW m \in RunsIn(project, w),
         NEW u \in project.files[m].uses, ~u.shadowed,
         NEW i \in project.files[m].imports, NEW n \in Range(i.names), n.local = u.of,
         i \in Targets(project, m), Documented(project, w, m, i)
  PROVE  LET got == BuildWorker(project).reached[w][m][u]
             meant == Exports(project, TargetOf(m, i), n.imported)
         IN  IF u.kind = "call" THEN got.by = "dispatcher" /\ got.components = meant
             ELSE got.by = "name" /\ \E c \in meant : got.name = c.export.name
<1> DEFINE loaded == LoadWorkflows(project)
           registered == LoadActivities(project, loaded)
           starts == Entrypoint(project, loaded.workflows)
           t == TargetOf(m, i)
           meant == Exports(project, t, n.imported)
           got == BuildWorker(project).reached[w][m][u]
           at == registered.activities[w.export.name]
           r == Rewritten(project, m, u)
<1>1. /\ loaded.ok /\ registered.ok
      /\ got = Reached(project, starts, registered.activities, w, m, u)
  <2>1. /\ loaded.ok /\ registered.ok
        /\ \A v \in loaded.workflows : \A x \in RunsIn(project, v) : \A y \in project.files[x].uses :
             BuildWorker(project).reached[v][x][y]
               = Reached(project, starts, registered.activities, v, x, y)
    <3>1. /\ loaded.ok /\ registered.ok
          /\ DOMAIN BuildWorker(project).reached = loaded.workflows
          /\ \A v \in loaded.workflows :
               /\ DOMAIN BuildWorker(project).reached[v] = RunsIn(project, v)
               /\ \A x \in RunsIn(project, v) :
                    /\ DOMAIN BuildWorker(project).reached[v][x] = project.files[x].uses
                    /\ \A y \in project.files[x].uses :
                         BuildWorker(project).reached[v][x][y]
                           = Reached(project, starts, registered.activities, v, x, y)
      BY BuiltIs
    <3> HIDE DEF loaded, registered, starts
    <3> QED BY <3>1
  <2> HIDE DEF starts, registered
  <2> QED BY <2>1
<1>2. m \in DOMAIN project.files /\ ~Invalid(project, m) /\ ~CannotBeRewritten(project, m)
  BY ModulesAreThere DEF Targets
<1>3. PICK c \in meant : TRUE
  BY DEF Documented
<1>4. c \in ImportComponents(project, {t}) /\ c.export.id = n.imported
  BY DEF Exports
<1>5. ~Unresolved(project, m)
  BY <1>2 DEF CannotBeRewritten
<1>6. t \in DOMAIN project.files /\ NameOf(project.files[t], n.imported) # {}
  BY <1>5 DEF Unresolved
<1>7. meant = {c}
  <2>1. \A d \in meant : d = c
    BY <1>4, <1>6, TheExport DEF Exports
  <2> QED BY <2>1
<1>8. NameOf(project.files[t], n.imported) = {c.export.name}
  <2> DEFINE written == {x \in Written(project.files[t]) : x.id = n.imported}
  <2>1. c.export \in project.files[t].exports
    <3>1. c.path = t
      BY <1>4, ComponentIs
    <3> QED BY <1>4, <3>1, ComponentIs
  <2>2. \A e, other \in project.files[t].exports : e.id = other.id => e = other
    BY <1>6 DEF IsTree
  <2>3. \A e \in written : e = c.export
    BY <1>4, <2>1, <2>2 DEF Written
  <2>4. NameOf(project.files[t], n.imported) = {e.name : e \in written}
    BY DEF NameOf
  <2> HIDE DEF written
  <2> QED BY <1>6, <2>3, <2>4
<1>9. ActivityName(project, m, u.of) = {c.export.name}
  BY <1>2, <1>8, NameIs
<1>10. ~(u.kind = "call" /\ u.at = "top")
  BY <1>2, NotAtTheTop
<1>11. r.to = (IF u.kind = "call" THEN "dispatcher" ELSE "name") /\ r.name = c.export.name
  BY <1>9, <1>10, RewrittenIs
<1>12. c.export.name \in DOMAIN at /\ at[c.export.name] = c
  <2>1. c \in OwnActivities(project, w) \cup SharedActivities(project, loaded)
    BY <1>1, <1>4, DocumentedIsRegistered
  <2> QED BY <1>1, <2>1, ActivitiesAre
<1>13. /\ r.to = "dispatcher" =>
            /\ got.by = "dispatcher"
            /\ r.name \in DOMAIN at => got.components = {at[r.name]}
       /\ r.to = "name" => got.by = "name" /\ got.name = r.name
  <2> DEFINE had == Reached(project, starts, registered.activities, w, m, u)
  <2>1. /\ r.to = "dispatcher" =>
             /\ had.by = "dispatcher"
             /\ r.name \in DOMAIN at => had.components = {at[r.name]}
        /\ r.to = "name" => had.by = "name" /\ had.name = r.name
    <3>1. ReachedSo(project, starts, registered.activities, w, m, u)
      BY ReachedBy
    <3> HIDE DEF starts, registered
    <3> QED BY <3>1 DEF ReachedSo
  <2> HIDE DEF had, got, at, r
  <2> QED BY <1>1, <2>1 DEF had
<1> HIDE DEF got, at, r, meant
<1>14. IF u.kind = "call" THEN got.by = "dispatcher" /\ got.components = meant
       ELSE got.by = "name" /\ \E d \in meant : got.name = d.export.name
  BY <1>7, <1>11, <1>12, <1>13
<1> QED BY <1>14 DEF got, meant

(* And a call of a workflow that is loaded becomes its child. *)
LEMMA ChildIsReached ==
  ASSUME NEW project, IsTree(project), BuildWorker(project).ok,
         NEW w \in LoadWorkflows(project).workflows, NEW m \in RunsIn(project, w),
         NEW u \in project.files[m].uses, ~u.shadowed, u.kind = "call",
         NEW i \in project.files[m].imports, NEW n \in Range(i.names), n.local = u.of,
         i \notin Targets(project, m), ImportsWorkflows(project, m, i)
  PROVE  LET got == BuildWorker(project).reached[w][m][u]
         IN  /\ got.by = "child"
             /\ got.components = Exports(project, TargetOf(m, i), n.imported)
<1> DEFINE loaded == LoadWorkflows(project)
           registered == LoadActivities(project, loaded)
           starts == Entrypoint(project, loaded.workflows)
           t == TargetOf(m, i)
           meant == Exports(project, t, n.imported)
           got == BuildWorker(project).reached[w][m][u]
           bound == BoundComponent(project, m, u.of)
           child == {c \in bound : c.export.factory = "workflow"}
           named == (CHOOSE c \in child : TRUE).export.name
<1>1. loaded.ok /\ got = Reached(project, starts, registered.activities, w, m, u)
  <2>1. /\ loaded.ok
        /\ \A v \in loaded.workflows : \A x \in RunsIn(project, v) : \A y \in project.files[x].uses :
             BuildWorker(project).reached[v][x][y]
               = Reached(project, starts, registered.activities, v, x, y)
    <3>1. /\ loaded.ok /\ registered.ok
          /\ DOMAIN BuildWorker(project).reached = loaded.workflows
          /\ \A v \in loaded.workflows :
               /\ DOMAIN BuildWorker(project).reached[v] = RunsIn(project, v)
               /\ \A x \in RunsIn(project, v) :
                    /\ DOMAIN BuildWorker(project).reached[v][x] = project.files[x].uses
                    /\ \A y \in project.files[x].uses :
                         BuildWorker(project).reached[v][x][y]
                           = Reached(project, starts, registered.activities, v, x, y)
      BY BuiltIs
    <3> HIDE DEF loaded, registered, starts
    <3> QED BY <3>1
  <2> HIDE DEF starts, registered
  <2> QED BY <2>1
<1>2. m \in DOMAIN project.files
  BY ModulesAreThere
<1>3. PICK c \in meant : c.export.factory = "workflow"
  BY DEF ImportsWorkflows
<1>4. t \in WorkflowFiles(project) /\ ~IsBare(i.source)
  BY DEF ImportsWorkflows, WorkflowFiles
<1>5. t \in DOMAIN project.files /\ IsWorkflowFile(t)
  BY <1>4, FilesAreThere
<1>6. c \in ImportComponents(project, {t}) /\ c.export.id = n.imported
  BY DEF Exports
<1>7. n.imported = "default"
  <2>1. c.path = t
    BY <1>6, ComponentIs
  <2>2. c.export \in project.files[t].exports /\ c.export.factory # "none"
    BY <1>6, <2>1, ComponentIs
  <2>3. \A e \in project.files[t].exports : IsWorkflowFile(t) /\ e.factory # "none" => e.id = "default"
    BY <1>5, Zenon DEF IsTree
  <2> QED BY <1>5, <1>6, <2>2, <2>3
<1>8. meant = {c}
  <2>1. \A d \in meant : d = c
    BY <1>5, <1>6, TheExport DEF Exports
  <2> QED BY <2>1
<1>9. bound = {c}
  <2>1. bound = Exported(project, t, n.imported)
    BY <1>2, <1>4, BoundIs
  <2>2. Exported(project, t, n.imported) = {c}
    BY <1>3, <1>5, <1>7, ExportedIs
  <2> QED BY <2>1, <2>2
<1>10. child = {c} /\ named = c.export.name
  <2>1. child = {c}
    <3> HIDE DEF bound
    <3> QED BY <1>3, <1>9
  <2> HIDE DEF child
  <2>2. (CHOOSE x \in child : TRUE) = c
    BY <2>1
  <2> QED BY <2>1, <2>2
<1>11. Rewritten(project, m, u).to = "itself"
  <2>1. ActivityName(project, m, u.of) = {}
    BY <1>2, NameIs
  <2> QED BY <2>1, RewrittenIs
<1>12. c.export.name \in DOMAIN starts /\ starts[c.export.name] = {c}
  <2>1. c \in loaded.workflows
    <3>1. c \in ImportComponents(project, WorkflowFiles(project))
      BY <1>4, <1>6, ComponentOf
    <3> QED BY <1>1, <3>1, LoadedAre
  <2>2. c.export.name \in Claims(c)
    BY DEF Claims
  <2> QED BY <1>1, <2>1, <2>2, Starts
<1>13. child # {} =>
         /\ got.by = "child"
         /\ named \in DOMAIN starts => got.components = starts[named]
  <2> DEFINE had == Reached(project, starts, registered.activities, w, m, u)
             r == Rewritten(project, m, u)
  <2>1. r.to = "itself" /\ ~u.shadowed /\ u.kind = "call" /\ child # {} =>
          /\ had.by = "child"
          /\ named \in DOMAIN starts => had.components = starts[named]
    <3>1. ReachedSo(project, starts, registered.activities, w, m, u)
      BY ReachedBy
    <3> HIDE DEF starts, registered
    <3> QED BY <3>1 DEF ReachedSo
  <2> HIDE DEF had, got, starts, registered, child, named, r
  <2> QED BY <1>1, <1>11, <2>1 DEF had, r
<1> HIDE DEF got, starts, child, named, meant
<1>14. got.by = "child" /\ got.components = meant
  BY <1>8, <1>10, <1>12, <1>13
<1> QED BY <1>14 DEF got, meant

LEMMA CallsReachTheirImports ==
  ASSUME NEW project, IsTree(project), BuildWorker(project).ok
  PROVE  ReachesWhatWasImported(project, BuildWorker(project))
<1> DEFINE built == BuildWorker(project)
           loaded == LoadWorkflows(project)
           registered == LoadActivities(project, loaded)
           starts == Entrypoint(project, loaded.workflows)
<1>1. /\ loaded.ok /\ built.starts = starts /\ built.names = WorkflowNames(loaded.workflows)
      /\ DOMAIN built.reached = loaded.workflows
      /\ \A w \in loaded.workflows :
           /\ DOMAIN built.reached[w] = RunsIn(project, w)
           /\ \A m \in RunsIn(project, w) :
                /\ DOMAIN built.reached[w][m] = project.files[m].uses
                /\ \A u \in project.files[m].uses :
                     built.reached[w][m][u]
                       = Reached(project, starts, registered.activities, w, m, u)
  BY BuiltIs
<1>2. ASSUME NEW w \in loaded.workflows, NEW n \in Claims(w)
      PROVE  built.starts[n] = {w} /\ built.names[n] = w.export.name
  <2>1. starts[n] = {w} /\ WorkflowNames(loaded.workflows)[n] = w.export.name
    <3>1. LET workflows == LoadWorkflows(project).workflows
          IN  /\ n \in DOMAIN Entrypoint(project, workflows)
              /\ Entrypoint(project, workflows)[n] = {w}
              /\ WorkflowNames(workflows)[n] = w.export.name
      <4>1. LoadWorkflows(project).ok
        BY <1>1
      <4> QED BY <1>2, <4>1, Starts
    <3> QED BY <3>1
  <2> HIDE DEF built, loaded, starts
  <2> QED BY <1>1, <2>1
<1>3. ASSUME NEW w \in loaded.workflows, NEW m \in RunsIn(project, w), NEW u \in project.files[m].uses,
             u.shadowed
      PROVE  built.reached[w][m][u].by = "itself" /\ built.reached[w][m][u].components = {}
  <2>1. built.reached[w][m][u] = Reached(project, starts, registered.activities, w, m, u)
    BY <1>1
  <2>2. LET got == Reached(project, starts, registered.activities, w, m, u)
        IN  got.by = "itself" /\ got.components = {}
    BY <1>3, ReachedBy DEF ReachedSo
  <2> HIDE DEF built
  <2> QED BY <2>1, <2>2
<1> DEFINE Right(w, m, u, i, n) ==
             LET got == built.reached[w][m][u]
                 meant == Exports(project, TargetOf(m, i), n.imported)
                 target == i \in Targets(project, m)
             IN  /\ target /\ Documented(project, w, m, i) =>
                      IF u.kind = "call"
                      THEN got.by = "dispatcher" /\ got.components = meant
                      ELSE got.by = "name" /\ \E c \in meant : got.name = c.export.name
                 /\ ~target /\ ImportsWorkflows(project, m, i) /\ u.kind = "call" =>
                      got.by = "child" /\ got.components = meant
<1>4. ASSUME NEW w \in loaded.workflows, NEW m \in RunsIn(project, w), NEW u \in project.files[m].uses,
             NEW i \in project.files[m].imports, NEW n \in Range(i.names),
             n.local = u.of, ~u.shadowed
      PROVE  Right(w, m, u, i, n)
  <2>1. i \in Targets(project, m) /\ Documented(project, w, m, i) =>
          LET got == built.reached[w][m][u]
              meant == Exports(project, TargetOf(m, i), n.imported)
          IN  IF u.kind = "call" THEN got.by = "dispatcher" /\ got.components = meant
              ELSE got.by = "name" /\ \E c \in meant : got.name = c.export.name
    BY <1>4, ActivityIsReached
  <2>2. i \notin Targets(project, m) /\ ImportsWorkflows(project, m, i) /\ u.kind = "call" =>
          LET got == built.reached[w][m][u]
          IN  got.by = "child" /\ got.components = Exports(project, TargetOf(m, i), n.imported)
    BY <1>4, ChildIsReached
  <2> HIDE DEF built
  <2> QED BY <2>1, <2>2
<1>5. ReachesWhatWasImported(project, built) <=>
        \A w \in DOMAIN built.reached :
          /\ \A n \in Claims(w) : built.starts[n] = {w} /\ built.names[n] = w.export.name
          /\ \A m \in DOMAIN built.reached[w] : \A u \in DOMAIN built.reached[w][m] :
               /\ u.shadowed => built.reached[w][m][u].by = "itself"
                                /\ built.reached[w][m][u].components = {}
               /\ \A i \in project.files[m].imports : \A n \in Range(i.names) :
                    n.local = u.of /\ ~u.shadowed => Right(w, m, u, i, n)
  <2> HIDE DEF built
  <2> QED BY DEF ReachesWhatWasImported, Claims
<1> HIDE DEF built, loaded, Right
<1>6. ReachesWhatWasImported(project, built)
  BY <1>1, <1>2, <1>3, <1>4, <1>5
<1> QED BY <1>6 DEF built

(* A worker that is built calls what its workflows import, whatever names are given: each
   name or alias starts the workflow that declares it, a use of an activity that the
   guides let it import goes to that export under its declared name, a call of a workflow
   that is loaded starts it as a child, and a shadowed name is left alone. *)
THEOREM WorkersCallWhatTheyImport ==
  Spec => [](Told("build") /\ told[1].ok => ReachesWhatWasImported(given.input.project, told[1]))
<1>1. AnswersAsComputed =>
        (Told("build") /\ told[1].ok => ReachesWhatWasImported(given.input.project, told[1]))
  <2> SUFFICES ASSUME AnswersAsComputed, Told("build"), told[1].ok
               PROVE  ReachesWhatWasImported(given.input.project, told[1])
    OBVIOUS
  <2>1. given.input \in Builds /\ told[1] = BuildWorker(given.input.project)
    BY DEF AnswersAsComputed, Told
  <2>2. IsTree(given.input.project)
    BY <2>1, BuildsAssumption
  <2> QED BY <2>1, <2>2, CallsReachTheirImports
<1>2. []AnswersAsComputed =>
        [](Told("build") /\ told[1].ok => ReachesWhatWasImported(given.input.project, told[1]))
  BY <1>1, PTL
<1> QED BY <1>2, AlwaysComputed
=============================================================================
