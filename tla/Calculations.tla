---------------------------- MODULE Calculations ----------------------------
(***************************************************************************)
(* The pure algorithms of the system, each run on every input of a small   *)
(* set: `given` is the input, `told` holds the answer once it is there.    *)
(***************************************************************************)
EXTENDS CostReport, HistorySpans, EvalOutcome, CliCommands, ComponentCalls, CredentialFiles

CONSTANTS Calls,     \* calls of a language model, see LlmPricing
          Reports,   \* traces and costs.yml, see CostReport
          Histories, \* histories of runs and the width of a terminal, see HistorySpans
          Projects,  \* dataset files, evals and what the workflow answers, see EvalOutcome
          Failures,  \* of routes and of workflows, see ApiErrors
          Builds,    \* projects a worker is built of, see ComponentCalls
          Resets,    \* histories and the step to reset to, see ApiErrors
          Requests,  \* operations of the client and ids, see ClientRequests
          Runs,      \* commands of the CLI and what befalls them, see CliCommands
          Secrets    \* machines and commands on their credentials, see CredentialFiles

(* What the inputs of some algorithms may rely on, and nothing else is assumed of them. *)
ASSUME CallsAssumption == \A c \in Calls : IsCall(c)
ASSUME ReportsAssumption == \A r \in Reports : IsReport(r)
ASSUME HistoriesAssumption == \A h \in Histories : IsTimeline(h)
ASSUME ProjectsAssumption == \A p \in Projects : IsProject(p)
ASSUME FailuresAssumption == \A f \in Failures : IsFailure(f)
ASSUME BuildsAssumption == \A b \in Builds : IsTree(b.project)
ASSUME ResetsAssumption == \A r \in Resets : IsHistory(r.events)
ASSUME RequestsAssumption == \A r \in Requests : IsRequest(r)
ASSUME RunsAssumption == \A r \in Runs : CanBefall(r)
ASSUME SecretsAssumption == \A s \in Secrets : IsSecret(s)

VARIABLES given, told

vars == <<given, told>>

Asks(algorithm, inputs) ==
    \E i \in inputs : given = [algorithm |-> algorithm, input |-> i]

Init ==
    /\ told = <<>>
    /\ \/ Asks("bill", Calls)
       \/ Asks("report", Reports)
       \/ Asks("draw", Histories)
       \/ Asks("test", Projects)
       \/ Asks("fail", Failures)
       \/ Asks("build", Builds)
       \/ Asks("reset", Resets)
       \/ Asks("request", Requests)
       \/ Asks("command", Runs)
       \/ Asks("credentials", Secrets)

Bill ==
    /\ given.algorithm = "bill" /\ told = <<>>
    /\ told' = <<CalculateCosts(given.input)>>
    /\ UNCHANGED given

Report ==
    /\ given.algorithm = "report" /\ told = <<>>
    /\ told' = <<CalculateCost(given.input.trace, given.input.config)>>
    /\ UNCHANGED given

Draw ==
    /\ given.algorithm = "draw" /\ told = <<>>
    /\ LET h == given.input
       IN  told' = <<RenderWaterfall(h.events, h.closeTime, h.width)>>
    /\ UNCHANGED given

Test ==
    /\ given.algorithm = "test" /\ told = <<>>
    /\ told' = <<WorkflowTest(given.input)>>
    /\ UNCHANGED given

Fail ==
    /\ given.algorithm = "fail" /\ told = <<>>
    /\ LET f == given.input
       IN  told' = <<IF f.of = "route" THEN ErrorHandler(f.error, f.headersSent)
                     ELSE ResultOfFailure(f.error, f.payloadVersion)>>
    /\ UNCHANGED given

Bundle ==
    /\ given.algorithm = "build" /\ told = <<>>
    /\ told' = <<BuildWorker(given.input.project)>>
    /\ UNCHANGED given

Reset ==
    /\ given.algorithm = "reset" /\ told = <<>>
    /\ told' = <<ResolveResetEventId(given.input.events, given.input.step)>>
    /\ UNCHANGED given

Request ==
    /\ given.algorithm = "request" /\ told = <<>>
    /\ LET o == given.input.operation
       IN  told' = <<Dispatch(o.method, UrlOf(o, given.input.arguments))>>
    /\ UNCHANGED given

Run ==
    /\ given.algorithm = "command" /\ told = <<>>
    /\ told' = <<Perform(given.input)>>
    /\ UNCHANGED given

Credit ==
    /\ given.algorithm = "credentials" /\ told = <<>>
    /\ told' = <<Handle(given.input)>>
    /\ UNCHANGED given

Next == Bill \/ Report \/ Draw \/ Test \/ Fail \/ Bundle \/ Reset \/ Request \/ Run \/ Credit

Spec == Init /\ [][Next]_vars

-----------------------------------------------------------------------------
Told(algorithm) == given.algorithm = algorithm /\ told # <<>>

(* The cost of a call says the truth about itself: see StatusTellsTheBill in LlmPricing
   (llm/utils/cost.js, usage.js, metering.js). *)
BillsByTheRequest == Told("bill") => StatusTellsTheBill(given.input, told[1])

(* The cost report counts each charge once: see EachChargeOnce in CostReport
   (cli/src/services/cost_calculator.ts). *)
ReportsEachChargeOnce ==
    Told("report") => EachChargeOnce(given.input.trace, given.input.config, told[1])

(* The waterfall of a run is true to its history: see DrawsWhatHappened in HistorySpans
   (cli/src/services/workflow_history/correlator.ts, utils/waterfall.ts). *)
WaterfallDrawsWhatHappened == Told("draw") => DrawsWhatHappened(given.input, told[1])

(* A test run speaks of its cases: see VerdictsBelongToTheirCases in EvalOutcome
   (core/src/evals/, cli/src/commands/workflow/test.ts). *)
TestsTellOfTheirCases == Told("test") => VerdictsBelongToTheirCases(given.input, told[1])

(* The API tells of a failure what it was: see AnswersTellTheFailure in ApiErrors
   (api/src/middleware/error_handler.js, utils.js). *)
FailuresAreTold == Told("fail") => AnswersTellTheFailure(given.input, told[1])

(* A worker calls what its workflows import: see EveryCallReachesItsImport in
   ComponentCalls (core/src/worker/loader/, webpack_loaders/, core/src/interface/). *)
CallsWhatItImports == Told("build") => EveryCallReachesItsImport(given.input, told[1])

(* A reset goes to just after the step: see ResetKeepsTheStepOnly in ApiErrors
   (api/src/clients/temporal/workflow/reset.js). *)
ResetsKeepTheStep == Told("reset") => ResetKeepsTheStepOnly(given.input, told[1])

(* The client of the CLI and the API agree: see ReachesItsRoute in ClientRequests
   (cli/src/api/generated/api.ts, api/src/index.js). *)
RequestsReachTheirRoute == Told("request") => ReachesItsRoute(given.input, told[1])

(* A command ends as it did: see EndsAsItDid in CliCommands
   (cli/src/commands/workflow/, api/http_client.ts, utils/error_handler.ts). *)
CommandsEndAsTheyDid == Told("command") => EndsAsItDid(given.input, told[1])

(* The commands on credentials lose none unasked, and the worker loads what they wrote:
   see KeepsTheSecrets in CredentialFiles (cli/src/commands/credentials/,
   core/src/credentials/). *)
SecretsAreKept == Told("credentials") => KeepsTheSecrets(given.input, told[1])
=============================================================================
