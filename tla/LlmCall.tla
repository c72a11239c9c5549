------------------------------ MODULE LlmCall ------------------------------
(***************************************************************************)
(* One LLM call: sdk/core/src/llm/utils/wrap.js around the AI SDK, the     *)
(* metering of the call (utils/metering.js) and the drain of a stream that *)
(* is read to its end (utils/stream.js).  The call has one of three modes: *)
(*   "direct"    a stream handed to the consumer (streamText, Agent.stream)*)
(*   "completed" a stream read to its end by the call itself               *)
(*               (generateTextWithStreaming, Agent.generateWithStreaming)  *)
(*   "plain"     no stream (generateText, Agent.generate)                  *)
(* The AI SDK is external: it finishes steps, may report one error, and    *)
(* ends, ends without output, or aborts.  It waits for the hooks of an     *)
(* abort and for no other, so they overlap.  A step is one continuation    *)
(* between two awaits; the await of a bill is the fetch of the prices.     *)
(***************************************************************************)
EXTENDS Naturals, Sequences

CONSTANT MaxSteps        \* bound: steps of a run of the model

ASSUME MaxStepsAssumption == MaxSteps \in Nat

VARIABLES
    mode,       \* which wrapper runs the call
    signal,     \* abortSignal of the caller: "none", "idle", "aborted"
    listening,  \* handleAbort listens on it
    sdk,        \* the stream inside the SDK
    meter,      \* the Metering of the call
    hook,       \* where each continuation that bills is
    bills,      \* the metering events emitted, each with the steps it covers
    trace,      \* closing entries of the call's trace event
    drain       \* drainStream and what follows it in fn

vars == <<mode, signal, listening, sdk, meter, hook, bills, trace, drain>>

Modes == {"direct", "completed", "plain"}

(* Who can call bill(): the three hooks of a direct stream, and the wrapper
   of a call that completes. *)
Billers == {"end", "error", "abort", "call"}

Steps == 1 .. MaxSteps

Sdks == [state : {"setup", "refused", "open", "ended", "empty", "thrown",
                  "aborting", "aborted"},
         steps : 0 .. MaxSteps, failed : BOOLEAN, before : 0 .. MaxSteps,
         last : BOOLEAN, timedOut : BOOLEAN, output : {"pending", "rejected"}]

Meters == [recorded : SUBSET Steps, billed : BOOLEAN, charge : SUBSET Steps,
           lost : BOOLEAN]

Drains == [deadline : BOOLEAN, gaveUp : BOOLEAN, thrown : BOOLEAN,
           captured : {"none", "part", "abort"}]

TypeOK ==
    /\ mode \in Modes
    /\ signal \in {"none", "idle", "aborted"}
    /\ listening \in BOOLEAN
    /\ sdk \in Sdks
    /\ meter \in Meters
    /\ hook \in [Billers -> {"idle", "billing", "waiting", "done"}]
    /\ bills \in Seq(SUBSET Steps)
    /\ trace \in Seq({"END", "ERROR"})
    /\ drain \in Drains

(* The code up to the creation of the stream: the listener, or the entry of a
   signal that is aborted already. *)
Init ==
    /\ mode \in Modes
    /\ signal \in {"none", "idle", "aborted"}
    /\ listening = (mode = "direct" /\ signal = "idle")
    /\ trace = IF mode = "direct" /\ signal = "aborted" THEN <<"ERROR">> ELSE <<>>
    /\ sdk = [state |-> "setup", steps |-> 0, failed |-> FALSE, before |-> 0,
              last |-> FALSE, timedOut |-> FALSE, output |-> "pending"]
    /\ meter = [recorded |-> {}, billed |-> FALSE, charge |-> {}, lost |-> FALSE]
    /\ hook = [b \in Billers |-> "idle"]
    /\ bills = <<>>
    /\ drain = [deadline |-> FALSE, gaveUp |-> FALSE, thrown |-> FALSE,
                captured |-> "none"]

-----------------------------------------------------------------------------
(* Metering *)

(* recordStep: ignored once the call is billed. *)
RecordStep(step) ==
    meter' = IF meter.billed THEN meter
             ELSE [meter EXCEPT !.recorded = @ \cup {step}]

(* Slip: an empty collector is a final answer. *)
BillClosesEmpty(b, response) ==
    LET covered == IF response = {} THEN meter.recorded ELSE response IN
    IF meter.billed
    THEN hook' = [hook EXCEPT ![b] = "waiting"] /\ UNCHANGED meter
    ELSE /\ hook' = [hook EXCEPT ![b] = IF covered = {} THEN "waiting" ELSE "billing"]
         /\ meter' = [meter EXCEPT !.billed = TRUE, !.charge = covered]

(* bill() up to its await.  The steps of the response take precedence; with
   nothing to report billing stays open. *)
Bill(b, response) ==
    LET covered == IF response = {} THEN meter.recorded ELSE response IN
    \/ /\ meter.billed \/ covered = {}
       /\ hook' = [hook EXCEPT ![b] = "waiting"]
       /\ UNCHANGED meter
    \/ /\ ~meter.billed /\ covered # {}
       /\ hook' = [hook EXCEPT ![b] = "billing"]
       /\ meter' = [meter EXCEPT !.billed = TRUE, !.charge = covered]

(* bill() after its await: the events, or a failure that is only logged. *)
BillLands(b) ==
    \/ hook[b] = "waiting" /\ UNCHANGED <<meter, bills>>
    \/ /\ hook[b] = "billing"
       /\ \/ bills' = Append(bills, meter.charge) /\ UNCHANGED meter
          \/ meter' = [meter EXCEPT !.lost = TRUE] /\ UNCHANGED bills

-----------------------------------------------------------------------------
(* The hooks of a direct stream *)

(* Every hook first removes the listener, then bills. *)
CallHook(b, response) ==
    /\ hook[b] = "idle"
    /\ listening' = FALSE
    /\ Bill(b, response)

(* onErrorHook after the bill. *)
ErrorHookResumes ==
    /\ BillLands("error")
    /\ hook' = [hook EXCEPT !["error"] = "done"]
    /\ trace' = Append(trace, "ERROR")
    /\ UNCHANGED <<mode, signal, listening, sdk, drain>>

(* onEndHook after the bill; reading the response may fail. *)
EndHookResumes ==
    /\ BillLands("end")
    /\ hook' = [hook EXCEPT !["end"] = "done"]
    /\ \E entry \in {"END", "ERROR"} : trace' = Append(trace, entry)
    /\ UNCHANGED <<mode, signal, listening, sdk, drain>>

(* onAbortHook after the bill: a signal that is not aborted means the SDK's
   own timeout.  The SDK then delivers the abort part. *)
AbortHookResumes ==
    /\ BillLands("abort")
    /\ hook' = [hook EXCEPT !["abort"] = "done"]
    /\ trace' = IF signal = "aborted" THEN trace ELSE Append(trace, "ERROR")
    /\ sdk' = [sdk EXCEPT !.state = "aborted"]
    /\ UNCHANGED <<mode, signal, listening, drain>>

(* The caller aborts; handleAbort listens once. *)
CallerAborts ==
    /\ signal = "idle"
    /\ signal' = "aborted"
    /\ listening' = FALSE
    /\ trace' = IF listening THEN Append(trace, "ERROR") ELSE trace
    /\ UNCHANGED <<mode, sdk, meter, hook, bills, drain>>

-----------------------------------------------------------------------------
(* drainStream and the wrapper of a call that completes *)

Draining == mode = "completed" /\ sdk.state \in {"open", "ended", "empty", "aborted"}
            /\ hook["call"] = "idle"

(* Slip: only the signal sets a deadline. *)
ReadPartPatiently(kind) ==
    drain' = [drain EXCEPT !.captured = IF @ = "none" /\ kind # "other" THEN "part" ELSE @,
                           !.deadline = (signal = "aborted")]

(* A part is read: the first error is kept, and the next read has a deadline
   once there is one or the signal is aborted. *)
ReadPart(kind) ==
    LET first == IF kind # "other" THEN "part"
                 ELSE IF signal = "aborted" THEN "abort" ELSE "none"
        error == IF drain.captured = "none" THEN first ELSE drain.captured IN
    drain' = [drain EXCEPT !.captured = error,
                           !.deadline = error # "none" \/ signal = "aborted"]

(* fn has returned or thrown: the wrapper bills what came of it. *)
CallSettles(thrown, response) ==
    /\ hook["call"] = "idle"
    /\ drain' = [drain EXCEPT !.thrown = thrown]
    /\ Bill("call", IF thrown THEN {} ELSE response)

(* The stream is done: the captured error, a missing response or an output
   that cannot be read is thrown. *)
DrainEnds ==
    /\ Draining /\ sdk.state # "open"
    /\ \E unreadable \in BOOLEAN :
          CallSettles(drain.captured # "none" \/ sdk.state # "ended" \/ unreadable,
                      1 .. sdk.steps)
    /\ UNCHANGED <<mode, signal, listening, sdk, bills, trace>>

(* The read has a deadline and the stream is quiet for longer. *)
DrainGivesUp ==
    /\ Draining /\ sdk.state = "open" /\ drain.deadline
    /\ drain' = [drain EXCEPT !.gaveUp = TRUE, !.thrown = TRUE,
                   !.captured = IF @ = "none" THEN "abort" ELSE @]
    /\ Bill("call", {})
    /\ UNCHANGED <<mode, signal, listening, sdk, bills, trace>>

(* wrapTextGeneration after the bill. *)
CallResumes ==
    /\ BillLands("call")
    /\ hook' = [hook EXCEPT !["call"] = "done"]
    /\ \/ trace' = Append(trace, "ERROR")
       \/ ~drain.thrown /\ trace' = Append(trace, "END")
    /\ UNCHANGED <<mode, signal, listening, sdk, drain>>

Resumes == ErrorHookResumes \/ EndHookResumes \/ AbortHookResumes \/ CallResumes

-----------------------------------------------------------------------------
(* The AI SDK *)

(* fn throws or rejects before there is a stream. *)
StreamRefused ==
    /\ sdk.state = "setup"
    /\ sdk' = [sdk EXCEPT !.state = "refused"]
    /\ \/ /\ mode = "direct"
          /\ listening' = FALSE
          /\ trace' = Append(trace, "ERROR")
          /\ UNCHANGED <<meter, hook, drain>>
       \/ /\ mode # "direct"
          /\ CallSettles(TRUE, {})
          /\ UNCHANGED <<listening, trace>>
    /\ UNCHANGED <<mode, signal, bills>>

(* The stream exists; drainStream starts its first read. *)
StreamOpens ==
    /\ sdk.state = "setup"
    /\ sdk' = [sdk EXCEPT !.state = "open"]
    /\ drain' = [drain EXCEPT !.deadline = (signal = "aborted")]
    /\ UNCHANGED <<mode, signal, listening, meter, hook, bills, trace>>

(* A part that is no failure is read while the stream is drained. *)
PartArrives ==
    /\ Draining /\ sdk.state = "open"
    /\ ReadPart("other")
    /\ UNCHANGED <<mode, signal, listening, sdk, meter, hook, bills, trace>>

(* A step finishes with its usage; one in which an error came is the last.
   A drain that gave up may leave a part on its way. *)
StepEnds ==
    /\ sdk.state = "open" /\ ~sdk.last /\ sdk.steps < MaxSteps
    /\ sdk' = [sdk EXCEPT !.steps = @ + 1, !.last = sdk.failed]
    /\ RecordStep(sdk.steps + 1)
    /\ IF Draining THEN ReadPart("other") ELSE UNCHANGED drain
    /\ UNCHANGED <<mode, signal, listening, hook, bills, trace>>

(* The error is reported before the step it came in. *)
Fails ==
    /\ sdk.state = "open" /\ ~sdk.failed
    /\ \/ /\ mode = "direct"
          /\ CallHook("error", {})
          /\ sdk' = [sdk EXCEPT !.failed = TRUE, !.before = sdk.steps]
          /\ UNCHANGED drain
       \/ /\ Draining
          /\ ReadPart("error")
          /\ sdk' = [sdk EXCEPT !.failed = TRUE, !.before = sdk.steps]
          /\ UNCHANGED <<listening, meter, hook>>
       \/ /\ mode = "plain"
          /\ CallSettles(TRUE, {})
          /\ sdk' = [sdk EXCEPT !.failed = TRUE, !.before = sdk.steps, !.state = "thrown"]
          /\ UNCHANGED listening
    /\ UNCHANGED <<mode, signal, bills, trace>>

(* The stream ends and the response covers every step.  What fn does with the
   response before it returns, such as storing messages, may throw. *)
Ends ==
    /\ sdk.state = "open" /\ sdk.steps > 0
    /\ sdk' = [sdk EXCEPT !.state = "ended"]
    /\ \/ mode = "direct" /\ CallHook("end", 1 .. sdk.steps) /\ UNCHANGED drain
       \/ mode = "completed" /\ UNCHANGED <<listening, meter, hook, drain>>
       \/ /\ mode = "plain"
          /\ \E thrown \in BOOLEAN : CallSettles(thrown, 1 .. sdk.steps)
          /\ UNCHANGED listening
    /\ UNCHANGED <<mode, signal, bills, trace>>

(* Slip: a rejected output is not observed. *)
EndsEmptySilently ==
    /\ mode # "plain" /\ sdk.state = "open" /\ sdk.steps = 0
    /\ sdk' = [sdk EXCEPT !.state = "empty", !.output = "rejected"]
    /\ UNCHANGED <<mode, signal, listening, meter, hook, bills, trace, drain>>

(* It ends without a step: there is no onEnd, only the output rejects. *)
EndsEmpty ==
    /\ mode # "plain" /\ sdk.state = "open" /\ sdk.steps = 0
    /\ sdk' = [sdk EXCEPT !.state = "empty", !.output = "rejected"]
    /\ trace' = IF mode = "direct" THEN Append(trace, "ERROR") ELSE trace
    /\ UNCHANGED <<mode, signal, listening, meter, hook, bills, drain>>

(* It is aborted, by the caller's signal or by a timeout of its own.  A direct
   stream waits for onAbort before the consumer reads the abort part. *)
Aborts ==
    /\ sdk.state = "open"
    /\ \/ /\ mode = "direct"
          /\ CallHook("abort", {})
          /\ sdk' = [sdk EXCEPT !.state = "aborting", !.timedOut = (signal # "aborted")]
          /\ UNCHANGED drain
       \/ /\ Draining
          /\ ReadPart("abort")
          /\ sdk' = [sdk EXCEPT !.state = "aborted", !.timedOut = (signal # "aborted")]
          /\ UNCHANGED <<listening, meter, hook>>
       \/ /\ mode = "plain"
          /\ CallSettles(TRUE, {})
          /\ sdk' = [sdk EXCEPT !.state = "thrown", !.timedOut = (signal # "aborted")]
          /\ UNCHANGED listening
    /\ UNCHANGED <<mode, signal, bills, trace>>

(* The output of a finished stream cannot be parsed. *)
OutputRejects ==
    /\ mode = "direct" /\ sdk.state \in {"ended", "aborted"}
    /\ sdk.output = "pending"
    /\ sdk' = [sdk EXCEPT !.output = "rejected"]
    /\ trace' = Append(trace, "ERROR")
    /\ UNCHANGED <<mode, signal, listening, meter, hook, bills, drain>>

Sdk ==
    \/ StreamRefused \/ StreamOpens \/ PartArrives \/ StepEnds \/ Fails
    \/ Ends \/ EndsEmpty \/ Aborts \/ OutputRejects

Next == Sdk \/ Resumes \/ CallerAborts \/ DrainEnds \/ DrainGivesUp

(* Continuations and timers run; the provider may stay silent for ever.  What it
   sends is finite, so the timer that every part restarts is not restarted for
   ever. *)
Fairness == WF_vars(Resumes) /\ WF_vars(DrainEnds) /\ WF_vars(DrainGivesUp)

Spec == Init /\ [][Next]_vars /\ Fairness

-----------------------------------------------------------------------------
(* Nothing of the call is under way any more. *)
AtRest ==
    IF mode = "direct"
    THEN /\ sdk.state \in {"refused", "ended", "empty", "aborted"}
         /\ \A b \in Billers : hook[b] \in {"idle", "done"}
    ELSE hook["call"] = "done"

(* What is billed and when: an unbilled call has recorded every step; a billed one
   has one bill in flight, one emitted or one lost, and it covers every step
   unless an error of a direct stream or a drain that gave up cut it short. *)
InvMetering ==
    /\ ~meter.billed =>
          /\ meter.recorded = 1 .. sdk.steps
          /\ bills = <<>> /\ ~meter.lost
          /\ \A b \in Billers : hook[b] # "billing"
    /\ \A b, c \in Billers : hook[b] = "billing" /\ hook[c] = "billing" => b = c
    /\ (\E b \in Billers : hook[b] = "billing") => bills = <<>> /\ ~meter.lost
    /\ bills # <<>> => bills = <<meter.charge>>
    /\ meter.billed =>
          (\E b \in Billers : hook[b] = "billing") \/ bills # <<>> \/ meter.lost

CutShort == drain.gaveUp \/ (mode = "direct" /\ sdk.failed /\ sdk.before > 0)

InvCoverage ==
    /\ meter.billed => CutShort \/ (sdk.state # "open" /\ meter.charge = 1 .. sdk.steps)
    /\ sdk.state \in {"setup", "refused"} => sdk.steps = 0 /\ ~meter.billed
    /\ sdk.state = "empty" => sdk.steps = 0
    /\ hook["end"] # "idle" => meter.billed
    /\ sdk.state \in {"aborting", "aborted"} /\ mode = "direct"
          => meter.billed \/ sdk.steps = 0
    /\ hook["call"] # "idle" => meter.billed \/ sdk.steps = 0 \/ drain.gaveUp

(* Which continuations can have been called in which state. *)
InvHooks ==
    /\ mode = "direct" => hook["call"] = "idle" /\ ~drain.gaveUp
    /\ mode # "direct" => \A b \in Billers \ {"call"} : hook[b] = "idle"
    /\ mode # "direct" => sdk.state # "aborting"
    /\ sdk.state = "setup" => \A b \in Billers : hook[b] = "idle"
    /\ sdk.state = "refused" /\ mode = "direct" => \A b \in Billers : hook[b] = "idle"
    /\ hook["call"] # "idle" /\ sdk.state = "open" => drain.gaveUp
    /\ mode = "direct" => (hook["end"] # "idle" <=> sdk.state = "ended")
    /\ hook["abort"] # "idle" <=> mode = "direct" /\ sdk.state \in {"aborting", "aborted"}
    /\ sdk.state = "aborted" /\ mode = "direct" => hook["abort"] = "done"
    /\ hook["abort"] = "done" => sdk.state = "aborted"
    /\ hook["error"] # "idle" => sdk.failed
    /\ mode = "direct" => sdk.state # "thrown"

(* What closes the trace event, and who is left to. *)
InvTrace ==
    /\ listening => mode = "direct" /\ signal = "idle" /\ sdk.state # "refused"
                       /\ \A b \in Billers : hook[b] = "idle"
    /\ mode = "direct" /\ signal = "idle" /\ ~listening =>
          sdk.state = "refused" \/ \E b \in Billers : hook[b] # "idle"
    /\ mode = "direct" /\ trace = <<>> =>
          /\ sdk.state \notin {"refused", "empty"}
          /\ hook["error"] # "done" /\ hook["end"] # "done"
          /\ signal = "aborted" => \E b \in Billers : hook[b] # "idle"
          /\ sdk.state \in {"aborting", "aborted"} => sdk.timedOut \/ hook["error"] # "idle"
    /\ mode # "direct" => Len(trace) = IF hook["call"] = "done" THEN 1 ELSE 0

(* The inductive invariant of the proofs. *)
IInv == TypeOK /\ InvMetering /\ InvCoverage /\ InvHooks /\ InvTrace

(* However the hooks overlap, one call emits one metering event at most
   (metering.js: #billed). *)
OneBill == Len(bills) <= 1

(* A call that came to rest is billed for every step that finished.  Left out
   is what the code gives up: steps after an error of a direct stream that had
   billed (metering.js, bill), parts a drain no longer waited for, and a failed
   price lookup. *)
BilledInFull ==
    AtRest /\ sdk.steps > 0 /\ ~meter.lost /\ ~drain.gaveUp
           /\ (mode = "direct" /\ sdk.failed => sdk.before = 0)
      => bills = <<1 .. sdk.steps>>

(* A call that came to rest has closed its trace event; one that completes has
   closed it exactly once, with END or ERROR and never both (wrap.js,
   wrapTextGeneration).  Left out is a direct stream that timed
   out: a caller's abort during the price lookup of onAbort leaves its event
   open. *)
ClosesItsTrace ==
    AtRest => IF mode = "direct" THEN sdk.timedOut \/ trace # <<>>
                                 ELSE Len(trace) = 1

(* When the consumer reads the abort part of a direct stream, the steps finished
   before are billed, unless an error's bill is still in flight (wrap.js,
   onAbortHook). *)
AbortBilledFirst ==
    mode = "direct" /\ sdk.state = "aborted" /\ meter.recorded # {} /\ ~meter.lost
      => bills # <<>> \/ hook["error"] = "billing"

(* Once a direct stream has ended, failed, aborted or been refused, an abort of
   the caller's signal records nothing more (wrap.js, removeAbortListener). *)
LateAbortIsSilent ==
    [][mode = "direct" /\ signal' # signal
         /\ (sdk.state = "refused" \/ \E b \in Billers : hook[b] # "idle")
         => trace' = trace]_vars

(* After a failure was read a completed call ends, even if the provider falls
   silent for ever (stream.js, FAILURE_DRAIN_TIMEOUT_MS). *)
FailureEnds ==
    mode = "completed" /\ drain.captured # "none" ~> hook["call"] = "done"

=============================================================================
