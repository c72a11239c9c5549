--------------------------- MODULE LlmCallProofs ---------------------------
(***************************************************************************)
(* Proofs about LlmCall, for calls of any number of steps: one metering    *)
(* event at most, full billing, the closing of the trace event, billing    *)
(* before an abort is seen, and the silence of a late abort.               *)
(***************************************************************************)
EXTENDS LlmCall, TLAPS

HookStates == {"idle", "billing", "waiting", "done"}

-----------------------------------------------------------------------------
(* What a bill does *)

(* bill() up to its await, from a continuation that has not billed yet. *)
LEMMA BillFacts ==
  ASSUME TypeOK, NEW b \in Billers, NEW response \in SUBSET Steps,
         hook[b] = "idle", Bill(b, response)
  PROVE  /\ meter' \in Meters /\ hook' \in [Billers -> HookStates]
         /\ hook'[b] \in {"waiting", "billing"}
         /\ \A c \in Billers : c # b => hook'[c] = hook[c]
         /\ meter'.recorded = meter.recorded /\ meter'.lost = meter.lost
         /\ \/ /\ hook'[b] = "waiting" /\ meter' = meter
               /\ meter.billed \/ (response = {} /\ meter.recorded = {})
            \/ /\ hook'[b] = "billing" /\ ~meter.billed /\ meter'.billed
               /\ meter'.charge = IF response = {} THEN meter.recorded ELSE response
               /\ meter'.charge # {}
<1> DEFINE covered == IF response = {} THEN meter.recorded ELSE response
<1>1. CASE /\ meter.billed \/ covered = {}
           /\ hook' = [hook EXCEPT ![b] = "waiting"] /\ UNCHANGED meter
  BY <1>1 DEF TypeOK, Meters, HookStates
<1>2. CASE /\ ~meter.billed /\ covered # {}
           /\ hook' = [hook EXCEPT ![b] = "billing"]
           /\ meter' = [meter EXCEPT !.billed = TRUE, !.charge = covered]
  BY <1>2 DEF TypeOK, Meters, HookStates
<1> QED BY <1>1, <1>2 DEF Bill

(* A bill that begins keeps the metering's invariant. *)
LEMMA BillKeepsMetering ==
  ASSUME TypeOK, InvMetering, NEW b \in Billers, NEW response \in SUBSET Steps,
         hook[b] = "idle", Bill(b, response),
         bills' = bills, sdk'.steps = sdk.steps
  PROVE  InvMetering'
<1>1. CASE hook'[b] = "waiting" /\ meter' = meter
  <2>1. \A c \in Billers : hook'[c] = "billing" <=> hook[c] = "billing"
    BY <1>1, BillFacts
  <2> QED BY <1>1, <2>1 DEF InvMetering
<1>2. CASE hook'[b] = "billing" /\ ~meter.billed /\ meter'.billed
  <2>1. \A c \in Billers : hook'[c] = "billing" => c = b
    BY <1>2, BillFacts DEF InvMetering
  <2>2. bills' = <<>> /\ ~meter'.lost
    BY <1>2, BillFacts DEF InvMetering
  <2> QED BY <1>2, <2>1, <2>2 DEF InvMetering
<1> QED BY <1>1, <1>2, BillFacts

(* The rest of bill(), with the continuation that called it. *)
LEMMA LandsFacts ==
  ASSUME TypeOK, InvMetering, NEW b \in Billers, BillLands(b),
         hook' = [hook EXCEPT ![b] = "done"], sdk'.steps = sdk.steps
  PROVE  /\ meter' \in Meters /\ hook' \in [Billers -> HookStates]
         /\ bills' \in Seq(SUBSET Steps)
         /\ hook[b] \in {"waiting", "billing"} /\ hook'[b] = "done"
         /\ \A c \in Billers : c # b => hook'[c] = hook[c]
         /\ meter'.recorded = meter.recorded /\ meter'.billed = meter.billed
         /\ meter'.charge = meter.charge
         /\ InvMetering'
<1>1. /\ hook' \in [Billers -> HookStates] /\ hook'[b] = "done"
      /\ \A c \in Billers : c # b => hook'[c] = hook[c]
  BY DEF TypeOK, HookStates
<1>2. CASE hook[b] = "waiting" /\ UNCHANGED <<meter, bills>>
  <2>1. \A c \in Billers : hook'[c] = "billing" <=> hook[c] = "billing"
    BY <1>1, <1>2
  <2>2. InvMetering'
    BY <1>2, <2>1 DEF InvMetering
  <2> QED BY <1>1, <1>2, <2>2 DEF TypeOK
<1>3. CASE hook[b] = "billing" /\ bills' = Append(bills, meter.charge) /\ UNCHANGED meter
  <2>1. bills = <<>> /\ ~meter.lost /\ meter.billed
    BY <1>3 DEF InvMetering
  <2>2. bills' = <<meter.charge>> /\ bills' \in Seq(SUBSET Steps)
    BY <1>3, <2>1 DEF TypeOK, Meters
  <2>3. \A c \in Billers : hook'[c] # "billing"
    BY <1>1, <1>3 DEF InvMetering
  <2>4. InvMetering'
    BY <1>3, <2>1, <2>2, <2>3 DEF InvMetering
  <2> QED BY <1>1, <1>3, <2>2, <2>4 DEF TypeOK
<1>4. CASE /\ hook[b] = "billing"
           /\ meter' = [meter EXCEPT !.lost = TRUE] /\ UNCHANGED bills
  <2>1. bills = <<>> /\ meter.billed
    BY <1>4 DEF InvMetering
  <2>2. /\ meter' \in Meters /\ meter'.lost /\ meter'.billed = meter.billed
        /\ meter'.recorded = meter.recorded /\ meter'.charge = meter.charge
    BY <1>4 DEF TypeOK, Meters
  <2>3. \A c \in Billers : hook'[c] # "billing"
    BY <1>1, <1>4 DEF InvMetering
  <2>4. InvMetering'
    BY <1>4, <2>1, <2>2, <2>3 DEF InvMetering
  <2> QED BY <1>1, <1>4, <2>2, <2>4 DEF TypeOK
<1> QED BY <1>2, <1>3, <1>4 DEF BillLands

-----------------------------------------------------------------------------
(* Types of the updates *)

(* A closing entry keeps the type of the trace. *)
LEMMA TraceAppend ==
  ASSUME TypeOK, NEW entry \in {"END", "ERROR"}
  PROVE  /\ Append(trace, entry) \in Seq({"END", "ERROR"})
         /\ Append(trace, entry) # <<>>
         /\ Len(Append(trace, entry)) = Len(trace) + 1
BY DEF TypeOK

SdkStates == {"setup", "refused", "open", "ended", "empty", "thrown",
              "aborting", "aborted"}

(* The forms in which the SDK's record changes keep its type. *)
LEMMA SdkState ==
  ASSUME sdk \in Sdks, NEW st \in SdkStates
  PROVE  [sdk EXCEPT !.state = st] \in Sdks
BY DEF Sdks, SdkStates

(* A step is added. *)
LEMMA SdkStep ==
  ASSUME sdk \in Sdks, NEW n \in 0 .. MaxSteps, NEW f \in BOOLEAN
  PROVE  [sdk EXCEPT !.steps = n, !.last = f] \in Sdks
BY DEF Sdks

(* A failure is noted. *)
LEMMA SdkFailure ==
  ASSUME sdk \in Sdks, NEW st \in SdkStates
  PROVE  /\ [sdk EXCEPT !.failed = TRUE, !.before = sdk.steps] \in Sdks
         /\ [sdk EXCEPT !.failed = TRUE, !.before = sdk.steps, !.state = st] \in Sdks
BY DEF Sdks, SdkStates

(* The stream is aborted, by a timeout or not. *)
LEMMA SdkAbort ==
  ASSUME sdk \in Sdks, NEW st \in SdkStates, NEW f \in BOOLEAN
  PROVE  [sdk EXCEPT !.state = st, !.timedOut = f] \in Sdks
BY DEF Sdks, SdkStates

(* The output is rejected. *)
LEMMA SdkOutput ==
  ASSUME sdk \in Sdks, NEW st \in SdkStates
  PROVE  /\ [sdk EXCEPT !.state = st, !.output = "rejected"] \in Sdks
         /\ [sdk EXCEPT !.output = "rejected"] \in Sdks
BY DEF Sdks, SdkStates

(* Reading a part neither gives up nor throws. *)
LEMMA ReadPartType ==
  ASSUME TypeOK, NEW kind, ReadPart(kind)
  PROVE  /\ drain' \in Drains /\ drain'.gaveUp = drain.gaveUp
         /\ drain'.thrown = drain.thrown
BY DEF TypeOK, Drains, ReadPart

-----------------------------------------------------------------------------
(* The invariant is kept: continuations *)

(* The rest of onErrorHook. *)
LEMMA ErrorHookResumesKeeps ==
  ASSUME IInv, ErrorHookResumes PROVE IInv'
<1> USE DEF IInv
<1>1. /\ UNCHANGED <<mode, signal, listening, sdk, drain>>
      /\ trace' = Append(trace, "ERROR")
  BY DEF ErrorHookResumes
<1>2. /\ meter' \in Meters /\ hook' \in [Billers -> HookStates]
      /\ bills' \in Seq(SUBSET Steps)
      /\ hook["error"] # "idle" /\ hook'["error"] = "done"
      /\ \A c \in Billers : c # "error" => hook'[c] = hook[c]
      /\ meter'.recorded = meter.recorded /\ meter'.billed = meter.billed
      /\ meter'.charge = meter.charge
      /\ InvMetering'
  BY <1>1, LandsFacts DEF ErrorHookResumes, Billers
<1>3. mode = "direct" /\ trace' # <<>> /\ trace' \in Seq({"END", "ERROR"})
  BY <1>1, <1>2, TraceAppend DEF InvHooks, Billers
<1>4. TypeOK'
  BY <1>1, <1>2, <1>3 DEF TypeOK, HookStates
<1>5. InvCoverage'
  BY <1>1, <1>2 DEF InvCoverage, CutShort, Billers
<1>6. InvHooks'
  BY <1>1, <1>2, <1>3 DEF InvHooks, Billers
<1>7. InvTrace'
  BY <1>1, <1>2, <1>3 DEF InvTrace, Billers
<1> QED BY <1>2, <1>4, <1>5, <1>6, <1>7

(* The rest of onEndHook. *)
LEMMA EndHookResumesKeeps ==
  ASSUME IInv, EndHookResumes PROVE IInv'
<1> USE DEF IInv
<1>1. UNCHANGED <<mode, signal, listening, sdk, drain>>
  BY DEF EndHookResumes
<1>2. /\ meter' \in Meters /\ hook' \in [Billers -> HookStates]
      /\ bills' \in Seq(SUBSET Steps)
      /\ hook["end"] # "idle" /\ hook'["end"] = "done"
      /\ \A c \in Billers : c # "end" => hook'[c] = hook[c]
      /\ meter'.recorded = meter.recorded /\ meter'.billed = meter.billed
      /\ meter'.charge = meter.charge
      /\ InvMetering'
  BY <1>1, LandsFacts DEF EndHookResumes, Billers
<1>3. mode = "direct" /\ trace' # <<>> /\ trace' \in Seq({"END", "ERROR"})
  BY <1>1, <1>2, TraceAppend DEF EndHookResumes, InvHooks, Billers
<1>4. TypeOK'
  BY <1>1, <1>2, <1>3 DEF TypeOK, HookStates
<1>5. InvCoverage'
  BY <1>1, <1>2 DEF InvCoverage, CutShort, Billers
<1>6. InvHooks'
  BY <1>1, <1>2, <1>3 DEF InvHooks, Billers
<1>7. InvTrace'
  BY <1>1, <1>2, <1>3 DEF InvTrace, Billers
<1> QED BY <1>2, <1>4, <1>5, <1>6, <1>7

(* The rest of onAbortHook. *)
LEMMA AbortHookResumesKeeps ==
  ASSUME IInv, AbortHookResumes PROVE IInv'
<1> USE DEF IInv
<1>1. /\ UNCHANGED <<mode, signal, listening, drain>>
      /\ sdk' = [sdk EXCEPT !.state = "aborted"]
  BY DEF AbortHookResumes
<1>2. /\ sdk' \in Sdks /\ sdk'.state = "aborted" /\ sdk'.steps = sdk.steps
      /\ sdk'.failed = sdk.failed /\ sdk'.before = sdk.before
      /\ sdk'.timedOut = sdk.timedOut
  <2>1. sdk' \in Sdks
    BY <1>1, SdkState DEF TypeOK, SdkStates
  <2> QED BY <1>1, <2>1 DEF TypeOK, Sdks
<1>3. /\ meter' \in Meters /\ hook' \in [Billers -> HookStates]
      /\ bills' \in Seq(SUBSET Steps)
      /\ hook["abort"] \in {"waiting", "billing"} /\ hook'["abort"] = "done"
      /\ \A c \in Billers : c # "abort" => hook'[c] = hook[c]
      /\ meter'.recorded = meter.recorded /\ meter'.billed = meter.billed
      /\ meter'.charge = meter.charge
      /\ InvMetering'
  BY <1>2, LandsFacts DEF AbortHookResumes, Billers
<1>4. mode = "direct" /\ sdk.state = "aborting"
  BY <1>3 DEF InvHooks, Billers
<1>5. /\ trace' \in Seq({"END", "ERROR"}) /\ (trace' = <<>> => trace = <<>>)
  BY TraceAppend DEF AbortHookResumes, TypeOK
<1>6. TypeOK'
  BY <1>1, <1>2, <1>3, <1>5 DEF TypeOK, HookStates
<1>7. InvCoverage'
  BY <1>1, <1>2, <1>3, <1>4 DEF InvCoverage, CutShort, Billers
<1>8. InvHooks'
  BY <1>1, <1>2, <1>3, <1>4 DEF InvHooks, Billers
<1>9. InvTrace'
  BY <1>1, <1>2, <1>3, <1>4, <1>5 DEF InvTrace, Billers
<1> QED BY <1>3, <1>6, <1>7, <1>8, <1>9

(* The rest of wrapTextGeneration. *)
LEMMA CallResumesKeeps ==
  ASSUME IInv, CallResumes PROVE IInv'
<1> USE DEF IInv
<1>1. UNCHANGED <<mode, signal, listening, sdk, drain>>
  BY DEF CallResumes
<1>2. /\ meter' \in Meters /\ hook' \in [Billers -> HookStates]
      /\ bills' \in Seq(SUBSET Steps)
      /\ hook["call"] \in {"waiting", "billing"} /\ hook'["call"] = "done"
      /\ \A c \in Billers : c # "call" => hook'[c] = hook[c]
      /\ meter'.recorded = meter.recorded /\ meter'.billed = meter.billed
      /\ meter'.charge = meter.charge
      /\ InvMetering'
  BY <1>1, LandsFacts DEF CallResumes, Billers
<1>3. mode # "direct" /\ Len(trace) = 0
  BY <1>2 DEF InvHooks, InvTrace, Billers
<1>4. trace' \in Seq({"END", "ERROR"}) /\ Len(trace') = 1
  <2>1. \E entry \in {"END", "ERROR"} : trace' = Append(trace, entry)
    BY DEF CallResumes
  <2>2. PICK entry \in {"END", "ERROR"} : trace' = Append(trace, entry)
    BY <2>1
  <2>3. Len(trace') = Len(trace) + 1 /\ trace' \in Seq({"END", "ERROR"})
    BY <2>2, TraceAppend
  <2> QED BY <1>3, <2>3
<1>5. TypeOK'
  BY <1>1, <1>2, <1>4 DEF TypeOK, HookStates
<1>6. InvCoverage'
  BY <1>1, <1>2 DEF InvCoverage, CutShort, Billers
<1>7. InvHooks'
  BY <1>1, <1>2, <1>3 DEF InvHooks, Billers
<1>8. InvTrace'
  BY <1>1, <1>2, <1>3, <1>4 DEF InvTrace, Billers
<1> QED BY <1>2, <1>5, <1>6, <1>7, <1>8

(* The caller's abort. *)
LEMMA CallerAbortsKeeps ==
  ASSUME IInv, CallerAborts PROVE IInv'
<1> USE DEF IInv
<1>1. /\ UNCHANGED <<mode, sdk, meter, hook, bills, drain>>
      /\ signal = "idle" /\ signal' = "aborted" /\ listening' = FALSE
      /\ trace' = IF listening THEN Append(trace, "ERROR") ELSE trace
  BY DEF CallerAborts
<1>2. /\ trace' \in Seq({"END", "ERROR"})
      /\ listening => trace' # <<>>
      /\ ~listening => trace' = trace
  BY <1>1, TraceAppend DEF TypeOK
<1>3. TypeOK'
  BY <1>1, <1>2 DEF TypeOK
<1>4. InvMetering' /\ InvCoverage' /\ InvHooks'
  BY <1>1 DEF InvMetering, InvCoverage, InvHooks, CutShort
<1>5. InvTrace'
  BY <1>1, <1>2 DEF InvTrace
<1> QED BY <1>3, <1>4, <1>5

-----------------------------------------------------------------------------
(* The invariant is kept: a call that completes *)

(* fn has returned or thrown, with the steps of a response or none. *)
LEMMA SettlingKeeps ==
  ASSUME IInv, mode # "direct", hook["call"] = "idle",
         NEW response \in SUBSET Steps, response \in {{}, 1 .. sdk.steps},
         Bill("call", response),
         UNCHANGED <<mode, signal, listening, bills, trace>>,
         drain' \in Drains, drain.gaveUp => drain'.gaveUp,
         sdk' \in Sdks, sdk'.steps = sdk.steps,
         sdk'.state \notin {"setup", "aborting"},
         sdk'.state = "open" => drain'.gaveUp,
         sdk'.state = "refused" => sdk.state \in {"setup", "refused"},
         sdk'.state = "empty" => sdk.state = "empty"
  PROVE  IInv'
<1> USE DEF IInv
<1>1. /\ meter' \in Meters /\ hook' \in [Billers -> HookStates]
      /\ hook'["call"] \in {"waiting", "billing"}
      /\ \A c \in Billers : c # "call" => hook'[c] = hook[c]
      /\ meter'.recorded = meter.recorded /\ meter'.lost = meter.lost
      /\ \/ /\ hook'["call"] = "waiting" /\ meter' = meter
            /\ meter.billed \/ (response = {} /\ meter.recorded = {})
         \/ /\ hook'["call"] = "billing" /\ ~meter.billed /\ meter'.billed
            /\ meter'.charge = IF response = {} THEN meter.recorded ELSE response
            /\ meter'.charge # {}
  BY BillFacts DEF Billers
<1>2. InvMetering'
  BY BillKeepsMetering DEF Billers
<1>3. TypeOK'
  BY <1>1 DEF TypeOK, HookStates
<1>4. ~meter.billed => meter.recorded = 1 .. sdk.steps
  BY DEF InvMetering
<1>5. sdk.steps \in Nat
  BY MaxStepsAssumption DEF TypeOK, Sdks
<1>6. InvCoverage'
  <2>1. CASE meter' = meter /\ meter.billed
    BY <1>1, <2>1 DEF InvCoverage, InvHooks, CutShort, Billers
  <2>2. CASE meter' = meter /\ ~meter.billed /\ meter.recorded = {}
    <3>1. sdk.steps = 0
      BY <1>4, <1>5, <2>2
    <3> QED BY <1>1, <2>2, <3>1 DEF InvCoverage, InvHooks, CutShort, Billers
  <2>3. CASE ~meter.billed /\ meter'.billed /\ meter'.charge # {}
             /\ meter'.charge = IF response = {} THEN meter.recorded ELSE response
    <3>1. meter'.charge = 1 .. sdk.steps
      BY <1>4, <2>3
    <3>2. sdk'.state # "refused"
      BY <1>5, <2>3, <3>1 DEF InvCoverage
    <3> QED BY <1>1, <2>3, <3>1, <3>2 DEF InvCoverage, InvHooks, CutShort, Billers
  <2> QED BY <1>1, <2>1, <2>2, <2>3
<1>7. InvHooks'
  BY <1>1 DEF InvHooks, Billers
<1>8. InvTrace'
  BY <1>1 DEF InvTrace, Billers
<1> QED BY <1>2, <1>3, <1>6, <1>7, <1>8

(* The steps of the SDK are steps of the type. *)
LEMMA StepsAre ==
  ASSUME TypeOK
  PROVE  /\ 1 .. sdk.steps \in SUBSET Steps /\ {} \in SUBSET Steps
         /\ sdk.steps \in 0 .. MaxSteps /\ sdk.steps \in Nat
BY MaxStepsAssumption DEF TypeOK, Sdks, Steps

(* The drain reads the end. *)
LEMMA DrainEndsKeeps ==
  ASSUME IInv, DrainEnds PROVE IInv'
<1> USE DEF IInv
<1>1. /\ mode = "completed" /\ hook["call"] = "idle"
      /\ sdk.state \in {"ended", "empty", "aborted"}
      /\ UNCHANGED <<mode, signal, listening, sdk, bills, trace>>
  BY DEF DrainEnds, Draining
<1>2. PICK thrown \in BOOLEAN : CallSettles(thrown, 1 .. sdk.steps)
  BY DEF DrainEnds
<1>3. drain' = [drain EXCEPT !.thrown = thrown]
      /\ Bill("call", IF thrown THEN {} ELSE 1 .. sdk.steps)
  BY <1>2 DEF CallSettles
<1>4. drain' \in Drains /\ drain'.gaveUp = drain.gaveUp
  BY <1>3 DEF TypeOK, Drains
<1> DEFINE response == IF thrown THEN {} ELSE 1 .. sdk.steps
<1>5. response \in SUBSET Steps /\ response \in {{}, 1 .. sdk.steps}
  BY StepsAre
<1>6. sdk' \in Sdks /\ sdk'.state = sdk.state /\ sdk'.steps = sdk.steps
  BY <1>1 DEF TypeOK
<1> HIDE DEF response
<1>7. Bill("call", response)
  BY <1>3 DEF response
<1> QED BY <1>1, <1>4, <1>5, <1>6, <1>7, SettlingKeeps

(* The drain gives up. *)
LEMMA DrainGivesUpKeeps ==
  ASSUME IInv, DrainGivesUp PROVE IInv'
<1> USE DEF IInv
<1>1. /\ mode = "completed" /\ hook["call"] = "idle" /\ sdk.state = "open"
      /\ Bill("call", {})
      /\ UNCHANGED <<mode, signal, listening, sdk, bills, trace>>
  BY DEF DrainGivesUp, Draining
<1>2. drain' \in Drains /\ drain'.gaveUp
  BY DEF DrainGivesUp, TypeOK, Drains
<1>3. sdk' \in Sdks /\ sdk'.state = "open" /\ sdk'.steps = sdk.steps
  BY <1>1 DEF TypeOK
<1> QED BY <1>1, <1>2, <1>3, StepsAre, SettlingKeeps

-----------------------------------------------------------------------------
(* The invariant is kept: the SDK *)

(* A refusal: an entry of a direct stream, or a call that throws. *)
LEMMA StreamRefusedKeeps ==
  ASSUME IInv, StreamRefused PROVE IInv'
<1> USE DEF IInv
<1>1. /\ sdk.state = "setup" /\ UNCHANGED <<mode, signal, bills>>
      /\ sdk' = [sdk EXCEPT !.state = "refused"]
  BY DEF StreamRefused
<1>2. sdk' \in Sdks
  BY <1>1, SdkState DEF TypeOK, SdkStates
<1>3. sdk'.state = "refused" /\ sdk'.steps = sdk.steps /\ sdk'.failed = sdk.failed
  BY <1>1 DEF TypeOK, Sdks
<1>4. CASE /\ mode = "direct" /\ listening' = FALSE
           /\ trace' = Append(trace, "ERROR") /\ UNCHANGED <<meter, hook, drain>>
  <2>1. trace' \in Seq({"END", "ERROR"}) /\ trace' # <<>>
    BY <1>4, TraceAppend
  <2>2. TypeOK'
    BY <1>1, <1>2, <1>4, <2>1 DEF TypeOK
  <2>3. InvMetering' /\ InvCoverage'
    BY <1>1, <1>3, <1>4 DEF InvMetering, InvCoverage, CutShort, InvHooks, Billers
  <2>4. InvHooks' /\ InvTrace'
    BY <1>1, <1>3, <1>4, <2>1 DEF InvHooks, InvTrace, Billers
  <2> QED BY <2>2, <2>3, <2>4
<1>5. CASE mode # "direct" /\ CallSettles(TRUE, {}) /\ UNCHANGED <<listening, trace>>
  <2>1. /\ Bill("call", {}) /\ hook["call"] = "idle"
        /\ drain' = [drain EXCEPT !.thrown = TRUE]
    BY <1>5 DEF CallSettles
  <2>2. drain' \in Drains /\ drain'.gaveUp = drain.gaveUp
    BY <2>1 DEF TypeOK, Drains
  <2> QED BY <1>1, <1>2, <1>3, <1>5, <2>1, <2>2, StepsAre, SettlingKeeps
<1> QED BY <1>4, <1>5 DEF StreamRefused

(* The stream exists. *)
LEMMA StreamOpensKeeps ==
  ASSUME IInv, StreamOpens PROVE IInv'
<1> USE DEF IInv
<1>1. /\ sdk.state = "setup"
      /\ sdk' = [sdk EXCEPT !.state = "open"]
      /\ drain' = [drain EXCEPT !.deadline = (signal = "aborted")]
      /\ UNCHANGED <<mode, signal, listening, meter, hook, bills, trace>>
  BY DEF StreamOpens
<1>2. sdk' \in Sdks
  BY <1>1, SdkState DEF TypeOK, SdkStates
<1>3. sdk'.state = "open" /\ sdk'.steps = sdk.steps /\ sdk'.failed = sdk.failed
  BY <1>1 DEF TypeOK, Sdks
<1>4. drain' \in Drains /\ drain'.gaveUp = drain.gaveUp
  BY <1>1 DEF TypeOK, Drains
<1>5. TypeOK'
  BY <1>1, <1>2, <1>4 DEF TypeOK
<1>6. InvMetering' /\ InvCoverage'
  BY <1>1, <1>3, <1>4 DEF InvMetering, InvCoverage, CutShort, InvHooks, Billers
<1>7. InvHooks' /\ InvTrace'
  BY <1>1, <1>3, <1>4 DEF InvHooks, InvTrace, Billers
<1> QED BY <1>5, <1>6, <1>7

(* A part that is no failure. *)
LEMMA PartArrivesKeeps ==
  ASSUME IInv, PartArrives PROVE IInv'
<1> USE DEF IInv
<1>1. /\ UNCHANGED <<mode, signal, listening, sdk, meter, hook, bills, trace>>
      /\ ReadPart("other")
  BY DEF PartArrives
<1>2. drain' \in Drains /\ drain'.gaveUp = drain.gaveUp
  BY <1>1, ReadPartType
<1>3. TypeOK'
  BY <1>1, <1>2 DEF TypeOK
<1>4. InvMetering' /\ InvCoverage' /\ InvHooks' /\ InvTrace'
  BY <1>1, <1>2 DEF InvMetering, InvCoverage, CutShort, InvHooks, InvTrace
<1> QED BY <1>3, <1>4

(* A finished step, recorded if nothing was billed. *)
LEMMA StepEndsKeeps ==
  ASSUME IInv, StepEnds PROVE IInv'
<1> USE DEF IInv
<1>1. /\ sdk.state = "open" /\ sdk.steps < MaxSteps
      /\ sdk' = [sdk EXCEPT !.steps = sdk.steps + 1, !.last = sdk.failed]
      /\ RecordStep(sdk.steps + 1)
      /\ UNCHANGED <<mode, signal, listening, hook, bills, trace>>
  BY DEF StepEnds
<1>2. /\ sdk.steps + 1 \in Steps /\ sdk.steps + 1 \in 0 .. MaxSteps
      /\ 1 .. (sdk.steps + 1) = (1 .. sdk.steps) \cup {sdk.steps + 1}
  BY <1>1, StepsAre, MaxStepsAssumption DEF Steps
<1>3. sdk' \in Sdks
  <2>1. sdk.failed \in BOOLEAN
    BY DEF TypeOK, Sdks
  <2> QED BY <1>1, <1>2, <2>1, SdkStep DEF TypeOK
<1>4. /\ sdk'.state = "open" /\ sdk'.steps = sdk.steps + 1
      /\ sdk'.failed = sdk.failed /\ sdk'.before = sdk.before
  BY <1>1 DEF TypeOK, Sdks
<1>5. drain' \in Drains /\ drain'.gaveUp = drain.gaveUp
  BY ReadPartType DEF StepEnds, TypeOK
<1>6. /\ meter' \in Meters /\ meter'.billed = meter.billed
      /\ meter'.lost = meter.lost /\ meter'.charge = meter.charge
      /\ ~meter.billed => meter'.recorded = meter.recorded \cup {sdk.steps + 1}
  <2>1. meter.recorded \cup {sdk.steps + 1} \in SUBSET Steps
    BY <1>2 DEF TypeOK, Meters
  <2> QED BY <1>1, <2>1 DEF TypeOK, Meters, RecordStep
<1>7. TypeOK'
  BY <1>1, <1>3, <1>5, <1>6 DEF TypeOK
<1>8. InvMetering'
  BY <1>1, <1>2, <1>4, <1>6 DEF InvMetering
<1>9. InvCoverage'
  <2>1. hook["end"] = "idle" \/ mode # "direct"
    BY <1>1 DEF InvHooks
  <2> QED BY <1>1, <1>4, <1>5, <1>6, <2>1 DEF InvCoverage, CutShort, InvHooks, Billers
<1>10. InvHooks' /\ InvTrace'
  BY <1>1, <1>4, <1>5 DEF InvHooks, InvTrace
<1> QED BY <1>7, <1>8, <1>9, <1>10

(* An end without output. *)
LEMMA EndsEmptyKeeps ==
  ASSUME IInv, EndsEmpty PROVE IInv'
<1> USE DEF IInv
<1>1. /\ mode # "plain" /\ sdk.state = "open" /\ sdk.steps = 0
      /\ sdk' = [sdk EXCEPT !.state = "empty", !.output = "rejected"]
      /\ trace' = IF mode = "direct" THEN Append(trace, "ERROR") ELSE trace
      /\ UNCHANGED <<mode, signal, listening, meter, hook, bills, drain>>
  BY DEF EndsEmpty
<1>2. sdk' \in Sdks
  BY <1>1, SdkOutput DEF TypeOK, SdkStates
<1>3. /\ sdk'.state = "empty" /\ sdk'.steps = sdk.steps
      /\ sdk'.failed = sdk.failed /\ sdk'.before = sdk.before
  BY <1>1 DEF TypeOK, Sdks
<1>4. /\ trace' \in Seq({"END", "ERROR"})
      /\ mode = "direct" => trace' # <<>>
      /\ mode # "direct" => trace' = trace
  BY <1>1, TraceAppend DEF TypeOK
<1>5. TypeOK'
  BY <1>1, <1>2, <1>4 DEF TypeOK
<1>6. InvMetering'
  BY <1>1, <1>3 DEF InvMetering
<1>7. InvCoverage'
  BY <1>1, <1>3 DEF InvCoverage, CutShort
<1>8. InvHooks' /\ InvTrace'
  BY <1>1, <1>3, <1>4 DEF InvHooks, InvTrace
<1> QED BY <1>5, <1>6, <1>7, <1>8

(* A rejected output. *)
LEMMA OutputRejectsKeeps ==
  ASSUME IInv, OutputRejects PROVE IInv'
<1> USE DEF IInv
<1>1. /\ mode = "direct"
      /\ sdk' = [sdk EXCEPT !.output = "rejected"]
      /\ trace' = Append(trace, "ERROR")
      /\ UNCHANGED <<mode, signal, listening, meter, hook, bills, drain>>
  BY DEF OutputRejects
<1>2. sdk' \in Sdks
  BY <1>1, SdkOutput DEF TypeOK, SdkStates
<1>3. /\ sdk'.state = sdk.state /\ sdk'.steps = sdk.steps
      /\ sdk'.failed = sdk.failed /\ sdk'.before = sdk.before
  BY <1>1 DEF TypeOK, Sdks
<1>4. trace' \in Seq({"END", "ERROR"}) /\ trace' # <<>>
  BY <1>1, TraceAppend
<1>5. TypeOK'
  BY <1>1, <1>2, <1>4 DEF TypeOK
<1>6. InvMetering' /\ InvCoverage' /\ InvHooks'
  BY <1>1, <1>3 DEF InvMetering, InvCoverage, CutShort, InvHooks
<1>7. InvTrace'
  BY <1>1, <1>3, <1>4 DEF InvTrace
<1> QED BY <1>5, <1>6, <1>7

(* The error: a hook's bill, a part for the drain, or a call that throws. *)
LEMMA FailsKeeps ==
  ASSUME IInv, Fails PROVE IInv'
<1> USE DEF IInv
<1>1. sdk.state = "open" /\ ~sdk.failed /\ UNCHANGED <<mode, signal, bills, trace>>
  BY DEF Fails
<1>2. CASE /\ mode = "direct" /\ CallHook("error", {}) /\ UNCHANGED drain
           /\ sdk' = [sdk EXCEPT !.failed = TRUE, !.before = sdk.steps]
  <2>1. sdk' \in Sdks
    BY <1>2, SdkFailure DEF TypeOK, SdkStates
  <2>2. /\ sdk'.state = "open" /\ sdk'.steps = sdk.steps
        /\ sdk'.failed /\ sdk'.before = sdk.steps
    BY <1>1, <1>2 DEF TypeOK, Sdks
  <2>3. hook["error"] = "idle" /\ listening' = FALSE /\ Bill("error", {})
    BY <1>2 DEF CallHook
  <2>4. /\ meter' \in Meters /\ hook' \in [Billers -> HookStates]
        /\ hook'["error"] \in {"waiting", "billing"}
        /\ \A c \in Billers : c # "error" => hook'[c] = hook[c]
        /\ \/ meter' = meter /\ (meter.billed \/ meter.recorded = {})
           \/ /\ ~meter.billed /\ meter'.billed /\ meter'.charge = meter.recorded
              /\ meter'.charge # {}
    BY <2>3, BillFacts, StepsAre DEF Billers
  <2>5. InvMetering'
    BY <1>1, <2>2, <2>3, BillKeepsMetering, StepsAre DEF Billers
  <2>6. TypeOK'
    BY <1>1, <1>2, <2>1, <2>3, <2>4 DEF TypeOK, HookStates
  <2>7. meter'.billed /\ ~meter.billed => sdk.steps > 0
    BY <2>4, StepsAre DEF InvMetering
  <2>8. meter.billed => drain.gaveUp
    BY <1>1 DEF InvCoverage, CutShort
  <2>9. ~drain.gaveUp
    BY <1>2 DEF InvHooks
  <2>10. InvCoverage'
    BY <1>1, <1>2, <2>2, <2>4, <2>7, <2>8, <2>9 DEF InvCoverage, InvHooks, CutShort, Billers
  <2>11. InvHooks'
    BY <1>1, <1>2, <2>2, <2>4 DEF InvHooks, Billers
  <2>12. InvTrace'
    BY <1>1, <1>2, <2>2, <2>3, <2>4 DEF InvTrace, Billers
  <2> QED BY <2>5, <2>6, <2>10, <2>11, <2>12
<1>3. CASE /\ Draining /\ ReadPart("error") /\ UNCHANGED <<listening, meter, hook>>
           /\ sdk' = [sdk EXCEPT !.failed = TRUE, !.before = sdk.steps]
  <2>1. sdk' \in Sdks
    BY <1>3, SdkFailure DEF TypeOK, SdkStates
  <2>2. sdk'.state = "open" /\ sdk'.steps = sdk.steps /\ sdk'.failed
    BY <1>1, <1>3 DEF TypeOK, Sdks
  <2>3. drain' \in Drains /\ drain'.gaveUp = drain.gaveUp
    BY <1>3, ReadPartType
  <2>4. mode = "completed"
    BY <1>3 DEF Draining
  <2>5. TypeOK'
    BY <1>1, <1>3, <2>1, <2>3 DEF TypeOK
  <2>6. InvMetering' /\ InvCoverage'
    BY <1>1, <1>3, <2>2, <2>3, <2>4 DEF InvMetering, InvCoverage, CutShort
  <2>7. InvHooks' /\ InvTrace'
    BY <1>1, <1>3, <2>2, <2>3, <2>4 DEF InvHooks, InvTrace
  <2> QED BY <2>5, <2>6, <2>7
<1>4. CASE /\ mode = "plain" /\ CallSettles(TRUE, {}) /\ UNCHANGED listening
           /\ sdk' = [sdk EXCEPT !.failed = TRUE, !.before = sdk.steps, !.state = "thrown"]
  <2>1. sdk' \in Sdks
    BY <1>4, SdkFailure DEF TypeOK, SdkStates
  <2>2. sdk'.state = "thrown" /\ sdk'.steps = sdk.steps
    BY <1>4 DEF TypeOK, Sdks
  <2>3. /\ Bill("call", {}) /\ hook["call"] = "idle"
        /\ drain' = [drain EXCEPT !.thrown = TRUE]
    BY <1>4 DEF CallSettles
  <2>4. drain' \in Drains /\ drain'.gaveUp = drain.gaveUp
    BY <2>3 DEF TypeOK, Drains
  <2> QED BY <1>1, <1>4, <2>1, <2>2, <2>3, <2>4, StepsAre, SettlingKeeps
<1> QED BY <1>2, <1>3, <1>4 DEF Fails

(* The end: a hook's bill, nothing for the drain yet, or a call that returns. *)
LEMMA EndsKeeps ==
  ASSUME IInv, Ends PROVE IInv'
<1> USE DEF IInv
<1>1. /\ sdk.state = "open" /\ sdk.steps > 0 /\ UNCHANGED <<mode, signal, bills, trace>>
      /\ sdk' = [sdk EXCEPT !.state = "ended"]
  BY DEF Ends
<1>2. sdk' \in Sdks
  BY <1>1, SdkState DEF TypeOK, SdkStates
<1>3. /\ sdk'.state = "ended" /\ sdk'.steps = sdk.steps
      /\ sdk'.failed = sdk.failed /\ sdk'.before = sdk.before
  BY <1>1 DEF TypeOK, Sdks
<1>4. CASE mode = "direct" /\ CallHook("end", 1 .. sdk.steps) /\ UNCHANGED drain
  <2>1. hook["end"] = "idle" /\ listening' = FALSE /\ Bill("end", 1 .. sdk.steps)
    BY <1>4 DEF CallHook
  <2>2. 1 .. sdk.steps # {}
    BY <1>1, StepsAre
  <2>3. /\ meter' \in Meters /\ hook' \in [Billers -> HookStates]
        /\ hook'["end"] \in {"waiting", "billing"}
        /\ \A c \in Billers : c # "end" => hook'[c] = hook[c]
        /\ \/ meter' = meter /\ meter.billed
           \/ ~meter.billed /\ meter'.billed /\ meter'.charge = 1 .. sdk.steps
    BY <2>1, <2>2, BillFacts, StepsAre DEF Billers
  <2>4. InvMetering'
    BY <1>1, <1>3, <2>1, BillKeepsMetering, StepsAre DEF Billers
  <2>5. TypeOK'
    BY <1>1, <1>2, <1>4, <2>1, <2>3 DEF TypeOK, HookStates
  <2>6. InvCoverage'
    BY <1>1, <1>3, <1>4, <2>3 DEF InvCoverage, InvHooks, CutShort, Billers
  <2>7. InvHooks'
    BY <1>1, <1>3, <1>4, <2>3 DEF InvHooks, Billers
  <2>8. InvTrace'
    BY <1>1, <1>3, <1>4, <2>1, <2>3 DEF InvTrace, Billers
  <2> QED BY <2>4, <2>5, <2>6, <2>7, <2>8
<1>5. CASE mode = "completed" /\ UNCHANGED <<listening, meter, hook, drain>>
  <2>1. TypeOK'
    BY <1>1, <1>2, <1>5 DEF TypeOK
  <2>2. InvMetering' /\ InvCoverage'
    BY <1>1, <1>3, <1>5 DEF InvMetering, InvCoverage, InvHooks, CutShort, Billers
  <2>3. InvHooks' /\ InvTrace'
    BY <1>1, <1>3, <1>5 DEF InvHooks, InvTrace, Billers
  <2> QED BY <2>1, <2>2, <2>3
<1>6. CASE /\ mode = "plain" /\ UNCHANGED listening
           /\ \E thrown \in BOOLEAN : CallSettles(thrown, 1 .. sdk.steps)
  <2>1. PICK thrown \in BOOLEAN : CallSettles(thrown, 1 .. sdk.steps)
    BY <1>6
  <2> DEFINE response == IF thrown THEN {} ELSE 1 .. sdk.steps
  <2>2. response \in SUBSET Steps /\ response \in {{}, 1 .. sdk.steps}
    BY StepsAre
  <2>3. /\ Bill("call", response) /\ hook["call"] = "idle"
        /\ drain' = [drain EXCEPT !.thrown = thrown]
    BY <2>1 DEF CallSettles
  <2>4. drain' \in Drains /\ drain'.gaveUp = drain.gaveUp
    BY <2>3 DEF TypeOK, Drains
  <2> HIDE DEF response
  <2> QED BY <1>1, <1>2, <1>3, <1>6, <2>2, <2>3, <2>4, SettlingKeeps
<1> QED BY <1>4, <1>5, <1>6 DEF Ends

(* The abort: a hook's bill, a part for the drain, or a call that throws. *)
LEMMA AbortsKeeps ==
  ASSUME IInv, Aborts PROVE IInv'
<1> USE DEF IInv
<1> DEFINE timeout == signal # "aborted"
<1>1. sdk.state = "open" /\ UNCHANGED <<mode, signal, bills, trace>>
  BY DEF Aborts
<1>2. CASE /\ mode = "direct" /\ CallHook("abort", {}) /\ UNCHANGED drain
           /\ sdk' = [sdk EXCEPT !.state = "aborting", !.timedOut = timeout]
  <2>1. sdk' \in Sdks
    BY <1>2, SdkAbort DEF TypeOK, SdkStates
  <2>2. /\ sdk'.state = "aborting" /\ sdk'.steps = sdk.steps
        /\ sdk'.failed = sdk.failed /\ sdk'.before = sdk.before
        /\ sdk'.timedOut <=> timeout
    BY <1>2 DEF TypeOK, Sdks
  <2>3. hook["abort"] = "idle" /\ listening' = FALSE /\ Bill("abort", {})
    BY <1>2 DEF CallHook
  <2>4. /\ meter' \in Meters /\ hook' \in [Billers -> HookStates]
        /\ hook'["abort"] \in {"waiting", "billing"}
        /\ \A c \in Billers : c # "abort" => hook'[c] = hook[c]
        /\ \/ meter' = meter /\ (meter.billed \/ meter.recorded = {})
           \/ ~meter.billed /\ meter'.billed /\ meter'.charge = meter.recorded
    BY <2>3, BillFacts, StepsAre DEF Billers
  <2>5. InvMetering'
    BY <1>1, <2>2, <2>3, BillKeepsMetering, StepsAre DEF Billers
  <2>6. TypeOK'
    BY <1>1, <1>2, <2>1, <2>3, <2>4 DEF TypeOK, HookStates
  <2>7. ~meter.billed => meter.recorded = 1 .. sdk.steps
    BY DEF InvMetering
  <2>8. meter'.billed \/ sdk.steps = 0
    <3>1. ~meter'.billed => 1 .. sdk.steps = {}
      BY <2>4, <2>7
    <3>2. 1 .. sdk.steps = {} => sdk.steps = 0
      BY StepsAre
    <3> QED BY <3>1, <3>2
  <2>9. InvCoverage'
    BY <1>1, <1>2, <2>2, <2>4, <2>7, <2>8 DEF InvCoverage, InvHooks, CutShort, Billers
  <2>10. InvHooks'
    BY <1>1, <1>2, <2>2, <2>4 DEF InvHooks, Billers
  <2>11. trace = <<>> /\ signal = "aborted" => hook["error"] # "idle"
    BY <1>1, <1>2, <2>3 DEF InvTrace, InvHooks, Billers
  <2>12. InvTrace'
    BY <1>1, <1>2, <2>2, <2>3, <2>4, <2>11 DEF InvTrace, Billers
  <2> QED BY <2>5, <2>6, <2>9, <2>10, <2>12
<1>3. CASE /\ Draining /\ ReadPart("abort") /\ UNCHANGED <<listening, meter, hook>>
           /\ sdk' = [sdk EXCEPT !.state = "aborted", !.timedOut = timeout]
  <2>1. sdk' \in Sdks
    BY <1>3, SdkAbort DEF TypeOK, SdkStates
  <2>2. /\ sdk'.state = "aborted" /\ sdk'.steps = sdk.steps
        /\ sdk'.failed = sdk.failed /\ sdk'.before = sdk.before
    BY <1>1, <1>3 DEF TypeOK, Sdks
  <2>3. drain' \in Drains /\ drain'.gaveUp = drain.gaveUp
    BY <1>3, ReadPartType
  <2>4. mode = "completed"
    BY <1>3 DEF Draining
  <2>5. TypeOK'
    BY <1>1, <1>3, <2>1, <2>3 DEF TypeOK
  <2>6. InvMetering' /\ InvCoverage'
    BY <1>1, <1>3, <2>2, <2>3, <2>4 DEF InvMetering, InvCoverage, CutShort
  <2>7. InvHooks' /\ InvTrace'
    BY <1>1, <1>3, <2>2, <2>3, <2>4 DEF InvHooks, InvTrace, Billers
  <2> QED BY <2>5, <2>6, <2>7
<1>4. CASE /\ mode = "plain" /\ CallSettles(TRUE, {}) /\ UNCHANGED listening
           /\ sdk' = [sdk EXCEPT !.state = "thrown", !.timedOut = timeout]
  <2>1. sdk' \in Sdks
    BY <1>4, SdkAbort DEF TypeOK, SdkStates
  <2>2. sdk'.state = "thrown" /\ sdk'.steps = sdk.steps
    BY <1>4 DEF TypeOK, Sdks
  <2>3. /\ Bill("call", {}) /\ hook["call"] = "idle"
        /\ drain' = [drain EXCEPT !.thrown = TRUE]
    BY <1>4 DEF CallSettles
  <2>4. drain' \in Drains /\ drain'.gaveUp = drain.gaveUp
    BY <2>3 DEF TypeOK, Drains
  <2> QED BY <1>1, <1>4, <2>1, <2>2, <2>3, <2>4, StepsAre, SettlingKeeps
<1> QED BY <1>2, <1>3, <1>4 DEF Aborts

-----------------------------------------------------------------------------
(* The theorems *)

(* The invariant holds when the call begins. *)
LEMMA InitIInv ==
  Init => IInv
<1> SUFFICES ASSUME Init PROVE IInv
  OBVIOUS
<1>1. TypeOK
  <2>1. sdk \in Sdks /\ meter \in Meters /\ drain \in Drains
    BY MaxStepsAssumption DEF Init, Sdks, Meters, Drains, Steps
  <2>2. trace \in Seq({"END", "ERROR"}) /\ bills \in Seq(SUBSET Steps)
    <3>1. trace = <<>> \/ trace = <<"ERROR">>
      BY DEF Init
    <3>2. <<"ERROR">> \in Seq({"END", "ERROR"})
      OBVIOUS
    <3>3. trace \in Seq({"END", "ERROR"})
      <4>1. CASE trace = <<>>
        BY <4>1
      <4>2. CASE trace = <<"ERROR">>
        BY <4>2, <3>2
      <4> QED BY <3>1, <4>1, <4>2
    <3>4. bills \in Seq(SUBSET Steps)
      BY DEF Init
    <3> QED BY <3>3, <3>4
  <2> QED BY <2>1, <2>2 DEF Init, TypeOK
<1>2. InvMetering /\ InvCoverage
  BY DEF Init, InvMetering, InvCoverage, CutShort, Billers
<1>3. InvHooks
  BY DEF Init, InvHooks, Billers
<1>4. InvTrace
  BY DEF Init, InvTrace, Billers
<1> QED BY <1>1, <1>2, <1>3, <1>4 DEF IInv

(* Every step keeps the invariant. *)
LEMMA StepIInv ==
  IInv /\ [Next]_vars => IInv'
<1> SUFFICES ASSUME IInv, [Next]_vars PROVE IInv'
  OBVIOUS
<1>1. CASE Sdk
  BY <1>1, StreamRefusedKeeps, StreamOpensKeeps, PartArrivesKeeps, StepEndsKeeps,
     FailsKeeps, EndsKeeps, EndsEmptyKeeps, AbortsKeeps, OutputRejectsKeeps DEF Sdk
<1>2. CASE Resumes
  BY <1>2, ErrorHookResumesKeeps, EndHookResumesKeeps, AbortHookResumesKeeps,
     CallResumesKeeps DEF Resumes
<1>3. CASE CallerAborts
  BY <1>3, CallerAbortsKeeps
<1>4. CASE DrainEnds
  BY <1>4, DrainEndsKeeps
<1>5. CASE DrainGivesUp
  BY <1>5, DrainGivesUpKeeps
<1>6. CASE UNCHANGED vars
  BY <1>6 DEF vars, IInv, TypeOK, InvMetering, InvCoverage, InvHooks, InvTrace, CutShort
<1> QED BY <1>1, <1>2, <1>3, <1>4, <1>5, <1>6 DEF Next

(* Every state satisfies the inductive invariant (wrap.js, metering.js and
   stream.js together). *)
THEOREM Invariance == Spec => []IInv
BY InitIInv, StepIInv, PTL DEF Spec

(* One call emits one metering event at most, however its hooks overlap. *)
THEOREM BillsOnce == Spec => []OneBill
<1>1. IInv => OneBill
  <2> SUFFICES ASSUME IInv PROVE Len(bills) <= 1
    BY DEF OneBill
  <2>1. bills = <<>> \/ bills = <<meter.charge>>
    BY DEF IInv, InvMetering
  <2>2. CASE bills = <<>>
    BY <2>2
  <2>3. CASE bills = <<meter.charge>>
    BY <2>3
  <2> QED BY <2>1, <2>2, <2>3
<1> QED BY <1>1, Invariance, PTL

(* A call at rest is billed for all of its steps, unless an error came after
   billed steps or a drain gave up. *)
THEOREM BillsInFull == Spec => []BilledInFull
<1>1. IInv => BilledInFull
  <2> SUFFICES ASSUME IInv, AtRest, sdk.steps > 0, ~meter.lost, ~drain.gaveUp,
                      mode = "direct" /\ sdk.failed => sdk.before = 0
               PROVE  bills = <<1 .. sdk.steps>>
    BY DEF BilledInFull
  <2> USE DEF IInv
  <2>1. meter.billed
    BY DEF AtRest, InvCoverage, InvHooks, Billers
  <2>2. \A b \in Billers : hook[b] # "billing"
    BY DEF AtRest, InvHooks, Billers
  <2>3. bills = <<meter.charge>>
    BY <2>1, <2>2 DEF InvMetering
  <2>4. meter.charge = 1 .. sdk.steps
    BY <2>1 DEF InvCoverage, CutShort
  <2> QED BY <2>3, <2>4
<1> QED BY <1>1, Invariance, PTL

(* A call at rest has closed its trace event, one that completes exactly once. *)
THEOREM TraceClosed == Spec => []ClosesItsTrace
<1>1. IInv => ClosesItsTrace
  <2> SUFFICES ASSUME IInv, AtRest
               PROVE  IF mode = "direct" THEN sdk.timedOut \/ trace # <<>>
                                         ELSE Len(trace) = 1
    BY DEF ClosesItsTrace
  <2> USE DEF IInv
  <2>1. CASE mode = "direct"
    BY <2>1 DEF AtRest, InvTrace, InvHooks, Billers
  <2>2. CASE mode # "direct"
    BY <2>2 DEF AtRest, InvTrace
  <2> QED BY <2>1, <2>2
<1> QED BY <1>1, Invariance, PTL

(* The consumer of a direct stream reads an abort only when the steps before it
   are billed, or the bill of an error is in flight. *)
THEOREM BilledBeforeAbort == Spec => []AbortBilledFirst
<1>1. IInv => AbortBilledFirst
  <2> SUFFICES ASSUME IInv, mode = "direct", sdk.state = "aborted",
                      meter.recorded # {}, ~meter.lost
               PROVE  bills # <<>> \/ hook["error"] = "billing"
    BY DEF AbortBilledFirst
  <2> USE DEF IInv
  <2>1. meter.billed
    <3>1. ~meter.billed => meter.recorded = 1 .. sdk.steps /\ sdk.steps = 0
      BY DEF InvMetering, InvCoverage
    <3> QED BY <3>1
  <2>2. hook["abort"] = "done" /\ hook["call"] = "idle" /\ hook["end"] = "idle"
    BY DEF InvHooks, TypeOK, Billers
  <2> QED BY <2>1, <2>2 DEF InvMetering, Billers
<1> QED BY <1>1, Invariance, PTL

(* After a terminal hook or a refusal an abort of the signal adds nothing to the
   trace. *)
THEOREM LateAbort == Spec => LateAbortIsSilent
<1> DEFINE Silent == mode = "direct" /\ signal' # signal
                       /\ (sdk.state = "refused" \/ \E b \in Billers : hook[b] # "idle")
                       => trace' = trace
<1>1. IInv /\ [Next]_vars => [Silent]_vars
  <2> SUFFICES ASSUME IInv, Next, signal' # signal,
                      sdk.state = "refused" \/ \E b \in Billers : hook[b] # "idle"
               PROVE  trace' = trace
    OBVIOUS
  <2>1. CallerAborts
    BY DEF Next, Sdk, Resumes, StreamRefused, StreamOpens, PartArrives, StepEnds, Fails,
           Ends, EndsEmpty, Aborts, OutputRejects, ErrorHookResumes, EndHookResumes,
           AbortHookResumes, CallResumes, DrainEnds, DrainGivesUp
  <2>2. ~listening
    BY DEF IInv, InvTrace
  <2> QED BY <2>1, <2>2 DEF CallerAborts
<1> QED BY <1>1, Invariance, PTL DEF Spec, LateAbortIsSilent

=============================================================================
