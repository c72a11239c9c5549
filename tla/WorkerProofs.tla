---------------------------- MODULE WorkerProofs ----------------------------
(***************************************************************************)
(* Proofs about a worker: what it does before it serves                    *)
(* (CatalogPublisher), how its process lives and ends (WorkerLifecycle),   *)
(* and where the traces of what it runs are left (TraceUpload).            *)
(***************************************************************************)
EXTENDS CatalogPublisher, WorkerLifecycle, TraceUpload, FiniteSetTheorems,
        WellFoundedInduction, TLAPS

-----------------------------------------------------------------------------
(***************************************************************************)
(* For any set of workers, any hashes and any retry budget: no publisher   *)
(* ends a catalog run of its own code, and none goes on to serve against a *)
(* catalog that nobody newer replaced.  Both follow from the inductive     *)
(* invariant PublisherIInv, which says what a publisher may still rely on  *)
(* of what it saw at the server before its last await.                     *)
(***************************************************************************)

\* The calls of a publisher move its own stage only, and never back to "idle".
LEMMA PublishStage ==
  ASSUME PublisherTypeOK, NEW w \in Workers, Publish(w)
  PROVE  /\ stage'[w] # "idle"
         /\ \A v \in Workers : v # w => stage'[v] = stage[v]
  BY DEF PublisherTypeOK, Publish, Run, Describe, DescribeFails, Terminate, TerminateFails, Start,
         StartConflicts, StartFails, Redescribe, RedescribeFails, Backoff, Execute, Retry, Goto,
         Done, Pending

\* Runs are only ever added at the end, with their hash kept for good, and one is added
\* only when none is open.
Kept == /\ Len(runs) \in Nat
        /\ Len(runs') \in {Len(runs), Len(runs) + 1}
        /\ \A i \in 1 .. Len(runs) :
             runs'[i].hash = runs[i].hash /\ (runs'[i].open => runs[i].open)
Grown == /\ Len(runs') = Len(runs) + 1
         /\ runs'[Len(runs')].open
         /\ \A i \in 1 .. Len(runs) : runs'[i] = runs[i] /\ ~runs[i].open

\* A run that a publisher starts.
LEMMA StartRunKeeps ==
  ASSUME PublisherTypeOK, NEW w \in Workers, StartRun(w)
  PROVE  /\ Kept /\ Grown
         /\ runs'[Len(runs')].hash = HashOf[w]
         /\ runs' \in Seq([hash : Hashes, open : BOOLEAN])
<1> DEFINE run == [hash |-> HashOf[w], open |-> TRUE]
<1>1. run \in [hash : Hashes, open : BOOLEAN]
  BY HashOfAssumption
<1>2. runs \in Seq([hash : Hashes, open : BOOLEAN]) /\ runs' = Append(runs, run)
  BY DEF PublisherTypeOK, StartRun
<1>3. /\ Len(runs') = Len(runs) + 1 /\ runs'[Len(runs')] = run
      /\ \A i \in 1 .. Len(runs) : runs'[i] = runs[i]
      /\ runs' \in Seq([hash : Hashes, open : BOOLEAN])
      /\ Len(runs) \in Nat
  <2> HIDE DEF run
  <2> QED BY <1>1, <1>2
<1>4. \A i \in 1 .. Len(runs) : ~runs[i].open
  BY DEF StartRun, Open
<1> QED BY <1>3, <1>4 DEF Kept, Grown

CloseRun(i) == runs' = [runs EXCEPT ![i].open = FALSE]

\* Closing a run closes that one, and changes nothing else.
LEMMA CloseRunKeeps ==
  ASSUME PublisherTypeOK, NEW i \in 1 .. Len(runs), CloseRun(i)
  PROVE  /\ Kept
         /\ Len(runs') = Len(runs)
         /\ ~runs'[i].open
         /\ \A j \in 1 .. Len(runs) : j # i => runs'[j] = runs[j]
         /\ runs' \in Seq([hash : Hashes, open : BOOLEAN])
<1> DEFINE R == [hash : Hashes, open : BOOLEAN]
<1>1. runs \in Seq(R) /\ runs[i] \in R /\ Len(runs) \in Nat
  <2>1. runs \in Seq(R)
    BY DEF PublisherTypeOK
  <2> HIDE DEF R
  <2> QED BY <2>1
<1>2. [runs[i] EXCEPT !.open = FALSE] \in R
  BY <1>1
<1>3. runs' = [runs EXCEPT ![i] = [runs[i] EXCEPT !.open = FALSE]]
  BY DEF CloseRun
<1>4. runs' \in Seq(R) /\ Len(runs') = Len(runs)
  <2> DEFINE closed == [runs[i] EXCEPT !.open = FALSE]
  <2>1. closed \in R /\ runs' = [runs EXCEPT ![i] = closed]
    BY <1>2, <1>3
  <2> HIDE DEF closed, R
  <2> QED BY <1>1, <2>1
<1>5. runs'[i].hash = runs[i].hash /\ ~runs'[i].open
  BY <1>1, <1>3
<1>6. \A j \in 1 .. Len(runs) : j # i => runs'[j] = runs[j]
  BY <1>1, <1>3
<1> QED BY <1>1, <1>4, <1>5, <1>6 DEF Kept

\* A step of a publisher does one of three things to the runs at the server.
LEMMA PublishRuns ==
  ASSUME PublisherTypeOK, NEW w \in Workers, Publish(w)
  PROVE  \/ UNCHANGED runs
         \/ stage[w] = "start" /\ StartRun(w)
         \/ stage[w] = "terminate" /\ CloseRun(found[w]) /\ stage'[w] = "start"
<1>1. CASE Run(w) \/ Describe(w) \/ DescribeFails(w) \/ StartConflicts(w) \/ Redescribe(w)
           \/ RedescribeFails(w) \/ Backoff(w)
  BY <1>1 DEF Run, Describe, DescribeFails, StartConflicts, Redescribe, RedescribeFails, Backoff
<1>2. CASE Terminate(w)
  BY <1>2 DEF Terminate, CloseRun, Goto, PublisherTypeOK
<1>3. CASE TerminateFails(w)
  BY <1>3 DEF TerminateFails, CloseRun, Goto, PublisherTypeOK
<1>4. CASE Start(w)
  BY <1>4 DEF Start
<1>5. CASE StartFails(w)
  BY <1>5 DEF StartFails
<1> QED BY <1>1, <1>2, <1>3, <1>4, <1>5 DEF Publish

\* Whatever a publisher does, a run keeps its hash and does not reopen, and a run is
\* added only when no other is open.
LEMMA PublishKeeps ==
  ASSUME PublisherIInv, NEW w \in Workers, Publish(w)
  PROVE  /\ Kept
         /\ Len(runs') = Len(runs) \/ Grown
         /\ runs' \in Seq([hash : Hashes, open : BOOLEAN])
<1>1. PublisherTypeOK
  BY DEF PublisherIInv
<1>2. CASE UNCHANGED runs
  <2>1. runs \in Seq([hash : Hashes, open : BOOLEAN])
    BY <1>1 DEF PublisherTypeOK
  <2>2. Len(runs) \in Nat
    BY <2>1
  <2> QED BY <1>2, <2>1, <2>2 DEF Kept
<1>3. CASE StartRun(w)
  BY <1>1, <1>3, StartRunKeeps
<1>4. CASE stage[w] = "terminate" /\ CloseRun(found[w])
  <2>1. found[w] \in 1 .. Len(runs)
    BY <1>4 DEF PublisherIInv, FoundAnother
  <2> QED BY <1>1, <1>4, <2>1, CloseRunKeeps
<1> QED BY <1>1, <1>2, <1>3, <1>4, PublishRuns

\* The initial state: no publisher has begun and nothing runs.
LEMMA PublisherInitInvariant == PublisherInit => PublisherIInv
<1> SUFFICES ASSUME PublisherInit PROVE PublisherIInv
  OBVIOUS
<1>1. PublisherTypeOK
  BY MaxRetriesAssumption, MaxErrorsAssumption DEF PublisherInit, PublisherTypeOK
<1>2. WithinBudget /\ OneOpen /\ FoundAnother /\ Served /\ Closers
  BY DEF PublisherInit, WithinBudget, OneOpen, FoundAnother, Served, Closers, Ready
<1> QED BY <1>1, <1>2 DEF PublisherIInv

\* Types: the counters stay within their bounds because a publisher in its backoff has
\* retries left.
LEMMA PublishTypes ==
  ASSUME PublisherIInv, NEW w \in Workers, Publish(w)
  PROVE  PublisherTypeOK' /\ WithinBudget'
<1>1. PublisherTypeOK /\ WithinBudget
  BY DEF PublisherIInv
<1>2. runs' \in Seq([hash : Hashes, open : BOOLEAN])
  BY PublishKeeps
<1> DEFINE Rest == /\ stage' \in [Workers -> {"idle"} \cup Pending \cup Done]
                   /\ retries' \in [Workers -> 0 .. MaxRetries]
                   /\ found' \in [Workers -> Nat]
                   /\ aborted' \in [Workers -> BOOLEAN]
                   /\ errors' \in 0 .. MaxErrors
                   /\ WithinBudget'
<1> SUFFICES Rest
  BY <1>2 DEF PublisherTypeOK
<1>3. CASE Run(w)
  BY <1>1, <1>3, MaxRetriesAssumption DEF PublisherTypeOK, WithinBudget, Run, Execute, Goto, Pending, Done
<1>4. CASE Describe(w)
  <2>1. stage' \in [Workers -> {"idle"} \cup Pending \cup Done] /\ stage'[w] # "backoff"
    BY <1>1, <1>4 DEF PublisherTypeOK, Describe, Goto, Pending, Done
  <2>2. found' \in [Workers -> Nat]
    <3>1. \A i \in Open : i \in Nat
      BY <1>1 DEF PublisherTypeOK, Open
    <3> QED BY <1>1, <1>4, <3>1 DEF PublisherTypeOK, Describe
  <2>3. UNCHANGED <<retries, aborted, errors>>
    BY <1>4 DEF Describe
  <2>4. WithinBudget'
    BY <1>1, <2>1, <2>3, PublishStage DEF WithinBudget
  <2> QED BY <1>1, <2>1, <2>2, <2>3, <2>4 DEF PublisherTypeOK
<1>5. CASE DescribeFails(w)
  BY <1>1, <1>5, MaxErrorsAssumption
     DEF PublisherTypeOK, WithinBudget, DescribeFails, CallFails, Goto, Pending, Done
<1>6. CASE Terminate(w)
  BY <1>1, <1>6 DEF PublisherTypeOK, WithinBudget, Terminate, Goto, Pending, Done
<1>7. CASE TerminateFails(w)
  BY <1>1, <1>7, MaxErrorsAssumption
     DEF PublisherTypeOK, WithinBudget, TerminateFails, CallFails, Goto, Pending, Done
<1>8. CASE Start(w)
  BY <1>1, <1>8 DEF PublisherTypeOK, WithinBudget, Start, Goto, Pending, Done
<1>9. CASE StartConflicts(w)
  BY <1>1, <1>9 DEF PublisherTypeOK, WithinBudget, StartConflicts, Goto, Pending, Done
<1>10. CASE StartFails(w)
  BY <1>1, <1>10, MaxErrorsAssumption
     DEF PublisherTypeOK, WithinBudget, StartFails, CallFails, Retry, Goto, Pending, Done
<1>11. CASE Redescribe(w)
  BY <1>1, <1>11 DEF PublisherTypeOK, WithinBudget, Redescribe, Retry, Goto, Pending, Done
<1>12. CASE RedescribeFails(w)
  BY <1>1, <1>12, MaxErrorsAssumption
     DEF PublisherTypeOK, WithinBudget, RedescribeFails, CallFails, Retry, Goto, Pending, Done
<1>13. CASE Backoff(w)
  BY <1>1, <1>13, MaxRetriesAssumption
     DEF PublisherTypeOK, WithinBudget, Backoff, Execute, Goto, Pending, Done
<1> QED
  BY <1>3, <1>4, <1>5, <1>6, <1>7, <1>8, <1>9, <1>10, <1>11, <1>12, <1>13 DEF Publish

\* One run at most is open, and it is the last: a run is started when none is open, and
\* a terminated one stays closed.
LEMMA PublishOneOpen ==
  ASSUME PublisherIInv, NEW w \in Workers, Publish(w)
  PROVE  OneOpen'
<1>1. OneOpen /\ Kept /\ (Len(runs') = Len(runs) \/ Grown)
  BY PublishKeeps DEF PublisherIInv
<1>2. CASE Len(runs') = Len(runs)
  BY <1>1, <1>2 DEF OneOpen, Kept
<1>3. CASE Grown
  BY <1>1, <1>3 DEF OneOpen, Kept, Grown
<1> QED BY <1>1, <1>2, <1>3

\* What a publisher means to terminate was another's, and stays another's, whatever the
\* others do until its terminate is sent.
LEMMA PublishFoundAnother ==
  ASSUME PublisherIInv, NEW w \in Workers, Publish(w)
  PROVE  FoundAnother'
<1>1. PublisherTypeOK /\ FoundAnother
  BY DEF PublisherIInv
<1> SUFFICES ASSUME NEW v \in Workers, stage'[v] = "terminate"
             PROVE  found'[v] \in 1 .. Len(runs') /\ runs'[found'[v]].hash # HashOf[v]
  BY DEF FoundAnother
<1>2. Kept
  BY PublishKeeps
<1>3. CASE stage[v] = "terminate" /\ found'[v] = found[v]
  BY <1>1, <1>2, <1>3 DEF FoundAnother, Kept
<1>4. CASE Describe(w) /\ v = w
  <2>1. PICK i \in Open : runs[i].hash # HashOf[w] /\ found'[w] = i
    BY <1>1, <1>4 DEF Describe, Goto, PublisherTypeOK
  <2> QED BY <1>2, <1>4, <2>1 DEF Open, Kept
<1>5. v # w => stage[v] = "terminate" /\ found'[v] = found[v]
  BY <1>1, PublishStage
     DEF PublisherTypeOK, Publish, Run, Describe, DescribeFails, Terminate, TerminateFails, Start,
         StartConflicts, StartFails, Redescribe, RedescribeFails, Backoff
<1>6. v = w => Describe(w)
  BY <1>1 DEF PublisherTypeOK, Publish, Run, Describe, DescribeFails, Terminate, TerminateFails, Start,
         StartConflicts, StartFails, Redescribe, RedescribeFails, Backoff, Execute, Retry, Goto
<1> QED BY <1>3, <1>4, <1>5, <1>6

\* A publisher that ended well saw, or started, a run with its own hash.
LEMMA PublishServed ==
  ASSUME PublisherIInv, NEW w \in Workers, Publish(w)
  PROVE  Served'
<1>1. PublisherTypeOK /\ Served
  BY DEF PublisherIInv
<1>2. Kept
  BY PublishKeeps
<1> DEFINE Had(v) == \E i \in 1 .. Len(runs) : runs[i].hash = HashOf[v]
<1> SUFFICES ASSUME NEW v \in Workers, stage'[v] \in Ready
             PROVE  Had(v)'
  BY DEF Served
<1>3. Had(v) => Had(v)'
  BY <1>2 DEF Kept
<1>4. CASE v # w
  BY <1>1, <1>3, <1>4, PublishStage DEF Served
<1>5. CASE v = w /\ Start(w)
  <2>1. Grown /\ runs'[Len(runs')].hash = HashOf[w]
    BY <1>1, <1>5, StartRunKeeps DEF Start
  <2> QED BY <1>2, <1>5, <2>1 DEF Grown, Kept
<1>6. CASE v = w /\ (Describe(w) \/ Redescribe(w))
  <2>1. Had(w)
    BY <1>1, <1>6 DEF PublisherTypeOK, Describe, Redescribe, Retry, Goto, Open, Ready
  <2> QED BY <1>3, <1>6, <2>1
<1>7. v = w => Start(w) \/ Describe(w) \/ Redescribe(w)
  BY <1>1 DEF PublisherTypeOK, Publish, Run, Describe, DescribeFails, Terminate, TerminateFails, Start,
         StartConflicts, StartFails, Redescribe, RedescribeFails, Backoff, Execute, Retry, Goto,
         Ready
<1> QED BY <1>4, <1>5, <1>6, <1>7

\* A run that is closed was closed by a publisher with other code.
LEMMA PublishClosers ==
  ASSUME PublisherIInv, NEW w \in Workers, Publish(w)
  PROVE  Closers'
<1>1. PublisherTypeOK /\ FoundAnother /\ Closers
  BY DEF PublisherIInv
<1>2. Kept /\ (Len(runs') = Len(runs) \/ Grown)
  BY PublishKeeps
<1>3. \A v \in Workers : stage[v] # "idle" => stage'[v] # "idle"
  BY <1>1, PublishStage
<1> SUFFICES ASSUME NEW i \in 1 .. Len(runs'), ~runs'[i].open
             PROVE  \E v \in Workers : HashOf[v] # runs'[i].hash /\ stage'[v] # "idle"
  BY DEF Closers
<1>4. i \in 1 .. Len(runs) /\ runs'[i].hash = runs[i].hash
  BY <1>2 DEF Kept, Grown
<1>5. CASE ~runs[i].open
  BY <1>1, <1>3, <1>4, <1>5 DEF Closers
<1>6. CASE runs[i].open
  <2>1. stage[w] = "terminate" /\ CloseRun(found[w])
    <3>1. ~UNCHANGED runs
      BY <1>6
    <3>2. ~StartRun(w)
      BY <1>1, <1>4, <1>6, StartRunKeeps DEF Grown
    <3> QED BY <1>1, <3>1, <3>2, PublishRuns
  <2>2. found[w] \in 1 .. Len(runs) /\ runs[found[w]].hash # HashOf[w]
    BY <1>1, <2>1 DEF FoundAnother
  <2>3. i = found[w]
    BY <1>1, <1>4, <1>6, <2>1, <2>2, CloseRunKeeps
  <2> QED BY <1>1, <1>4, <2>2, <2>3, PublishStage
<1> QED BY <1>5, <1>6

\* An abort of the worker's signal touches nothing the invariant speaks of.
LEMMA AbortKeepsInvariant ==
  ASSUME PublisherIInv, NEW w \in Workers, AbortPublisher(w)
  PROVE  PublisherIInv'
<1>1. PublisherTypeOK'
  BY DEF PublisherIInv, PublisherTypeOK, AbortPublisher
<1>2. (WithinBudget /\ OneOpen /\ FoundAnother /\ Served /\ Closers)'
  BY DEF PublisherIInv, AbortPublisher, WithinBudget, OneOpen, FoundAnother, Served, Closers
<1> QED BY <1>1, <1>2 DEF PublisherIInv

\* The inductive invariant holds of every behaviour, for any workers, hashes and budget.
THEOREM PublisherInvariance == PublisherSpec => []PublisherIInv
<1>1. PublisherIInv /\ [PublisherNext]_publisherVars => PublisherIInv'
  <2> SUFFICES ASSUME PublisherIInv, [PublisherNext]_publisherVars PROVE PublisherIInv'
    OBVIOUS
  <2>1. ASSUME NEW w \in Workers, Publish(w) PROVE PublisherIInv'
    BY <2>1, PublishTypes, PublishOneOpen, PublishFoundAnother, PublishServed, PublishClosers
       DEF PublisherIInv
  <2>2. ASSUME NEW w \in Workers, AbortPublisher(w) PROVE PublisherIInv'
    BY <2>2, AbortKeepsInvariant
  <2>3. CASE UNCHANGED publisherVars
    BY <2>3 DEF publisherVars, PublisherIInv, PublisherTypeOK, WithinBudget, OneOpen, FoundAnother, Served, Closers
  <2> QED BY <2>1, <2>2, <2>3 DEF PublisherNext, Finished
<1> QED BY <1>1, PublisherInitInvariant, PTL DEF PublisherSpec

\* A publisher that ended well has its catalog open still, or another worker with other
\* code has begun to publish: no worker serves against a catalog nobody replaced.
THEOREM ServesItsOwn == PublisherSpec => []NeverServesOutdated
<1>1. PublisherIInv => NeverServesOutdated
  BY DEF PublisherIInv, Served, Closers, NeverServesOutdated
<1> QED BY <1>1, PublisherInvariance, PTL

\* No publisher ends a run of its own code: what it terminates is pinned to the run it
\* found, and that run has another hash for good.
THEOREM KillsAnothersOnly == PublisherSpec => NeverKillsItsOwn
<1>1. ASSUME PublisherIInv, [PublisherNext]_publisherVars, NEW w \in Workers, Closes(w)
      PROVE  UNCHANGED stage[w]
  <2>1. PublisherTypeOK /\ FoundAnother
    BY <1>1 DEF PublisherIInv
  <2>2. PICK i \in 1 .. Len(runs) : runs[i].open /\ ~runs'[i].open /\ runs[i].hash = HashOf[w]
    BY <1>1 DEF Closes
  <2>3. PICK v \in Workers : Publish(v)
    BY <1>1, <2>2 DEF PublisherNext, Finished, AbortPublisher, publisherVars
  <2>4. stage[v] = "terminate" /\ CloseRun(found[v])
    <3>1. ~StartRun(v)
      BY <2>1, <2>2, StartRunKeeps DEF Grown
    <3> QED BY <2>1, <2>2, <2>3, <3>1, PublishRuns
  <2>5. found[v] \in 1 .. Len(runs) /\ runs[found[v]].hash # HashOf[v]
    BY <2>1, <2>4 DEF FoundAnother
  <2>6. i = found[v]
    BY <2>1, <2>2, <2>4, <2>5, CloseRunKeeps
  <2> QED BY <2>1, <2>2, <2>3, <2>5, <2>6, PublishStage
<1>2. ASSUME PublisherIInv, [PublisherNext]_publisherVars
      PROVE  [\A w \in Workers : Closes(w) => UNCHANGED stage[w]]_publisherVars
  BY <1>1, <1>2
<1> QED BY <1>2, PublisherInvariance, PTL DEF PublisherSpec, NeverKillsItsOwn

-----------------------------------------------------------------------------
(***************************************************************************)
(* Proofs about WorkerLifecycle, for any hooks and any failure budget of   *)
(* the monitor: the process takes itself down in order, exit code 0 hides  *)
(* no failure, and a worker that was asked to stop begins no work.         *)
(*                                                                         *)
(* The heart of it is Racing.  While execute() awaits the race, a worker   *)
(* can only have ended before the abort: an abort makes the monitor's loop *)
(* return at once, so the race is over before a drain can be.  Hence a     *)
(* worker whose drain failed is always seen by shutdownServices, and its   *)
(* failure counted.                                                        *)
(***************************************************************************)

Ending == {"close", "report", "flush", "bye"}

(* The monitor gives up at MaxFailures and not later. *)
Budget ==
  /\ monitor = "none" => failures = 0
  /\ Watching => failures < MaxFailures

(* Where the worker can be, by where execute() is. *)
WorkerInStep ==
  /\ pc \in Setup => worker = "none" /\ monitor = "none"
  /\ pc \in {"await_worker"} \cup Ending => Aborted
  /\ pc \in Ending => ~WorkerOn
  /\ worker = "running" => ~Aborted
  /\ worker = "draining" => Aborted

Racing ==
  pc = "racing" =>
    /\ monitor # "none" /\ worker \notin {"none", "created"}
    /\ worker \in {"stopped", "crashed"} => ~Aborted

(* Who closed the connection, and when. *)
ConnectionInStep ==
  /\ connection \in {"closed", "refused", "broken"} => pc \in {"report", "flush", "bye"}
  /\ connection = "refused" => worker = "created"

(* What the exit code will be taken from. *)
FailureKept ==
  /\ pc \in Ending /\ worker = "crashed" => reason # "kill" \/ "worker" \in stopErrors
  /\ pc \in {"flush", "bye"} => hasError = (reason # "kill")

(* The onError call is made before the snapshot and awaited with it. *)
OnErrorInStep ==
  /\ pc \notin {"flush", "bye"} => hook[OnError] = "idle"
  /\ pc = "flush" /\ hook[OnError] # "idle" => OnError \in snapshot
  /\ pc = "bye" /\ hook[OnError] # "idle" => hook[OnError] = "settled" \/ flushed = "timeout"
  /\ exit.by = "finally" => pc = "bye"

IInv ==
  /\ TypeOK /\ Budget /\ WorkerInStep /\ Racing
  /\ ConnectionInStep /\ FailureKept /\ OnErrorInStep /\ ZeroMeansDrained

(* Nothing has begun. *)
LEMMA InitInvariant == Init => IInv
<1> SUFFICES ASSUME Init PROVE IInv
    OBVIOUS
<1>1. TypeOK
  <2>1. failures \in 0 .. MaxFailures
    BY MaxFailuresAssumption DEF Init
  <2> QED BY <2>1 DEF Init, TypeOK, Setup, Reasons
<1>2. Budget
  BY MaxFailuresAssumption DEF Init, Budget, Watching
<1>3. WorkerInStep /\ Racing
  BY DEF Init, WorkerInStep, Racing, Ending, WorkerOn, Aborted, Setup
<1>4. ConnectionInStep /\ FailureKept
  BY DEF Init, ConnectionInStep, FailureKept, Ending
<1>5. OnErrorInStep /\ ZeroMeansDrained
  BY DEF Init, OnErrorInStep, Calls, ZeroMeansDrained
<1> QED BY <1>1, <1>2, <1>3, <1>4, <1>5 DEF IInv

(* A conjunct stays true when what it speaks of stays the same. *)
LEMMA Stays ==
  ASSUME IInv
  PROVE  /\ UNCHANGED <<monitor, failures>> => Budget'
         /\ UNCHANGED <<pc, reason, worker, monitor>> => WorkerInStep' /\ Racing'
         /\ UNCHANGED <<connection, pc, worker>> => ConnectionInStep'
         /\ UNCHANGED <<pc, worker, reason, stopErrors, hasError>> => FailureKept'
         /\ UNCHANGED <<pc, hook, snapshot, flushed, exit>> => OnErrorInStep'
         /\ UNCHANGED <<exit, reason, worker>> => ZeroMeansDrained'
<1>1. UNCHANGED <<monitor, failures>> => Budget'
  BY DEF IInv, Budget, Watching
<1>2. UNCHANGED <<pc, reason, worker, monitor>> => WorkerInStep' /\ Racing'
  BY DEF IInv, WorkerInStep, Racing, Aborted, WorkerOn
<1>3. UNCHANGED <<connection, pc, worker>> => ConnectionInStep'
  BY DEF IInv, ConnectionInStep
<1>4. UNCHANGED <<pc, worker, reason, stopErrors, hasError>> => FailureKept'
  BY DEF IInv, FailureKept
<1>5. UNCHANGED <<pc, hook, snapshot, flushed, exit>> => OnErrorInStep'
  BY DEF IInv, OnErrorInStep
<1>6. UNCHANGED <<exit, reason, worker>> => ZeroMeansDrained'
  BY DEF IInv, ZeroMeansDrained
<1> QED BY <1>1, <1>2, <1>3, <1>4, <1>5, <1>6

(***************************************************************************)
(* One lemma per action: what it leaves alone stays, and each conjunct it  *)
(* can disturb is kept for a reason of its own.                            *)
(***************************************************************************)
(* A worker created after the abort never runs, and the shutdown has nothing to await. *)
LEMMA SetupStepKeeps ==
  ASSUME IInv, SetupStep
  PROVE  IInv'
<1>1. TypeOK'
  BY DEF IInv, SetupStep, TypeOK, signals, ending, Setup, BeginShutdown, After
<1>2. Budget'
  BY MaxFailuresAssumption DEF IInv, SetupStep, Budget, WorkerInStep
<1>3. WorkerInStep'
  BY DEF IInv, SetupStep, WorkerInStep, Setup, After, Ending, BeginShutdown, Aborted,
         WorkerOn
<1>4. Racing'
  BY DEF IInv, SetupStep, Racing, BeginShutdown, Setup, After
<1>5. ConnectionInStep'
  BY DEF IInv, SetupStep, ConnectionInStep, Setup
<1>6. FailureKept'
  BY DEF IInv, SetupStep, FailureKept, Setup, After, WorkerInStep, BeginShutdown
<1>7. OnErrorInStep'
  BY DEF IInv, SetupStep, OnErrorInStep, ending, Setup
<1>8. ZeroMeansDrained'
  BY DEF IInv, SetupStep, ZeroMeansDrained, ending, Aborted
<1> QED BY <1>1, <1>2, <1>3, <1>4, <1>5, <1>6, <1>7, <1>8 DEF IInv

(* A setup that fails goes to the finally clause, aborted. *)
LEMMA SetupFailsKeeps ==
  ASSUME IInv, SetupFails
  PROVE  IInv'
<1>1. TypeOK'
  BY DEF IInv, SetupFails, TypeOK, signals, ending, Abort, BeginShutdown, Reasons
<1>2. WorkerInStep'
  BY DEF IInv, SetupFails, WorkerInStep, Aborted, WorkerOn, Abort
<1>3. Racing'
  BY DEF IInv, SetupFails, Racing, BeginShutdown
<1>4. ConnectionInStep'
  BY DEF IInv, SetupFails, ConnectionInStep, Setup
<1>5. FailureKept'
  BY DEF IInv, SetupFails, FailureKept, Abort, BeginShutdown, WorkerInStep
<1>6. OnErrorInStep'
  BY DEF IInv, SetupFails, OnErrorInStep, ending, Setup
<1>7. ZeroMeansDrained'
  BY DEF IInv, SetupFails, ZeroMeansDrained, ending, Abort, Aborted
<1>8. Budget'
  BY Stays DEF SetupFails, signals, ending
<1> QED BY <1>1, <1>2, <1>3, <1>4, <1>5, <1>6, <1>7, <1>8 DEF IInv

(* The first signal: an abort for a kill, unless there was a reason already. *)
LEMMA FirstSignalKeeps ==
  ASSUME IInv, FirstSignal
  PROVE  IInv'
<1>1. TypeOK'
  BY DEF IInv, FirstSignal, TypeOK, ending, Abort, Reasons
<1>2. WorkerInStep'
  BY DEF IInv, FirstSignal, WorkerInStep, Aborted, WorkerOn, Abort
<1>3. Racing'
  BY DEF IInv, FirstSignal, Racing, Quiet, RaceOver, Abort
<1>4. ConnectionInStep'
  BY DEF IInv, FirstSignal, ConnectionInStep, Abort
<1>5. FailureKept'
  BY DEF IInv, FirstSignal, FailureKept, ending, WorkerInStep, Ending, Abort
<1>6. ZeroMeansDrained'
  BY DEF IInv, FirstSignal, ZeroMeansDrained, ending, Abort
<1>7. Budget' /\ OnErrorInStep'
  BY Stays DEF FirstSignal, signals, ending
<1> QED BY <1>1, <1>2, <1>3, <1>4, <1>5, <1>6, <1>7 DEF IInv

(* Once a second has passed, a further signal is no echo. *)
LEMMA SecondPassesKeeps ==
  ASSUME IInv, SecondPasses
  PROVE  IInv'
<1>1. TypeOK'
  BY DEF IInv, SecondPasses, TypeOK, ending
<1>2. /\ Budget' /\ WorkerInStep' /\ Racing' /\ ConnectionInStep'
      /\ FailureKept' /\ OnErrorInStep' /\ ZeroMeansDrained'
  BY Stays DEF SecondPasses, signals, ending
<1> QED BY <1>1, <1>2 DEF IInv

(* A forced quit ends the process where it stands. *)
LEMMA ForcedQuitKeeps ==
  ASSUME IInv, ForcedQuit
  PROVE  IInv'
<1>1. TypeOK'
  BY DEF IInv, ForcedQuit, TypeOK, signals
<1>2. OnErrorInStep'
  BY DEF IInv, ForcedQuit, OnErrorInStep
<1>3. ZeroMeansDrained'
  BY DEF IInv, ForcedQuit, ZeroMeansDrained
<1>4. Budget' /\ WorkerInStep' /\ Racing' /\ ConnectionInStep' /\ FailureKept'
  BY Stays DEF ForcedQuit, signals, ending
<1> QED BY <1>1, <1>2, <1>3, <1>4 DEF IInv

(* An uncaught error aborts, and starts the watchdog. *)
LEMMA UncaughtKeeps ==
  ASSUME IInv, Uncaught
  PROVE  IInv'
<1>1. TypeOK'
  BY DEF IInv, Uncaught, TypeOK, ending, Abort, Reasons
<1>2. WorkerInStep'
  BY DEF IInv, Uncaught, WorkerInStep, Aborted, WorkerOn, Abort
<1>3. Racing'
  BY DEF IInv, Uncaught, Racing, Quiet, RaceOver, Abort
<1>4. ConnectionInStep'
  BY DEF IInv, Uncaught, ConnectionInStep, Abort
<1>5. FailureKept'
  BY DEF IInv, Uncaught, FailureKept, ending, Abort, Aborted
<1>6. ZeroMeansDrained'
  BY DEF IInv, Uncaught, ZeroMeansDrained, ending, Abort, Aborted
<1>7. Budget' /\ OnErrorInStep'
  BY Stays DEF Uncaught, signals, ending
<1> QED BY <1>1, <1>2, <1>3, <1>4, <1>5, <1>6, <1>7 DEF IInv

(* The watchdog ends the process where it stands. *)
LEMMA WatchdogKeeps ==
  ASSUME IInv, Watchdog
  PROVE  IInv'
<1>1. TypeOK'
  BY DEF IInv, Watchdog, TypeOK, signals
<1>2. OnErrorInStep'
  BY DEF IInv, Watchdog, OnErrorInStep
<1>3. ZeroMeansDrained'
  BY DEF IInv, Watchdog, ZeroMeansDrained
<1>4. Budget' /\ WorkerInStep' /\ Racing' /\ ConnectionInStep' /\ FailureKept'
  BY Stays DEF Watchdog, signals, ending
<1> QED BY <1>1, <1>2, <1>3, <1>4 DEF IInv

(* A worker that runs was not aborted, so its crash is not taken for a drain. *)
LEMMA WorkerCrashesKeeps ==
  ASSUME IInv, WorkerCrashes
  PROVE  IInv'
<1>1. TypeOK'
  BY DEF IInv, WorkerCrashes, TypeOK, signals, ending
<1>2. WorkerInStep'
  BY DEF IInv, WorkerCrashes, WorkerInStep
<1>3. Racing'
  BY DEF IInv, WorkerCrashes, Racing, WorkerInStep, Aborted
<1>4. ConnectionInStep'
  BY DEF IInv, WorkerCrashes, ConnectionInStep
<1>5. FailureKept'
  BY DEF IInv, WorkerCrashes, FailureKept, WorkerInStep, Ending
<1>6. ZeroMeansDrained'
  BY DEF IInv, WorkerCrashes, ZeroMeansDrained, ending
<1>7. Budget' /\ OnErrorInStep'
  BY Stays DEF WorkerCrashes, signals, ending
<1> QED BY <1>1, <1>2, <1>3, <1>4, <1>5, <1>6, <1>7 DEF IInv

(* Not while the race is on: its monitor returned at the abort. *)
LEMMA DrainEndsKeeps ==
  ASSUME IInv, DrainEnds
  PROVE  IInv'
<1>1. TypeOK'
  BY DEF IInv, DrainEnds, TypeOK, signals, ending
<1>2. WorkerInStep'
  BY DEF IInv, DrainEnds, WorkerInStep, Aborted, WorkerOn
<1>3. Racing'
  BY DEF IInv, DrainEnds, Racing, WorkerInStep, Quiet, RaceOver, Watching, TypeOK
<1>4. ConnectionInStep'
  BY DEF IInv, DrainEnds, ConnectionInStep
<1>5. FailureKept'
  BY DEF IInv, DrainEnds, FailureKept, WorkerInStep, WorkerOn, Ending
<1>6. ZeroMeansDrained'
  BY DEF IInv, DrainEnds, ZeroMeansDrained, ending
<1>7. Budget' /\ OnErrorInStep'
  BY Stays DEF DrainEnds, signals, ending
<1> QED BY <1>1, <1>2, <1>3, <1>4, <1>5, <1>6, <1>7 DEF IInv

(* A good check sets the count back. *)
LEMMA CheckOkKeeps ==
  ASSUME IInv, CheckOk
  PROVE  IInv'
<1>1. TypeOK'
  BY MaxFailuresAssumption DEF IInv, CheckOk, TypeOK, signals, ending
<1>2. Budget'
  BY MaxFailuresAssumption DEF IInv, CheckOk, Budget
<1>3. WorkerInStep'
  BY DEF IInv, CheckOk, WorkerInStep, Aborted, WorkerOn
<1>4. Racing'
  BY DEF IInv, CheckOk, Racing, Aborted
<1>5. ConnectionInStep' /\ FailureKept' /\ OnErrorInStep' /\ ZeroMeansDrained'
  BY Stays DEF CheckOk, signals, ending
<1> QED BY <1>1, <1>2, <1>3, <1>4, <1>5 DEF IInv

(* A failed one adds to it, and the last aborts. *)
LEMMA CheckFailsKeeps ==
  ASSUME IInv, CheckFails
  PROVE  IInv'
<1>1. TypeOK'
  BY MaxFailuresAssumption DEF IInv, CheckFails, TypeOK, signals, ending, Budget, Watching
<1>2. Budget'
  BY MaxFailuresAssumption DEF IInv, CheckFails, Budget, Watching
<1>3. WorkerInStep'
  BY DEF IInv, CheckFails, WorkerInStep, Aborted, WorkerOn
<1>4. Racing'
  BY DEF IInv, CheckFails, Racing, Aborted
<1>5. ConnectionInStep' /\ FailureKept' /\ OnErrorInStep' /\ ZeroMeansDrained'
  BY Stays DEF CheckFails, signals, ending
<1> QED BY <1>1, <1>2, <1>3, <1>4, <1>5 DEF IInv

(* The monitor sleeps between two checks. *)
LEMMA NextCheckKeeps ==
  ASSUME IInv, NextCheck
  PROVE  IInv'
<1>1. TypeOK'
  BY DEF IInv, NextCheck, TypeOK, signals, ending
<1>2. Budget'
  BY DEF IInv, NextCheck, Budget, Watching
<1>3. WorkerInStep'
  BY DEF IInv, NextCheck, WorkerInStep, Aborted, WorkerOn
<1>4. Racing'
  BY DEF IInv, NextCheck, Racing, Aborted
<1>5. ConnectionInStep' /\ FailureKept' /\ OnErrorInStep' /\ ZeroMeansDrained'
  BY Stays DEF NextCheck, signals, ending
<1> QED BY <1>1, <1>2, <1>3, <1>4, <1>5 DEF IInv

(* An aborted monitor's loop returns. *)
LEMMA MonitorStopsKeeps ==
  ASSUME IInv, MonitorStops
  PROVE  IInv'
<1>1. TypeOK'
  BY DEF IInv, MonitorStops, TypeOK, signals, ending
<1>2. Budget'
  BY DEF IInv, MonitorStops, Budget
<1>3. WorkerInStep'
  BY DEF IInv, MonitorStops, WorkerInStep, Watching, Aborted, WorkerOn
<1>4. Racing'
  BY DEF IInv, MonitorStops, Racing
<1>5. ConnectionInStep' /\ FailureKept' /\ OnErrorInStep' /\ ZeroMeansDrained'
  BY Stays DEF MonitorStops, signals, ending
<1> QED BY <1>1, <1>2, <1>3, <1>4, <1>5 DEF IInv

(* Whoever won the race: a worker that failed in it did so before any abort, and the
   reason is then "failed"; one that drains is awaited. *)
LEMMA UnwindKeeps ==
  ASSUME IInv, Unwind
  PROVE  IInv'
<1>1. TypeOK'
  BY DEF IInv, Unwind, TypeOK, signals, ending, Abort, BeginShutdown, Reasons
<1>2. WorkerInStep'
  BY DEF IInv, Unwind, WorkerInStep, Abort, Aborted, BeginShutdown, Ending, WorkerOn, Setup
<1>3. Racing'
  BY DEF IInv, Unwind, Racing, BeginShutdown
<1>4. ConnectionInStep'
  BY DEF IInv, Unwind, ConnectionInStep, RaceOver
<1>5. FailureKept'
  BY DEF IInv, Unwind, FailureKept, Abort, BeginShutdown, RaceOver, Racing
<1>6. OnErrorInStep'
  BY DEF IInv, Unwind, OnErrorInStep, ending, RaceOver
<1>7. ZeroMeansDrained'
  BY DEF IInv, Unwind, ZeroMeansDrained, ending, Abort, Aborted
<1>8. Budget'
  BY Stays DEF Unwind, signals, ending
<1> QED BY <1>1, <1>2, <1>3, <1>4, <1>5, <1>6, <1>7, <1>8 DEF IInv

(* A drain that failed is counted here. *)
LEMMA WorkerStoppedKeeps ==
  ASSUME IInv, WorkerStopped
  PROVE  IInv'
<1>1. TypeOK'
  BY DEF IInv, WorkerStopped, TypeOK, signals, ending
<1>2. WorkerInStep'
  BY DEF IInv, WorkerStopped, WorkerInStep, Setup, Aborted, WorkerOn
<1>3. Racing'
  BY DEF IInv, WorkerStopped, Racing
<1>4. ConnectionInStep'
  BY DEF IInv, WorkerStopped, ConnectionInStep
<1>5. FailureKept'
  BY DEF IInv, WorkerStopped, FailureKept
<1>6. OnErrorInStep'
  BY DEF IInv, WorkerStopped, OnErrorInStep, ending
<1>7. Budget' /\ ZeroMeansDrained'
  BY Stays DEF WorkerStopped, signals, ending
<1> QED BY <1>1, <1>2, <1>3, <1>4, <1>5, <1>6, <1>7 DEF IInv

(* The connection is closed after the worker, or refused. *)
LEMMA CloseConnectionKeeps ==
  ASSUME IInv, CloseConnection
  PROVE  IInv'
<1>1. TypeOK'
  <2>1. connection' \in {"none", "open", "closed", "refused", "broken"}
    BY DEF CloseConnection, IInv, TypeOK
  <2>2. stopErrors' \subseteq {"worker", "connection"}
    <3>1. stopErrors' = stopErrors \/ stopErrors' = stopErrors \cup {"connection"}
      BY DEF CloseConnection
    <3> QED BY <3>1 DEF IInv, TypeOK
  <2>3. pc' = "report" /\ UNCHANGED <<reason, worker, monitor, failures, hook, signals, ending>>
    BY DEF CloseConnection
  <2> QED BY <2>1, <2>2, <2>3 DEF IInv, TypeOK, signals, ending
<1>2. WorkerInStep'
  BY DEF IInv, CloseConnection, WorkerInStep, Ending, Aborted, WorkerOn, Setup
<1>3. Racing'
  BY DEF IInv, CloseConnection, Racing
<1>4. ConnectionInStep'
  BY DEF IInv, CloseConnection, ConnectionInStep, WorkerInStep, Ending, WorkerOn
<1>5. FailureKept'
  BY DEF IInv, CloseConnection, FailureKept, Ending
<1>6. OnErrorInStep'
  BY DEF IInv, CloseConnection, OnErrorInStep, ending
<1>7. Budget' /\ ZeroMeansDrained'
  BY Stays DEF CloseConnection, signals, ending
<1> QED BY <1>1, <1>2, <1>3, <1>4, <1>5, <1>6, <1>7 DEF IInv

(* The onError call is in the snapshot. *)
LEMMA ReportKeeps ==
  ASSUME IInv, Report
  PROVE  IInv'
<1>1. TypeOK'
  BY DEF IInv, Report, TypeOK, signals, Calls
<1>2. WorkerInStep'
  BY DEF IInv, Report, WorkerInStep, Ending, Setup, Aborted, WorkerOn
<1>3. Racing'
  BY DEF IInv, Report, Racing
<1>4. ConnectionInStep'
  BY DEF IInv, Report, ConnectionInStep
<1>5. FailureKept'
  BY DEF IInv, Report, FailureKept, Ending
<1>6. OnErrorInStep'
  BY DEF IInv, Report, OnErrorInStep, Calls
<1>7. Budget' /\ ZeroMeansDrained'
  BY Stays DEF Report, signals, ending
<1> QED BY <1>1, <1>2, <1>3, <1>4, <1>5, <1>6, <1>7 DEF IInv

(* The flush ends with its snapshot settled, or by its timer. *)
LEMMA FlushEndsKeeps ==
  ASSUME IInv, FlushEnds
  PROVE  IInv'
<1>1. TypeOK'
  BY DEF IInv, FlushEnds, TypeOK, signals
<1>2. WorkerInStep'
  BY DEF IInv, FlushEnds, WorkerInStep, Ending, Setup, Aborted, WorkerOn
<1>3. Racing'
  BY DEF IInv, FlushEnds, Racing
<1>4. ConnectionInStep'
  BY DEF IInv, FlushEnds, ConnectionInStep
<1>5. FailureKept'
  BY DEF IInv, FlushEnds, FailureKept, Ending
<1>6. OnErrorInStep'
  BY DEF IInv, FlushEnds, OnErrorInStep
<1>7. Budget' /\ ZeroMeansDrained'
  BY Stays DEF FlushEnds, signals, ending
<1> QED BY <1>1, <1>2, <1>3, <1>4, <1>5, <1>6, <1>7 DEF IInv

(* Only now is a code given: 0 when no failure was counted and the reason was a signal. *)
LEMMA ByeKeeps ==
  ASSUME IInv, Bye
  PROVE  IInv'
<1>1. TypeOK'
  BY DEF IInv, Bye, TypeOK, signals, ExitCode
<1>2. OnErrorInStep'
  BY DEF IInv, Bye, OnErrorInStep
<1>3. ZeroMeansDrained'
  <2>1. pc = "bye" /\ exit' = [code |-> ExitCode, by |-> "finally"]
        /\ UNCHANGED <<reason, worker>>
    BY DEF Bye
  <2>2. ~WorkerOn /\ (worker = "crashed" => reason # "kill" \/ "worker" \in stopErrors)
        /\ worker \in {"none", "created", "running", "draining", "stopped", "crashed"}
    BY <2>1 DEF IInv, TypeOK, WorkerInStep, FailureKept, Ending
  <2>3. reason # "kill" => hasError
    BY <2>1 DEF IInv, FailureKept
  <2>4. CASE "worker" \in stopErrors \/ hasError
    BY <2>1, <2>4 DEF ExitCode, ZeroMeansDrained
  <2>5. CASE "worker" \notin stopErrors /\ ~hasError
    BY <2>1, <2>2, <2>3, <2>5 DEF ZeroMeansDrained, WorkerOn
  <2> QED BY <2>4, <2>5
<1>4. Budget' /\ WorkerInStep' /\ Racing' /\ ConnectionInStep' /\ FailureKept'
  BY Stays DEF Bye, signals, ending
<1> QED BY <1>1, <1>2, <1>3, <1>4 DEF IInv

(* A hook is called by what may still run. *)
LEMMA HookCalledKeeps ==
  ASSUME IInv, NEW h \in Hooks, HookCalled(h)
  PROVE  IInv'
<1>1. TypeOK'
  BY DEF IInv, HookCalled, TypeOK, signals, ending, Calls
<1>2. OnErrorInStep'
  BY HooksAssumption DEF IInv, HookCalled, OnErrorInStep, ending
<1>3. /\ Budget' /\ WorkerInStep' /\ Racing'
      /\ ConnectionInStep' /\ FailureKept' /\ ZeroMeansDrained'
  BY Stays DEF HookCalled, signals, ending
<1> QED BY <1>1, <1>2, <1>3 DEF IInv

(* It settles, before the flush or after. *)
LEMMA HookSettlesKeeps ==
  ASSUME IInv, NEW h \in Calls, HookSettles(h)
  PROVE  IInv'
<1>1. TypeOK'
  BY DEF IInv, HookSettles, TypeOK, signals, ending
<1>2. OnErrorInStep'
  BY DEF IInv, HookSettles, OnErrorInStep, ending
<1>3. /\ Budget' /\ WorkerInStep' /\ Racing'
      /\ ConnectionInStep' /\ FailureKept' /\ ZeroMeansDrained'
  BY Stays DEF HookSettles, signals, ending
<1> QED BY <1>1, <1>2, <1>3 DEF IInv

(* The invariant is inductive. *)
LEMMA NextInvariant == IInv /\ [Next]_vars => IInv'
<1> SUFFICES ASSUME IInv, [Next]_vars PROVE IInv'
    OBVIOUS
<1>1. CASE EchoedSignal \/ Exited \/ UNCHANGED vars
  <2>1. UNCHANGED vars
    BY <1>1 DEF EchoedSignal, Exited
  <2>2. TypeOK'
    BY <2>1 DEF IInv, TypeOK, vars
  <2> QED BY <2>1, <2>2, Stays DEF IInv, vars
<1>2. ASSUME NEW h \in Hooks, HookCalled(h) PROVE IInv'
  BY <1>2, HookCalledKeeps
<1>3. ASSUME NEW h \in Calls, HookSettles(h) PROVE IInv'
  BY <1>3, HookSettlesKeeps
<1> QED
  BY <1>1, <1>2, <1>3,
     SetupStepKeeps, SetupFailsKeeps, FirstSignalKeeps, SecondPassesKeeps, ForcedQuitKeeps,
     UncaughtKeeps, WatchdogKeeps, WorkerCrashesKeeps, DrainEndsKeeps, CheckOkKeeps,
     CheckFailsKeeps, NextCheckKeeps, MonitorStopsKeeps, UnwindKeeps, WorkerStoppedKeeps,
     CloseConnectionKeeps, ReportKeeps, FlushEndsKeeps, ByeKeeps
     DEF Next

(* It holds of every worker process, however it is interrupted. *)
LEMMA Invariance == Spec => []IInv
BY InitInvariant, NextInvariant, PTL DEF Spec

(* For any hooks and any failure budget the process takes itself down in order: the
   connection is closed under no worker that polls or drains, and the onError hook is
   awaited or timed out (worker/shutdown.js, hooks/index.js). *)
THEOREM StopsInOrder == Spec => []ShutsDownInOrder
<1>1. IInv => ShutsDownInOrder
  <2> SUFFICES ASSUME IInv PROVE ShutsDownInOrder
      OBVIOUS
  <2>1. ConnectionOutlivesWorker
    BY DEF IInv, ConnectionInStep, WorkerInStep, Ending, ConnectionOutlivesWorker
  <2>2. OnErrorAwaited
    BY DEF IInv, OnErrorInStep, OnErrorAwaited
  <2> QED BY <2>1, <2>2 DEF IInv, ShutsDownInOrder
<1> QED BY <1>1, Invariance, PTL

(* Exit code 0 means that a signal asked for the shutdown and the worker, if it ever ran,
   drained (worker/index.js, the table of exit codes). *)
THEOREM ZeroHidesNothing == Spec => []ZeroMeansDrained
<1>1. IInv => ZeroMeansDrained
  BY DEF IInv
<1> QED BY <1>1, Invariance, PTL

(* A worker that was asked to stop never begins to take work (worker_runner.js). *)
THEOREM NoStart == Spec => NoStartOnceAborted
<1>1. [Next]_vars => (Aborted /\ worker' = "running" => worker = "running")
  <2> SUFFICES ASSUME [Next]_vars, Aborted, worker' = "running" PROVE worker = "running"
      OBVIOUS
  <2>1. CASE SetupStep
    BY <2>1 DEF SetupStep
  <2>2. CASE SetupFails \/ FirstSignal \/ Uncaught \/ Unwind
    BY <2>2 DEF SetupFails, FirstSignal, Uncaught, Unwind, Abort
  <2>3. CASE WorkerCrashes \/ DrainEnds
    BY <2>3 DEF WorkerCrashes, DrainEnds
  <2> QED BY <2>1, <2>2, <2>3 DEF Next, EchoedSignal, SecondPasses, ForcedQuit, Watchdog,
        CheckOk, CheckFails, NextCheck, HookCalled, HookSettles, MonitorStops,
        WorkerStopped, CloseConnection, Report, FlushEnds, Bye, Exited, vars
<1>2. [Next]_vars => [Aborted /\ worker' = "running" => worker = "running"]_vars
  BY <1>1
<1> QED BY <1>2, PTL DEF Spec, NoStartOnceAborted

-----------------------------------------------------------------------------
(***************************************************************************)
(* What TraceUpload deletes from Redis and what its file shows, proved for *)
(* any spans, any parents and any number of deliveries of the root's END:  *)
(* an upload that is about to delete has put what it read in the file, no  *)
(* later upload takes anything back from what was shown, and the tree of   *)
(* what was read with the START of the workflow has every span that hangs  *)
(* from what is in it, and the workflow on top unless an attempt was ended *)
(* by a clock that is behind.                                              *)
(***************************************************************************)
\* Each delivery has its own place in exec() and its own read.
OwnPlaces ==
  /\ job = [k \in Ends |-> job[k]]
  /\ content = [k \in Ends |-> content[k]]

\* A delivery that is at bustEntries has been through the upload of what it read.
ShownBeforeBusted == \A k \in Ends : job[k] = "busting" => content[k] \subseteq shown

UploadIInv == OwnPlaces /\ ShownBeforeBusted
-----------------------------------------------------------------------------
(* No delivery has begun. *)
LEMMA UploadInitInvariant == TraceInit => UploadIInv
BY DEF TraceInit, UploadIInv, OwnPlaces, ShownBeforeBusted

(* The emitters bring a delivery into its exec(), never to a delete. *)
LEMMA EmittersKeep ==
  ASSUME UploadIInv, (\E s \in Spans : SpanStarts(s) \/ SpanEnds(s)) \/ RootEnds
  PROVE  UploadIInv'
<1>1. CASE \E s \in Spans : SpanStarts(s) \/ SpanEnds(s)
  BY <1>1 DEF SpanStarts, SpanEnds, UploadIInv, OwnPlaces, ShownBeforeBusted
<1>2. CASE RootEnds
  BY <1>2 DEF RootEnds, UploadIInv, OwnPlaces, ShownBeforeBusted
<1> QED BY <1>1, <1>2

(* An entry that lands moves its own delivery to the wait for stragglers. *)
LEMMA LandKeeps == ASSUME UploadIInv, NEW e \in inflight, Land(e) PROVE UploadIInv'
<1>1. content' = content /\ shown' = shown
  BY DEF Land
<1>2. job' = job \/ job' = [job EXCEPT ![Delivery(e)] = "waiting"]
  BY DEF Land
<1> QED BY <1>1, <1>2 DEF UploadIInv, OwnPlaces, ShownBeforeBusted

(* A read comes before the upload, so it is never the read of a delete under way. *)
LEMMA ReadKeeps == ASSUME UploadIInv, NEW k \in Ends, Read(k) PROVE UploadIInv'
<1> DEFINE next == IF BuildTree(redis) = NoTree THEN "over" ELSE "uploading"
<1>1. /\ job' = [job EXCEPT ![k] = next]
      /\ content' = [content EXCEPT ![k] = redis]
      /\ shown' = shown
  BY DEF Read
<1>2. next # "busting"
  OBVIOUS
<1> HIDE DEF next
<1> QED BY <1>1, <1>2 DEF UploadIInv, OwnPlaces, ShownBeforeBusted

(* The upload shows what was read; what others have shown stays shown. *)
LEMMA UploadKeeps == ASSUME UploadIInv, NEW k \in Ends, Upload(k) PROVE UploadIInv'
BY DEF Upload, UploadIInv, OwnPlaces, ShownBeforeBusted

(* A delivery that is over, whether it deleted or gave up, deletes no more. *)
LEMMA OverKeeps == ASSUME UploadIInv, NEW k \in Ends, Bust(k) \/ Abandon(k) PROVE UploadIInv'
<1>1. /\ job' = [job EXCEPT ![k] = "over"]
      /\ content' = [content EXCEPT ![k] = {}]
      /\ shown' = shown
  BY DEF Bust, Abandon
<1> QED BY <1>1 DEF UploadIInv, OwnPlaces, ShownBeforeBusted

(* The invariant is inductive. *)
LEMMA UploadNextInvariant == UploadIInv /\ [TraceNext]_traceVars => UploadIInv'
<1> SUFFICES ASSUME UploadIInv, [TraceNext]_traceVars PROVE UploadIInv'
  OBVIOUS
<1>1. CASE Expire \/ UNCHANGED traceVars
  BY <1>1 DEF Expire, traceVars, UploadIInv, OwnPlaces, ShownBeforeBusted
<1> QED BY <1>1, EmittersKeep, LandKeeps, ReadKeeps, UploadKeeps, OverKeeps DEF TraceNext

(* However many deliveries of the root's END overlap, and whatever fails, exec() deletes
   what it read only after the file has shown it (processors/s3/index.js). *)
THEOREM DeletesTheShown == TraceSpec => DeletedOnlyWhenShown
<1>1. TraceSpec => []UploadIInv
  BY UploadInitInvariant, UploadNextInvariant, PTL DEF TraceSpec
<1>2. UploadIInv /\ [TraceNext]_traceVars =>
        [\A k \in Ends : job[k] = "busting" /\ job'[k] = "over" /\ redis' = {} =>
           content[k] \subseteq shown]_traceVars
  BY DEF UploadIInv, ShownBeforeBusted
<1> QED BY <1>1, <1>2, PTL DEF TraceSpec, DeletedOnlyWhenShown
-----------------------------------------------------------------------------
(***************************************************************************)
(* What is shown: the tree of what was read.                               *)
(***************************************************************************)
\* The START of the workflow is emitted first, whatever the stamps say.
StartIsFirst ==
  /\ IsFiniteSet(emitted)
  /\ RootStart \in emitted
  /\ \A e \in emitted : Order(e) >= 1 /\ (Order(e) = 1 => e = RootStart)

EmittedIInv == TraceTypeOK /\ StartIsFirst

LEMMA EmittedInit == TraceInit => EmittedIInv
<1> SUFFICES ASSUME TraceInit PROVE EmittedIInv
  OBVIOUS
<1>1. RootStart \in Entry /\ Order(RootStart) = 1
  BY ClockAssumption DEF RootStart, Entry, Ids, Stamp, Order
<1>2. TraceTypeOK
  BY <1>1 DEF TraceInit, TraceTypeOK, Phases, NoTree
<1>3. StartIsFirst
  BY <1>1, FS_Singleton DEF TraceInit, StartIsFirst
<1> QED BY <1>2, <1>3 DEF EmittedIInv

(* What an emitter adds is an entry, and not the first. *)
LEMMA EmitKeeps ==
  ASSUME EmittedIInv, NEW id \in Ids, NEW action \in {"start", "end"}, NEW h \in Hosts,
         Emit(id, action, h)
  PROVE  /\ emitted \subseteq emitted' /\ emitted' \subseteq Entry /\ inflight' \subseteq emitted'
         /\ StartIsFirst'
<1> DEFINE n == Cardinality(emitted) + 1
           e == [id |-> id, action |-> action, by |-> h, at |-> Stamp(n, h)]
<1>1. /\ IsFiniteSet(emitted) /\ emitted \subseteq Entry /\ inflight \subseteq emitted
      /\ RootStart \in emitted
      /\ \A x \in emitted : Order(x) >= 1 /\ (Order(x) = 1 => x = RootStart)
  BY DEF EmittedIInv, StartIsFirst, TraceTypeOK
<1>2. Cardinality(emitted) \in Nat \ {0}
  BY <1>1, FS_CardinalityType, FS_EmptySet
<1>3. n \in Nat /\ n > 1 /\ ClockOf[h] \in Int
  BY <1>2, ClockAssumption
<1>4. emitted' = emitted \cup {e} /\ inflight' = inflight \cup {e}
  BY DEF Emit
<1> HIDE DEF n
<1>5. e \in Entry /\ e.at - ClockOf[e.by] > 1
  BY <1>3 DEF Entry, Stamp
<1>6. Order(e) >= 1 /\ Order(e) # 1
  BY <1>3, <1>5 DEF Order, Stamp
<1> HIDE DEF e
<1>7. IsFiniteSet(emitted \cup {e})
  BY <1>1, FS_AddElement
<1> QED BY <1>1, <1>4, <1>5, <1>6, <1>7 DEF StartIsFirst, RootStart

LEMMA EmittersEmit ==
  ASSUME EmittedIInv, (\E s \in Spans : SpanStarts(s) \/ SpanEnds(s)) \/ RootEnds
  PROVE  EmittedIInv'
<1>1. \E id \in Ids, action \in {"start", "end"}, h \in Hosts : Emit(id, action, h)
  <2>1. CASE \E s \in Spans : SpanStarts(s)
    BY <2>1 DEF SpanStarts, Ids
  <2>2. CASE \E s \in Spans : SpanEnds(s)
    BY <2>2 DEF SpanEnds, Ids, EmittedIInv, TraceTypeOK, Entry
  <2>3. CASE RootEnds
    BY <2>3 DEF RootEnds, Ids
  <2> QED BY <2>1, <2>2, <2>3
<1>2. /\ emitted \subseteq emitted' /\ emitted' \subseteq Entry /\ inflight' \subseteq emitted'
      /\ StartIsFirst'
  BY <1>1, EmitKeeps
<1>3. /\ UNCHANGED <<redis, ttl, content, shown, file>>
      /\ job' \in [Ends -> Phases]
  BY DEF SpanStarts, SpanEnds, RootEnds, EmittedIInv, TraceTypeOK, Phases
<1>4. TraceTypeOK'
  BY <1>2, <1>3 DEF EmittedIInv, TraceTypeOK
<1> QED BY <1>2, <1>4 DEF EmittedIInv

(* The nodes of a tree are ids, whatever it is built from. *)
LEMMA NodesAreIds == ASSUME NEW entries PROVE BuildTree(entries).nodes \subseteq Ids
BY DEF BuildTree, NoTree

LEMMA EmittedNext == EmittedIInv /\ [TraceNext]_traceVars => EmittedIInv'
<1> SUFFICES ASSUME EmittedIInv, [TraceNext]_traceVars PROVE EmittedIInv'
  OBVIOUS
<1>1. ASSUME NEW e \in inflight, Land(e) PROVE EmittedIInv'
  <2>1. /\ emitted' = emitted /\ inflight' = inflight \ {e}
        /\ redis' = redis \cup {e} /\ ttl' = TRUE
        /\ UNCHANGED <<content, shown, file>>
    BY <1>1 DEF Land, AddEntry
  <2>2. job' \in [Ends -> Phases]
    BY <1>1 DEF Land, EmittedIInv, TraceTypeOK, Phases
  <2> QED BY <2>1, <2>2 DEF EmittedIInv, TraceTypeOK, StartIsFirst
<1>2. ASSUME NEW k \in Ends, Read(k) PROVE EmittedIInv'
  BY <1>2 DEF Read, EmittedIInv, TraceTypeOK, StartIsFirst, Phases
<1>3. ASSUME NEW k \in Ends, Upload(k) PROVE EmittedIInv'
  BY <1>3, NodesAreIds DEF Upload, EmittedIInv, TraceTypeOK, StartIsFirst, Phases
<1>4. ASSUME NEW k \in Ends, Bust(k) \/ Abandon(k) PROVE EmittedIInv'
  BY <1>4 DEF Bust, Abandon, EmittedIInv, TraceTypeOK, StartIsFirst, Phases
<1>5. CASE Expire \/ UNCHANGED traceVars
  BY <1>5 DEF Expire, traceVars, EmittedIInv, TraceTypeOK, StartIsFirst
<1> QED BY <1>1, <1>2, <1>3, <1>4, <1>5, EmittersEmit DEF TraceNext

(* A set of numbers that is not empty has a least one. *)
LEMMA LeastOf ==
  ASSUME NEW S \in SUBSET Nat, S # {}
  PROVE  \E m \in S : \A i \in S : m <= i
<1>1. PICK m \in S : \A i \in S : <<i, m>> \notin OpToRel(<, Nat)
  BY NatLessThanWellFounded, WFMin
<1>2. ASSUME NEW i \in S PROVE m <= i
  <2>1. i \in Nat /\ m \in Nat
    OBVIOUS
  <2>2. i < m => <<i, m>> \in OpToRel(<, Nat)
    BY <2>1 DEF OpToRel
  <2>3. ~(i < m)
    BY <1>1, <2>2, Zenon
  <2> QED BY <2>1, <2>3
<1> QED BY <1>2

(* The sorted set has a first entry: the one that fewest are stamped before. *)
LEMMA SomethingIsFirst ==
  ASSUME NEW T, IsFiniteSet(T), T \subseteq Entry, T # {}
  PROVE  \E e \in T : \A x \in T : ComesBefore(e, x)
<1> DEFINE Before(e) == {x \in T : x.at < e.at}
           ranks == {Cardinality(Before(e)) : e \in T}
<1>1. \A e \in T : IsFiniteSet(Before(e)) /\ Cardinality(Before(e)) \in Nat
  BY FS_Subset, FS_CardinalityType
<1>2. PICK r \in ranks : \A i \in ranks : r <= i
  <2>1. ranks \in SUBSET Nat /\ ranks # {}
    BY <1>1
  <2> HIDE DEF ranks
  <2> QED BY <2>1, LeastOf
<1>3. PICK e \in T : r = Cardinality(Before(e))
  OBVIOUS
<1>4. ASSUME NEW x \in T PROVE e.at <= x.at
  <2>0. e.at \in Int /\ x.at \in Int
    BY DEF Entry
  <2>1. SUFFICES ASSUME x.at < e.at PROVE FALSE
    BY <2>0
  <2>2. Before(x) \subseteq Before(e) /\ x \in Before(e) /\ x \notin Before(x)
    BY <2>0, <2>1 DEF Entry
  <2>3. Cardinality(Before(x)) <= Cardinality(Before(e)) /\ Cardinality(Before(x)) # Cardinality(Before(e))
    BY <1>1, <2>2, FS_Subset
  <2>4. Cardinality(Before(e)) <= Cardinality(Before(x))
    BY <1>2, <1>3
  <2>5. Cardinality(Before(e)) \in Nat /\ Cardinality(Before(x)) \in Nat
    BY <1>1
  <2> QED BY <2>3, <2>4, <2>5
<1> HIDE DEF Before, ranks
<1>5. \A x \in T : e.at \in Int /\ x.at \in Int
  BY DEF Entry
<1>6. CASE \E y \in T : y.at = e.at /\ y.action = "end"
  BY <1>4, <1>5, <1>6 DEF ComesBefore
<1>7. CASE ~\E y \in T : y.at = e.at /\ y.action = "end"
  BY <1>4, <1>5, <1>7 DEF ComesBefore
<1> QED BY <1>6, <1>7

(* An entry is found where there is one without a parent. *)
LEMMA FirstIsThere ==
  ASSUME EmittedIInv, NEW entries \in SUBSET emitted, Complete(entries)
  PROVE  LET first == FirstParentless(entries)
         IN  /\ first \in entries /\ Parentless(first)
             /\ \A x \in entries : Parentless(x) => ComesBefore(first, x)
<1> DEFINE T == {e \in entries : Parentless(e)}
<1>1. RootStart \in T
  BY DEF Complete, Parentless, RootStart
<1>2. IsFiniteSet(T) /\ T \subseteq Entry
  BY FS_Subset DEF EmittedIInv, TraceTypeOK, StartIsFirst
<1>3. \E e \in T : \A x \in T : ComesBefore(e, x)
  BY <1>1, <1>2, SomethingIsFirst
<1>4. \E e \in entries : Parentless(e) /\ \A x \in entries : Parentless(x) => ComesBefore(e, x)
  BY <1>3
<1> QED BY <1>4 DEF FirstParentless

(* It is an entry of the workflow, where nobody behind its clock has ended an attempt. *)
LEMMA WorkflowOnTop ==
  ASSUME EmittedIInv, NEW entries \in SUBSET emitted, Complete(entries), NobodyBehind(entries)
  PROVE  FirstParentless(entries).id = Root
<1> DEFINE first == FirstParentless(entries)
<1>1. /\ first \in entries /\ Parentless(first)
      /\ \A x \in entries : Parentless(x) => ComesBefore(first, x)
  BY FirstIsThere
<1> HIDE DEF first
<1>2. RootStart \in entries /\ Parentless(RootStart)
  BY DEF Complete, Parentless, RootStart
<1>3. /\ first.at \in Int /\ first.by \in Hosts /\ ClockOf[first.by] \in Int
      /\ ClockOf[Starter] \in Int
      /\ RootStart.at = 1 + ClockOf[Starter]
  BY <1>1, ClockAssumption DEF EmittedIInv, TraceTypeOK, Entry, RootStart, Stamp
<1>4. first.at <= RootStart.at
  BY <1>1, <1>2, <1>3 DEF ComesBefore
<1>5. SUFFICES ASSUME first.id # Root PROVE FALSE
  BY DEF first
<1>6. ClockOf[first.by] >= ClockOf[Starter]
  BY <1>1, <1>5 DEF NobodyBehind
<1>7. Order(first) >= 1 /\ (Order(first) = 1 => first = RootStart)
  BY <1>1 DEF EmittedIInv, StartIsFirst
<1>8. first # RootStart
  BY <1>5 DEF RootStart
<1> QED BY <1>3, <1>4, <1>6, <1>7, <1>8 DEF Order

(* The nodes that hang from the top are those of a least solution of what the recursion
   says of them, so there is one; any solution does. *)
LEMMA SomethingHangs ==
  ASSUME NEW top \in Ids, NEW S \in SUBSET Spans
  PROVE  \E f : f = [id \in Ids |-> id = top \/ (id \in S /\ f[ParentOf[id]])]
<1> DEFINE Closed(C) == top \in C /\ \A s \in S : ParentOf[s] \in C => s \in C
           L == {id \in Ids : \A C \in SUBSET Ids : Closed(C) => id \in C}
           Step(C) == {top} \cup {s \in S : ParentOf[s] \in C}
<1>0. S \subseteq Ids /\ \A s \in S : ParentOf[s] \in Ids
  BY ParentAssumption DEF Ids
<1>1. Closed(L) /\ L \in SUBSET Ids
  BY <1>0
<1>2. Step(L) \subseteq L
  BY <1>1
<1>3. Closed(Step(L)) /\ Step(L) \in SUBSET Ids
  BY <1>0, <1>2
<1>4. L = Step(L)
  BY <1>2, <1>3
<1>5. \A id \in Ids : id \in L <=> (id = top \/ (id \in S /\ ParentOf[id] \in L))
  BY <1>4
<1> HIDE DEF L
<1>6. PICK f : f = [id \in Ids |-> id \in L]
  OBVIOUS
<1>7. \A s \in S : f[ParentOf[s]] <=> ParentOf[s] \in L
  BY <1>0, <1>6
<1>8. \A id \in Ids : id \in L <=> (id = top \/ (id \in S /\ f[ParentOf[id]]))
  BY <1>5, <1>7
<1>9. f = [id \in Ids |-> id = top \/ (id \in S /\ f[ParentOf[id]])]
  BY <1>6, <1>8, SMT
<1> QED BY <1>9

LEMMA BuiltTree ==
  ASSUME EmittedIInv, NEW entries \in SUBSET emitted, Complete(entries)
  PROVE  /\ NobodyBehind(entries) => BuildTree(entries).root = Root
         /\ \A s \in Spans :
              (\E e \in entries : e.id = s /\ e.action = "start")
              /\ ParentOf[s] \in BuildTree(entries).nodes => s \in BuildTree(entries).nodes
<1> DEFINE top == FirstParentless(entries).id
           started == {e.id : e \in {x \in entries : x.action = "start"}}
           S == started \ {Root}
           Hangs(f) == f = [id \in Ids |-> id = top \/ (id \in S /\ f[ParentOf[id]])]
           hangs == CHOOSE f : Hangs(f)
           tree == [root |-> top, nodes |-> {id \in Ids : hangs[id]}]
<1>1. /\ NobodyBehind(entries) => top = Root
      /\ ~(\A e \in entries : ~Parentless(e))
  BY WorkflowOnTop, FirstIsThere
<1>2. BuildTree(entries) = tree
  BY <1>1 DEF BuildTree
<1>3. S \in SUBSET Spans /\ top \in Ids
  BY FirstIsThere DEF EmittedIInv, TraceTypeOK, Entry, Ids
<1> HIDE DEF top
<1>4. Hangs(hangs)
  <2> HIDE DEF S
  <2>1. \E f : Hangs(f)
    BY <1>3, SomethingHangs
  <2> QED BY <2>1
<1>5. ASSUME NEW s \in Spans, \E e \in entries : e.id = s /\ e.action = "start",
             ParentOf[s] \in tree.nodes
      PROVE  s \in tree.nodes
  <2>1. s \in S /\ s \in Ids /\ hangs[ParentOf[s]]
    BY <1>5, RootAssumption DEF Ids
  <2> HIDE DEF hangs, S
  <2>2. hangs[s] = (s = top \/ (s \in S /\ hangs[ParentOf[s]]))
    BY <1>4, <2>1
  <2> QED BY <2>1, <2>2
<1> QED BY <1>1, <1>2, <1>5

(* In whatever order the entries of several workers land, however their clocks differ, and
   however many deliveries of the root's END there are, the tree of a read that has the
   START of the workflow leaves out no span that hangs from what is in it; and the workflow
   is its root, unless a worker whose clock is behind has ended an attempt
   (processors/s3/index.js, tools/build_trace_tree.js). *)
THEOREM TheWorkflowIsShown == TraceSpec => []ShowsTheWorkflow
<1>1. EmittedIInv => ShowsTheWorkflow
  <2> SUFFICES ASSUME EmittedIInv, NEW k \in Ends, Complete(content[k])
               PROVE  LET tree == BuildTree(content[k])
                      IN  /\ NobodyBehind(content[k]) => tree.root = Root
                          /\ \A s \in Spans :
                               (\E e \in content[k] : e.id = s /\ e.action = "start")
                               /\ ParentOf[s] \in tree.nodes => s \in tree.nodes
    BY DEF ShowsTheWorkflow
  <2>1. content[k] \in SUBSET emitted
    BY DEF EmittedIInv, TraceTypeOK
  <2> QED BY <2>1, BuiltTree
<1> QED BY <1>1, EmittedInit, EmittedNext, PTL DEF TraceSpec
=============================================================================
