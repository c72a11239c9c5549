-------------------------- MODULE CatalogPublisher --------------------------
(***************************************************************************)
(* The CatalogPublisher of sdk/core/src/worker/catalog_workflow: the       *)
(* workers of one task queue, each started with the hash of its own source *)
(* code, see to it that the catalog workflow (one workflow id for all of   *)
(* them) runs with their catalog: describe the open run, terminate it when *)
(* its hash is another, start a new one, and again after an error.  Workers*)
(* are deployed one beside the other, so the steps of several publishers   *)
(* interleave at the Temporal server.                                      *)
(***************************************************************************)
EXTENDS Naturals, Sequences, FiniteSets

CONSTANTS
  Workers,
  Hashes,
  HashOf,       \* the source code hash of each worker
  MaxRetries,   \* MAX_RETRIES
  MaxErrors     \* bound on the failed calls to Temporal, over all workers

ASSUME WorkersAssumption == IsFiniteSet(Workers)
ASSUME HashOfAssumption == HashOf \in [Workers -> Hashes]
ASSUME MaxRetriesAssumption == MaxRetries \in Nat
ASSUME MaxErrorsAssumption == MaxErrors \in Nat

VARIABLES
  stage,       \* per worker: the await of #execute it is in, or how run() ended
  retries,  \* per worker: the retries argument of #execute
  found,    \* per worker: description.runId, the run it found to be another's
  aborted,  \* per worker: its signal
  runs,     \* the runs of the catalog workflow id, in order: a run id is an index
  errors    \* calls to Temporal that failed so far

publisherVars == <<stage, retries, found, aborted, runs, errors>>

Pending == {"describe", "terminate", "start", "redescribe", "backoff"}
Done == {"published", "skipped", "failed", "stopped"}
Ready == {"published", "skipped"}

Open == {i \in 1 .. Len(runs) : runs[i].open}

PublisherInit ==
  /\ stage = [w \in Workers |-> "idle"]
  /\ retries = [w \in Workers |-> 0]
  /\ found = [w \in Workers |-> 0]
  /\ aborted = [w \in Workers |-> FALSE]
  /\ runs = <<>>
  /\ errors = 0

Goto(w, label) == stage' = [stage EXCEPT ![w] = label]

\* #execute( signal, r ) up to its first await.
Execute(w, r) ==
  /\ retries' = [retries EXCEPT ![w] = r]
  /\ Goto(w, IF aborted[w] THEN "stopped" ELSE "describe")

\* A call to Temporal fails (a bound, not a guard of the code).
CallFails == errors < MaxErrors /\ errors' = errors + 1

\* The catch of #execute.
Retry(w) ==
  Goto(w, IF retries[w] < MaxRetries THEN "backoff" ELSE "failed")

Run(w) ==
  /\ stage[w] = "idle"
  /\ Execute(w, 0)
  /\ UNCHANGED <<found, aborted, runs, errors>>

\* The worker's signal is aborted; the publisher looks at it between attempts only.
AbortPublisher(w) ==
  /\ stage[w] \in {"idle"} \cup Pending
  /\ ~aborted[w]
  /\ aborted' = [aborted EXCEPT ![w] = TRUE]
  /\ UNCHANGED <<stage, retries, found, runs, errors>>

\* Slip: an open catalog is taken for a match.
DescribeAnyHash(w) ==
  /\ stage[w] = "describe"
  /\ Goto(w, IF Open = {} THEN "start" ELSE "skipped")
  /\ UNCHANGED <<retries, found, aborted, runs, errors>>

\* #describe at the head of #execute: nothing open, this worker's own hash, or a run
\* to terminate.
Describe(w) ==
  /\ stage[w] = "describe"
  /\ \/ /\ Open = {}
        /\ Goto(w, "start")
        /\ UNCHANGED found
     \/ \E i \in Open :
          IF runs[i].hash = HashOf[w]
          THEN Goto(w, "skipped") /\ UNCHANGED found
          ELSE Goto(w, "terminate") /\ found' = [found EXCEPT ![w] = i]
  /\ UNCHANGED <<retries, aborted, runs, errors>>

\* An error while describing is taken for "nothing runs".
DescribeFails(w) ==
  /\ stage[w] = "describe"
  /\ CallFails
  /\ Goto(w, "start")
  /\ UNCHANGED <<retries, found, aborted, runs>>

\* Slip: the workflow id is terminated, whichever run is open.
TerminateById(w) ==
  /\ stage[w] = "terminate"
  /\ runs' = [i \in 1 .. Len(runs) |-> [runs[i] EXCEPT !.open = FALSE]]
  /\ Goto(w, "start")
  /\ UNCHANGED <<retries, found, aborted, errors>>

\* #terminate( runId ): the run that was found, if it is still open.
Terminate(w) ==
  /\ stage[w] = "terminate"
  /\ runs' = [runs EXCEPT ![found[w]].open = FALSE]
  /\ Goto(w, "start")
  /\ UNCHANGED <<retries, found, aborted, errors>>

\* An error while terminating is ignored, whether or not the run is terminated.
TerminateFails(w) ==
  /\ stage[w] = "terminate"
  /\ CallFails
  /\ runs' \in {runs, [runs EXCEPT ![found[w]].open = FALSE]}
  /\ Goto(w, "start")
  /\ UNCHANGED <<retries, found, aborted>>

\* client.workflow.start with conflict policy FAIL: Temporal opens a run only when
\* the workflow id has no open one.
StartRun(w) ==
  /\ Open = {}
  /\ runs' = Append(runs, [hash |-> HashOf[w], open |-> TRUE])

Start(w) ==
  /\ stage[w] = "start"
  /\ StartRun(w)
  /\ Goto(w, "published")
  /\ UNCHANGED <<retries, found, aborted, errors>>

\* WorkflowExecutionAlreadyStartedError.
StartConflicts(w) ==
  /\ stage[w] = "start"
  /\ Open # {}
  /\ Goto(w, "redescribe")
  /\ UNCHANGED <<retries, found, aborted, runs, errors>>

\* Any other error; the run may have started and only the answer been lost.
StartFails(w) ==
  /\ stage[w] = "start"
  /\ CallFails
  /\ StartRun(w) \/ UNCHANGED runs
  /\ Retry(w)
  /\ UNCHANGED <<retries, found, aborted>>

\* #describe after a conflict: a catalog of this worker's hash is good enough.
Redescribe(w) ==
  /\ stage[w] = "redescribe"
  /\ IF \E i \in Open : runs[i].hash = HashOf[w]
     THEN Goto(w, "skipped")
     ELSE Retry(w)
  /\ UNCHANGED <<retries, found, aborted, runs, errors>>

RedescribeFails(w) ==
  /\ stage[w] = "redescribe"
  /\ CallFails
  /\ Retry(w)
  /\ UNCHANGED <<retries, found, aborted, runs>>

\* sleepCancellable( RETRY_DELAY ), then #execute( signal, retries + 1 ).
Backoff(w) ==
  /\ stage[w] = "backoff"
  /\ Execute(w, retries[w] + 1)
  /\ UNCHANGED <<found, aborted, runs, errors>>

\* Every publisher has ended.
Finished ==
  /\ \A w \in Workers : stage[w] \in Done
  /\ UNCHANGED publisherVars

Publish(w) ==
  \/ Run(w)
  \/ Describe(w)
  \/ DescribeFails(w)
  \/ Terminate(w)
  \/ TerminateFails(w)
  \/ Start(w)
  \/ StartConflicts(w)
  \/ StartFails(w)
  \/ Redescribe(w)
  \/ RedescribeFails(w)
  \/ Backoff(w)

PublisherNext ==
  \/ \E w \in Workers : Publish(w) \/ AbortPublisher(w)
  \/ Finished

PublisherSpec == PublisherInit /\ [][PublisherNext]_publisherVars
-----------------------------------------------------------------------------
\* Type invariant: where a publisher can be (one await of #execute at a time, retries within the
\* budget) and what the server can hold.
PublisherTypeOK ==
  /\ stage \in [Workers -> {"idle"} \cup Pending \cup Done]
  /\ retries \in [Workers -> 0 .. MaxRetries]
  /\ found \in [Workers -> Nat]
  /\ aborted \in [Workers -> BOOLEAN]
  /\ runs \in Seq([hash : Hashes, open : BOOLEAN])
  /\ errors \in 0 .. MaxErrors

\* At most one run of the workflow id is open, and it is the last.
OneOpen == \A i \in 1 .. Len(runs) : runs[i].open => i = Len(runs)

\* A publisher that is about to terminate a run found it with another hash.
FoundAnother ==
  \A w \in Workers :
    stage[w] = "terminate" =>
      found[w] \in 1 .. Len(runs) /\ runs[found[w]].hash # HashOf[w]

\* A publisher that ended well had its own catalog open at some time.
Served ==
  \A w \in Workers :
    stage[w] \in Ready => \E i \in 1 .. Len(runs) : runs[i].hash = HashOf[w]

\* A run is closed by a worker with another hash that has begun.
Closers ==
  \A i \in 1 .. Len(runs) :
    ~runs[i].open => \E v \in Workers : HashOf[v] # runs[i].hash /\ stage[v] # "idle"

\* A publisher waits to try again only while its budget lasts.
WithinBudget == \A w \in Workers : stage[w] = "backoff" => retries[w] < MaxRetries

\* The inductive invariant: what each publisher remembers of the server is still so.
PublisherIInv == PublisherTypeOK /\ WithinBudget /\ OneOpen /\ FoundAnother /\ Served /\ Closers
-----------------------------------------------------------------------------
(***************************************************************************)
(* What must hold.                                                         *)
(***************************************************************************)
Closes(w) == \E i \in 1 .. Len(runs) : runs[i].open /\ ~runs'[i].open /\ runs[i].hash = HashOf[w]

\* No publisher ever ends a run that carries its own hash, however late its terminate
\* arrives and whatever was started since it described (handle pinned to the run id).
NeverKillsItsOwn ==
  [][\A w \in Workers : Closes(w) => UNCHANGED stage[w]]_publisherVars

\* A worker that goes on to serve had its own catalog published, and has it open still
\* unless a worker with other code has begun to publish and superseded it: "it retries
\* and then exits rather than serving requests against an outdated catalog"
\* (docs packages/core.mdx).
NeverServesOutdated ==
  \A w \in Workers :
    stage[w] \in Ready =>
      \E i \in 1 .. Len(runs) :
        /\ runs[i].hash = HashOf[w]
        /\ runs[i].open \/ \E v \in Workers : HashOf[v] # HashOf[w] /\ stage[v] # "idle"

=============================================================================
