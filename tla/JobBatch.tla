------------------------------ MODULE JobBatch ------------------------------
(***************************************************************************)
(* What executeInParallel promises to the workflow that calls it, with no  *)
(* word about how the jobs are queued or raced: every job is started at    *)
(* most once, no more than Concurrency started jobs are unreported, every  *)
(* job is reported at most once and only after it settled, and the call    *)
(* returns only when all are reported, with each job's own outcome at the  *)
(* job's own position.  ParallelJobs is shown to implement it.             *)
(***************************************************************************)
EXTENDS Naturals, FiniteSets

CONSTANTS N,            \* number of jobs passed to the call
          Concurrency   \* the concurrency option

Jobs == 1 .. N

VARIABLES
  started,    \* jobs whose function was called
  reported,   \* jobs whose result was collected
  outcome,    \* "pending" until the job's promise settles, then "ok" or "error"
  status,     \* "open", "returned" or "rejected"
  answer      \* what the call returned, <<>> until then

vars == <<started, reported, outcome, status, answer>>

Init ==
  /\ started = {}
  /\ reported = {}
  /\ outcome = [j \in Jobs |-> "pending"]
  /\ status = "open"
  /\ answer = <<>>

\* A started job settles, whatever became of the call.
Settle(j) ==
  /\ j \in started
  /\ outcome[j] = "pending"
  /\ \E o \in {"ok", "error"} : outcome' = [outcome EXCEPT ![j] = o]
  /\ UNCHANGED <<started, reported, status, answer>>

\* The call reports the jobs of done (at most one), starts those of more.
Advance(done, more) ==
  /\ status = "open"
  /\ done \subseteq started \ reported
  /\ \A j \in done : outcome[j] # "pending" /\ done = {j}
  /\ more \subseteq Jobs \ started
  /\ started' = started \cup more
  /\ reported' = reported \cup done
  /\ Cardinality(started' \ reported') <= Concurrency
  /\ UNCHANGED outcome
  /\ \/ status' \in {"open", "rejected"} /\ UNCHANGED answer
     \/ /\ reported' = Jobs
        /\ status' = "returned"
        /\ answer' = [j \in Jobs |-> [index |-> j, outcome |-> outcome[j]]]

Next ==
  \/ \E j \in Jobs : Settle(j)
  \/ \E done, more \in SUBSET Jobs : Advance(done, more)

Spec == Init /\ [][Next]_vars
=============================================================================
