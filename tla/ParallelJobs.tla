---------------------------- MODULE ParallelJobs ----------------------------
(***************************************************************************)
(* executeInParallel of sdk/core/src/interface/workflow_utils.js: one call *)
(* with N jobs.  Jobs are numbered from 1 (the code counts from 0).        *)
(*                                                                         *)
(* jobsPool is always a suffix of the job list, because it only loses its  *)
(* first elements, so `next` (its first index) stands for it.  activeJobs  *)
(* gets jobs at its end in index order and loses them anywhere, so it is   *)
(* always sorted by index and the set `active` stands for it; its array    *)
(* order, which decides a race between promises that are already settled,  *)
(* is the order of the indices.                                            *)
(*                                                                         *)
(* A step is one run of the JavaScript continuation between two awaits.    *)
(* Jobs settle between those steps, several of them before the loop gets   *)
(* to run again: the results of one Temporal activation arrive together.   *)
(***************************************************************************)
EXTENDS Naturals, Sequences, FiniteSets

CONSTANTS
  N,            \* jobs.length
  Concurrency   \* options.concurrency; Infinity is any value >= N

ASSUME NAssumption == N \in Nat
\* z.number().min( 1 ) of executeInParallelSchema.
ASSUME ConcurrencyAssumption == Concurrency \in Nat \ {0}

VARIABLES
  pc,         \* "called", "racing" (in the await), "returned", "rejected"
  next,       \* index of the first job of jobsPool
  active,     \* indices in activeJobs
  outcome,    \* per job: "pending", "ok" or "error"
  settled,    \* indices in the order their promises settled
  winner,     \* what the current Promise.race resolved with, 0 while it waits
  results,    \* the results array, in the order it is filled
  returned    \* the array the call resolved with, <<>> before

vars == <<pc, next, active, outcome, settled, winner, results, returned>>

Jobs == 1 .. N
None == 0
Outcomes == {"ok", "error"}

Smaller(a, b) == IF a < b THEN a ELSE b
Reported == {results[k].index : k \in 1 .. Len(results)}

\* Slip: a race that forgets the promises that settled before it began.
RaceAnew(act) == None

\* Promise.race over promises some of which have settled already: the first of
\* them in array order wins; with none settled it waits for one.
Race(act) ==
  LET ready == {j \in act : outcome[j] # "pending"}
  IN  IF ready = {} THEN None
      ELSE CHOOSE j \in ready : \A k \in ready : j <= k

\* results.sort( ( a, b ) => a.index - b.index ): each element goes where as many
\* others have a smaller index.
Rank(r, elems) == Cardinality({q \in elems : q.index < r.index})

SortByIndex(rs) ==
  LET elems == {rs[k] : k \in 1 .. Len(rs)}
  IN  [i \in 1 .. Len(rs) |-> CHOOSE r \in elems : Rank(r, elems) = i - 1]

Init ==
  /\ pc = "called"
  /\ next = 1
  /\ active = {}
  /\ outcome = [j \in Jobs |-> "pending"]
  /\ settled = <<>>
  /\ winner = None
  /\ results = <<>>
  /\ returned = <<>>

\* Slip: the loop ends one result short.
LoopOneShort(rs, act) ==
  IF Len(rs) + 1 < N
  THEN /\ pc' = "racing"
       /\ winner' = Race(act)
       /\ UNCHANGED returned
  ELSE /\ pc' = "returned"
       /\ winner' = None
       /\ returned' = SortByIndex(rs)

\* The while condition, with rs the results so far and act the active jobs: a new
\* race, or the sorted results.
LoopOrReturn(rs, act) ==
  IF Len(rs) < N
  THEN /\ pc' = "racing"
       /\ winner' = Race(act)
       /\ UNCHANGED returned
  ELSE /\ pc' = "returned"
       /\ winner' = None
       /\ returned' = SortByIndex(rs)

\* From the call to its first await: the first jobs leave the pool and start.
Launch ==
  /\ pc = "called"
  /\ next' = Smaller(Concurrency, N) + 1
  /\ active' = 1 .. Smaller(Concurrency, N)
  /\ LoopOrReturn(results, active')
  /\ UNCHANGED <<outcome, settled, results>>

\* A job that was started finishes or fails; fn() turns both into a result object.
\* A race that is waiting resolves with the first to settle.
Settle(j) ==
  /\ j < next
  /\ outcome[j] = "pending"
  /\ \E o \in Outcomes : outcome' = [outcome EXCEPT ![j] = o]
  /\ settled' = Append(settled, j)
  /\ winner' = IF pc = "racing" /\ winner = None THEN j ELSE winner
  /\ UNCHANGED <<pc, next, active, results, returned>>

Result(j) == [index |-> j, outcome |-> outcome[j]]

\* The code after the await: the result is pushed and reported, its job leaves
\* activeJobs, the next job of the pool starts, and the loop goes round.
Resume ==
  /\ pc = "racing"
  /\ winner # None
  /\ results' = Append(results, Result(winner))
  /\ LET more == IF next <= N THEN {next} ELSE {}
     IN  /\ active' = (active \ {winner}) \cup more
         /\ next' = IF next <= N THEN next + 1 ELSE next
  /\ LoopOrReturn(results', active')
  /\ UNCHANGED <<outcome, settled>>

\* As Resume, but onJobCompleted throws: the call rejects at that line.  The jobs
\* still active go on, nobody awaits them and nothing more starts.
CallbackThrows ==
  /\ pc = "racing"
  /\ winner # None
  /\ results' = Append(results, Result(winner))
  /\ pc' = "rejected"
  /\ winner' = None
  /\ UNCHANGED <<next, active, outcome, settled, returned>>

\* The call is over and every job it started has settled.
Finished ==
  /\ pc \in {"returned", "rejected"}
  /\ \A j \in Jobs : j < next => outcome[j] # "pending"
  /\ UNCHANGED vars

Next ==
  \/ Launch
  \/ \E j \in Jobs : Settle(j)
  \/ Resume
  \/ CallbackThrows
  \/ Finished

\* Continuations run when their promise resolves, and every job settles in the end
\* (an activity has a timeout); whether the callback throws is its own business.
Fairness ==
  /\ WF_vars(Launch)
  /\ \A j \in Jobs : WF_vars(Settle(j))
  /\ WF_vars(Resume)

Spec == Init /\ [][Next]_vars
FairSpec == Spec /\ Fairness
-----------------------------------------------------------------------------
\* Type invariant: a winner, a result and an answer are always of jobs of the call.
TypeOK ==
  /\ pc \in {"called", "racing", "returned", "rejected"}
  /\ next \in 1 .. N + 1
  /\ active \in SUBSET Jobs
  /\ outcome \in [Jobs -> Outcomes \cup {"pending"}]
  /\ settled \in Seq(Jobs)
  /\ winner \in 0 .. N
  /\ results \in Seq([index : Jobs, outcome : Outcomes])
  /\ returned \in {<<>>} \cup [Jobs -> [index : Jobs, outcome : Outcomes]]

\* Where each job is: waiting in the pool (index >= next), active, or reported
\* once.  (A throwing callback leaves its job in activeJobs.)
EachJobInOnePlace ==
  /\ \A j \in active : j < next
  /\ \A j \in Jobs : j < next => j \in active \cup Reported
  /\ \A k \in 1 .. Len(results) : results[k].index < next
  /\ \A k, l \in 1 .. Len(results) : results[k].index = results[l].index => k = l
  /\ pc # "rejected" => active \cap Reported = {}

\* As long as jobs wait in the pool all the slots are taken.
SlotsFull ==
  /\ Cardinality(active) <= Concurrency
  /\ pc # "called" /\ next <= N => Cardinality(active) = Concurrency

\* What the loop has collected is what the jobs settled with.
ResultsAreOutcomes ==
  /\ \A k \in 1 .. Len(results) : results[k].outcome = outcome[results[k].index]
  /\ \A j \in Jobs : outcome[j] # "pending" => j < next
  /\ winner # None => winner \in active /\ outcome[winner] # "pending"

\* A race without a winner has only jobs to watch that are still to settle.
NoLostWin ==
  pc = "racing" /\ winner = None => \A j \in active : outcome[j] = "pending"

\* What each value of pc says of the rest.
Control ==
  /\ pc = "called" => next = 1 /\ active = {} /\ results = <<>>
  /\ pc # "racing" => winner = None
  /\ pc = "racing" => Len(results) < N
  /\ pc = "returned" => Len(results) = N /\ returned = SortByIndex(results)
  /\ pc # "returned" => returned = <<>>

\* The inductive invariant: each job is in one place, the slots are full while jobs
\* wait, the results are what the jobs settled with, and no race forgets a winner.
IInv ==
  /\ TypeOK
  /\ EachJobInOnePlace
  /\ SlotsFull
  /\ ResultsAreOutcomes
  /\ NoLostWin
  /\ Control
-----------------------------------------------------------------------------
(***************************************************************************)
(* What must hold.                                                         *)
(***************************************************************************)
Running == {j \in Jobs : j < next /\ outcome[j] = "pending"}

\* At no time do more than Concurrency jobs run, not even after a callback threw
\* ("respects concurrency limit", workflow_utils.spec.js).
ConcurrencyLimit == Cardinality(Running) <= Concurrency

\* The loop never awaits a race nobody can win: while it waits some active job is
\* still to settle, or has won.
NeverRacesNothing ==
  pc = "racing" => \E j \in active : outcome[j] = "pending" \/ j = winner

\* The call resolves with every job's own outcome at that job's position, however
\* the jobs interleaved (results.sort, and the doc comment above the function).
ReturnsInJobOrder ==
  pc = "returned" =>
    returned = [j \in Jobs |-> [index |-> j, outcome |-> outcome[j]]]

\* Every call ends: with the results, or with what the callback threw.
Returns == pc = "called" ~> pc \in {"returned", "rejected"}

Batch == INSTANCE JobBatch WITH
  started  <- {j \in Jobs : j < next},
  reported <- Reported,
  status   <- IF pc \in {"called", "racing"} THEN "open" ELSE pc,
  answer   <- returned

\* The call implements the abstract batch: one job is reported at a time, each once and
\* only when it has settled, jobs start while slots are free, and the answer is given
\* when all are reported.
ImplementsBatch == Batch!Spec
=============================================================================
