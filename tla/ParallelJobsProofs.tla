------------------------- MODULE ParallelJobsProofs -------------------------
(***************************************************************************)
(* executeInParallel for every number of jobs and every concurrency: the   *)
(* inductive invariant, the limit, the order of the answer, and that the   *)
(* loop implements the abstract batch of JobBatch.                         *)
(***************************************************************************)
EXTENDS ParallelJobs, FiniteSetTheorems, TLAPS

ResultType == [index : Jobs, outcome : Outcomes]

-----------------------------------------------------------------------------
(* Helpers. *)

\* The minimum of two numbers is one of them and below both.
LEMMA SmallerType ==
  /\ Smaller(Concurrency, N) \in Nat
  /\ Smaller(Concurrency, N) <= N
  /\ Smaller(Concurrency, N) <= Concurrency
  /\ Smaller(Concurrency, N) < N => Smaller(Concurrency, N) = Concurrency
BY NAssumption, ConcurrencyAssumption DEF Smaller

\* Every subset of the jobs is finite.
LEMMA JobsFinite ==
  /\ IsFiniteSet(Jobs)
  /\ Cardinality(Jobs) = N
  /\ \A S \in SUBSET Jobs : IsFiniteSet(S) /\ Cardinality(S) \in Nat
<1>1. IsFiniteSet(Jobs) /\ Cardinality(Jobs) = N
  BY FS_Interval, NAssumption DEF Jobs
<1>2. ASSUME NEW S \in SUBSET Jobs
      PROVE  IsFiniteSet(S) /\ Cardinality(S) \in Nat
  BY <1>1, FS_Subset, FS_CardinalityType
<1> QED BY <1>1, <1>2

\* 1 .. m has m elements.
LEMMA UpTo ==
  ASSUME NEW m \in Nat
  PROVE  IsFiniteSet(1 .. m) /\ Cardinality(1 .. m) = m
<1>1. m \in Int /\ 1 \in Int /\ (1 > m => m = 0)
  OBVIOUS
<1> QED BY <1>1, FS_Interval

\* A nonempty set of naturals has a least element.
LEMMA LeastElement ==
  ASSUME NEW S, \A s \in S : s \in Nat, S # {}
  PROVE  \E j \in S : \A k \in S : j <= k
<1>1. S \subseteq Nat
  OBVIOUS
<1>2. PICK j \in S : \A k \in S : ~ (<<k, j>> \in OpToRel(<, Nat))
  BY <1>1, NatLessThanWellFounded, WFMin
<1>3. ASSUME NEW k \in S
      PROVE  j <= k
  <2>1. j \in Nat /\ k \in Nat
    BY <1>1
  <2>2. k < j => <<k, j>> \in OpToRel(<, Nat)
    BY <2>1 DEF OpToRel
  <2>3. ~ (k < j)
    BY <1>2, <2>2, Zenon
  <2> QED BY <2>1, <2>3
<1> QED BY <1>3

\* A race has no winner only when nothing it watches has settled, and its winner is
\* one of the settled jobs it watches.
LEMMA RaceWinner ==
  ASSUME NEW act \in SUBSET Jobs
  PROVE  \/ Race(act) = None /\ \A j \in act : outcome[j] = "pending"
         \/ Race(act) \in act /\ outcome[Race(act)] # "pending"
<1> DEFINE ready == {j \in act : outcome[j] # "pending"}
<1>1. CASE ready = {}
  BY <1>1 DEF Race
<1>2. CASE ready # {}
  <2>1. \A j \in ready : j \in Nat
    BY NAssumption DEF Jobs
  <2> HIDE DEF ready
  <2>2. \E j \in ready : \A k \in ready : j <= k
    BY <1>2, <2>1, LeastElement
  <2>3. Race(act) \in ready
    BY <1>2, <2>2 DEF Race, ready
  <2> QED BY <2>3 DEF ready
<1> QED BY <1>1, <1>2

\* Sorting N results with N different indices puts the result of job i at place i.
LEMMA SortedInPlace ==
  ASSUME NEW rs \in Seq(ResultType),
         Len(rs) = N,
         \A k, l \in 1 .. N : rs[k].index = rs[l].index => k = l
  PROVE  /\ SortByIndex(rs) \in [Jobs -> ResultType]
         /\ \A i \in Jobs : \E k \in 1 .. N : /\ rs[k].index = i
                                           /\ SortByIndex(rs)[i] = rs[k]
<1> DEFINE elems == {rs[k] : k \in 1 .. N}
           idx == [k \in Jobs |-> rs[k].index]
<1>1. ASSUME NEW k \in 1 .. N
      PROVE  rs[k] \in ResultType /\ rs[k].index \in 1 .. N
  <2>1. rs[k] \in ResultType
    OBVIOUS
  <2> QED BY <2>1 DEF ResultType, Jobs
<1>2. \A i \in 1 .. N : \E k \in 1 .. N : rs[k].index = i
  <2>1. idx \in [Jobs -> Jobs]
    BY <1>1 DEF Jobs
  <2>2. idx \in Injection(Jobs, Jobs)
    BY <2>1 DEF Injection, IsInjective, Jobs
  <2>3. idx \in Surjection(Jobs, Jobs)
    BY <2>2, FS_Injection, JobsFinite
  <2> QED BY <2>3 DEF Surjection, Jobs
<1>3. \A q, r \in elems : q.index = r.index => q = r
  OBVIOUS
<1>4. ASSUME NEW r \in elems
      PROVE  r \in ResultType /\ Rank(r, elems) = r.index - 1
  <2>1. r \in ResultType /\ r.index \in 1 .. N
    BY <1>1
  <2> DEFINE low == 1 .. (r.index - 1)
             below == {q \in elems : q.index < r.index}
             at == [i \in low |-> CHOOSE q \in elems : q.index = i]
  <2>2. ASSUME NEW i \in low
        PROVE  at[i] \in below /\ at[i].index = i
    <3>1. i \in 1 .. N /\ i < r.index
      BY <2>1, NAssumption
    <3>2. \E q \in elems : q.index = i
      BY <3>1, <1>2
    <3>3. at[i] \in elems /\ at[i].index = i
      BY <3>2
    <3> QED BY <3>1, <3>3
  <2>3. at \in Injection(low, below)
    <3>1. at \in [low -> below]
      BY <2>2
    <3>2. \A i, j \in low : at[i] = at[j] => i = j
      BY <2>2
    <3> HIDE DEF at, low, below
    <3> QED BY <3>1, <3>2 DEF Injection, IsInjective
  <2>4. ASSUME NEW q \in below
        PROVE  q.index \in low /\ at[q.index] = q
    <3>1. q \in elems /\ q.index \in 1 .. N /\ q.index < r.index
      BY <1>1
    <3>2. q.index \in low
      BY <3>1, <2>1, NAssumption
    <3>3. at[q.index] \in elems /\ at[q.index].index = q.index
      BY <3>2, <2>2
    <3> QED BY <3>1, <3>2, <3>3, <1>3
  <2>5. at \in Surjection(low, below)
    <3>1. at \in [low -> below]
      BY <2>2
    <3>2. \A q \in below : \E i \in low : at[i] = q
      BY <2>4
    <3> HIDE DEF at, low, below
    <3> QED BY <3>1, <3>2 DEF Surjection
  <2>6. IsFiniteSet(low) /\ Cardinality(low) = r.index - 1
    <3>1. r.index - 1 \in Nat
      BY <2>1, NAssumption
    <3> QED BY <3>1, UpTo
  <2>7. ExistsBijection(low, below)
    BY <2>3, <2>5 DEF ExistsBijection, Bijection
  <2>8. Cardinality(below) = r.index - 1
    <3> HIDE DEF low, below
    <3> QED BY <2>6, <2>7, FS_Bijection
  <2> QED BY <2>1, <2>8 DEF Rank
<1>5. ASSUME NEW i \in Jobs
      PROVE  \E k \in 1 .. N : /\ rs[k].index = i
                              /\ (CHOOSE r \in elems : Rank(r, elems) = i - 1) = rs[k]
  <2>1. PICK k \in 1 .. N : rs[k].index = i
    BY <1>2 DEF Jobs
  <2>2. rs[k] \in elems /\ Rank(rs[k], elems) = i - 1
    BY <2>1, <1>4
  <2> HIDE DEF elems
  <2> DEFINE c == CHOOSE r \in elems : Rank(r, elems) = i - 1
  <2>3. c \in elems /\ Rank(c, elems) = i - 1
    BY <2>2
  <2>4. c.index = i
    <3>1. c.index \in Nat /\ c.index - 1 = i - 1 /\ i \in Nat
      BY <2>3, <1>4, NAssumption DEF ResultType, Jobs
    <3> QED BY <3>1
  <2>5. c = rs[k]
    BY <2>1, <2>2, <2>3, <2>4, <1>3
  <2> QED BY <2>1, <2>5
<1>6. SortByIndex(rs) = [i \in Jobs |-> CHOOSE r \in elems : Rank(r, elems) = i - 1]
  BY DEF SortByIndex, Jobs
<1>7. \A i \in Jobs : \E k \in 1 .. N : rs[k].index = i /\ SortByIndex(rs)[i] = rs[k]
  <2> HIDE DEF elems
  <2> QED BY <1>5, <1>6
<1>8. \A i \in Jobs : SortByIndex(rs)[i] \in ResultType
  BY <1>1, <1>7
<1> HIDE DEF elems
<1> QED BY <1>6, <1>7, <1>8

\* What pushing a result does to the results array.
LEMMA PushResult ==
  ASSUME results \in Seq(ResultType), NEW r \in ResultType,
         results' = Append(results, r)
  PROVE  /\ results' \in Seq(ResultType)
         /\ Len(results) \in Nat /\ Len(results') = Len(results) + 1
         /\ \A k \in 1 .. Len(results) : results'[k] = results[k]
         /\ results'[Len(results')] = r
         /\ Reported' = Reported \cup {r.index}
<1>1. /\ results' \in Seq(ResultType)
      /\ Len(results) \in Nat /\ Len(results') = Len(results) + 1
      /\ \A k \in 1 .. Len(results) : results'[k] = results[k]
      /\ results'[Len(results')] = r
  OBVIOUS
<1>2. Reported' = Reported \cup {r.index}
  BY <1>1 DEF Reported
<1> QED BY <1>1, <1>2

\* What the invariant says of the elements of results.
LEMMA ResultTypes ==
  ASSUME IInv
  PROVE  /\ results \in Seq(ResultType) /\ Len(results) \in Nat
         /\ \A k \in 1 .. Len(results) : /\ results[k].index \in Jobs
                                         /\ results[k].outcome \in Outcomes
         /\ Reported \in SUBSET Jobs
         /\ \A i \in Reported : i < next
<1>1. results \in Seq(ResultType)
  BY DEF IInv, TypeOK, ResultType
<1>2. Len(results) \in Nat
  BY <1>1
<1>3. ASSUME NEW k \in 1 .. Len(results)
      PROVE  results[k].index \in Jobs /\ results[k].outcome \in Outcomes
  <2>1. results[k] \in ResultType
    BY <1>1
  <2> QED BY <2>1 DEF ResultType
<1>4. \A i \in Reported : i < next
  BY DEF IInv, EachJobInOnePlace, Reported
<1> QED BY <1>1, <1>2, <1>3, <1>4 DEF Reported

-----------------------------------------------------------------------------
(* The inductive invariant, one lemma per action. *)

\* A call that has not begun satisfies the invariant.
LEMMA InitInv == Init => IInv
<1> SUFFICES ASSUME Init PROVE IInv
  OBVIOUS
<1>1. TypeOK
  BY NAssumption DEF Init, TypeOK, Jobs, Outcomes, None
<1>2. EachJobInOnePlace
  BY NAssumption DEF Init, EachJobInOnePlace, Jobs, Reported
<1>3. SlotsFull
  BY FS_EmptySet, ConcurrencyAssumption DEF Init, SlotsFull
<1>4. ResultsAreOutcomes /\ NoLostWin /\ Control
  BY NAssumption DEF Init, ResultsAreOutcomes, NoLostWin, Control, Jobs, None
<1> QED BY <1>1, <1>2, <1>3, <1>4 DEF IInv

\* The first jobs leave the pool: as many as there are slots, or all of them.
LEMMA LaunchInv == IInv /\ Launch => IInv'
<1> SUFFICES ASSUME IInv, Launch PROVE IInv'
  OBVIOUS
<1> USE NAssumption, ConcurrencyAssumption
<1> DEFINE m == Smaller(Concurrency, N)
<1>1. m \in Nat /\ m <= N /\ m <= Concurrency /\ (m < N => m = Concurrency)
  BY SmallerType
<1> HIDE DEF m
<1>2. /\ pc = "called" /\ next' = m + 1 /\ active' = 1 .. m
      /\ LoopOrReturn(results, active')
      /\ UNCHANGED <<outcome, settled, results>>
  BY DEF Launch, m
<1>3. /\ TypeOK /\ next = 1 /\ active = {} /\ results = <<>> /\ returned = <<>>
      /\ \A j \in Jobs : outcome[j] = "pending"
  BY <1>2 DEF IInv, Control, ResultsAreOutcomes, TypeOK, Jobs, Outcomes
<1>4. active' \in SUBSET Jobs
  BY <1>1, <1>2 DEF Jobs
<1>5. Race(active') = None
  BY <1>3, <1>4, RaceWinner
<1>6. /\ winner' = None
      /\ \/ N > 0 /\ pc' = "racing" /\ returned' = <<>>
         \/ N = 0 /\ pc' = "returned" /\ returned' = SortByIndex(results) /\ returned' = <<>>
  <2>1. CASE N > 0
    BY <2>1, <1>2, <1>3, <1>5 DEF LoopOrReturn
  <2>2. CASE N = 0
    <3>1. SortByIndex(results) = <<>>
      BY <1>3 DEF SortByIndex
    <3> QED BY <2>2, <3>1, <1>2, <1>3 DEF LoopOrReturn
  <2> QED BY <2>1, <2>2
<1>7. TypeOK'
  BY <1>1, <1>2, <1>3, <1>4, <1>6 DEF TypeOK, None
<1>8. EachJobInOnePlace'
  BY <1>1, <1>2, <1>3 DEF EachJobInOnePlace, Jobs, Reported
<1>9. SlotsFull'
  <2>1. Cardinality(active') = m
    BY <1>1, <1>2, UpTo
  <2> QED BY <2>1, <1>1, <1>2 DEF SlotsFull
<1>10. ResultsAreOutcomes'
  BY <1>2, <1>3, <1>6 DEF ResultsAreOutcomes, None
<1>11. Control'
  BY <1>2, <1>3, <1>6 DEF Control, None
<1>12. NoLostWin'
  BY <1>2, <1>3, <1>4 DEF NoLostWin
<1> QED BY <1>7, <1>8, <1>9, <1>10, <1>11, <1>12 DEF IInv

\* A job that settles changes no place; it wins the race that waits for it.
LEMMA SettleInv ==
  ASSUME NEW j \in Jobs, IInv, Settle(j)
  PROVE  IInv'
<1> USE NAssumption DEF Jobs, None
<1>1. PICK o \in Outcomes : outcome' = [outcome EXCEPT ![j] = o]
  BY DEF Settle
<1>2. /\ j < next /\ outcome[j] = "pending"
      /\ settled' = Append(settled, j)
      /\ winner' = IF pc = "racing" /\ winner = 0 THEN j ELSE winner
      /\ UNCHANGED <<pc, next, active, results, returned>>
  BY DEF Settle
<1>3. TypeOK /\ TypeOK'
  <2>1. TypeOK
    BY DEF IInv
  <2>2. outcome' \in [Jobs -> Outcomes \cup {"pending"}]
    BY <2>1, <1>1 DEF TypeOK
  <2>3. settled' \in Seq(Jobs)
    BY <2>1, <1>2 DEF TypeOK
  <2>4. winner' \in 0 .. N
    BY <2>1, <1>2 DEF TypeOK
  <2> QED BY <2>1, <2>2, <2>3, <2>4, <1>2 DEF TypeOK
<1>4. EachJobInOnePlace'
  BY <1>2 DEF IInv, EachJobInOnePlace, Reported
<1>5. SlotsFull'
  BY <1>2 DEF IInv, SlotsFull
<1>6. ResultsAreOutcomes'
  <2>1. o # "pending" /\ \A i \in Jobs \ {j} : outcome'[i] = outcome[i]
    BY <1>1, <1>3 DEF Outcomes, TypeOK
  <2>2. ASSUME NEW k \in 1 .. Len(results)
        PROVE  results'[k].outcome = outcome'[results'[k].index]
    <3>1. results[k].outcome = outcome[results[k].index]
      BY DEF IInv, ResultsAreOutcomes
    <3>2. results[k].index \in Jobs /\ results[k].outcome # "pending"
      BY ResultTypes DEF Outcomes
    <3>3. results[k].index # j
      BY <3>1, <3>2, <1>2
    <3> QED BY <3>1, <3>2, <3>3, <2>1, <1>2
  <2>3. \A i \in Jobs : outcome'[i] # "pending" => i < next'
    BY <2>1, <1>2 DEF IInv, ResultsAreOutcomes
  <2>4. winner' # None => winner' \in active' /\ outcome'[winner'] # "pending"
    <3>1. CASE winner' = winner
      BY <3>1, <2>1, <1>1, <1>2, <1>3 DEF IInv, ResultsAreOutcomes, TypeOK
    <3>2. CASE winner' # winner
      <4>1. pc = "racing" /\ winner' = j
        BY <3>2, <1>2
      <4>2. j \notin Reported
        <5> SUFFICES ASSUME NEW k \in 1 .. Len(results), results[k].index = j
                     PROVE  FALSE
          BY DEF Reported
        <5>1. results[k].outcome = outcome[j] /\ results[k].outcome \in Outcomes
          BY ResultTypes DEF IInv, ResultsAreOutcomes
        <5> QED BY <5>1, <1>2 DEF Outcomes
      <4>3. j \in active
        BY <4>2, <1>2 DEF IInv, EachJobInOnePlace
      <4> QED BY <4>1, <4>3, <2>1, <1>1, <1>2, <1>3 DEF TypeOK
    <3> QED BY <3>1, <3>2
  <2>5. Len(results') = Len(results)
    BY <1>2
  <2> QED BY <2>2, <2>3, <2>4, <2>5 DEF ResultsAreOutcomes
<1>7. Control'
  BY <1>2 DEF IInv, Control
<1>8. NoLostWin'
  <2>1. pc = "racing" => winner' # None
    BY <1>2
  <2> QED BY <2>1, <1>2 DEF NoLostWin
<1> QED BY <1>3, <1>4, <1>5, <1>6, <1>7, <1>8 DEF IInv

\* What Resume and CallbackThrows have in common: the winner's result is pushed.
LEMMA WinnerPushed ==
  ASSUME IInv, pc = "racing", winner # None,
         results' = Append(results, Result(winner)),
         outcome' = outcome
  PROVE  /\ winner \in active /\ winner \in Jobs /\ winner \notin Reported
         /\ results' \in Seq(ResultType)
         /\ Len(results) \in Nat /\ Len(results') = Len(results) + 1
         /\ Reported' = Reported \cup {winner}
         /\ \A k \in 1 .. Len(results') : /\ results'[k].outcome = outcome'[results'[k].index]
                                          /\ results'[k].index \in Reported'
         /\ \A k, l \in 1 .. Len(results') : results'[k].index = results'[l].index => k = l
<1>1. winner \in active /\ winner \in Jobs /\ outcome[winner] \in Outcomes
  BY DEF IInv, ResultsAreOutcomes, TypeOK
<1>2. winner \notin Reported
  BY <1>1 DEF IInv, EachJobInOnePlace
<1>3. /\ Result(winner) \in ResultType
      /\ Result(winner).index = winner /\ Result(winner).outcome = outcome[winner]
  BY <1>1 DEF Result, ResultType
<1>4. results \in Seq(ResultType)
  BY DEF IInv, TypeOK, ResultType
<1>5. /\ results' \in Seq(ResultType)
      /\ Len(results) \in Nat /\ Len(results') = Len(results) + 1
      /\ \A k \in 1 .. Len(results) : results'[k] = results[k]
      /\ results'[Len(results')] = Result(winner)
      /\ Reported' = Reported \cup {winner}
  BY <1>3, <1>4, PushResult
<1>6. \A k \in 1 .. Len(results) : /\ results[k].outcome = outcome[results[k].index]
                                  /\ results[k].index \in Reported
  BY DEF IInv, ResultsAreOutcomes, Reported
<1>7. \A k \in 1 .. Len(results') : k \in 1 .. Len(results) \/ k = Len(results')
  BY <1>5
<1>8. \A k \in 1 .. Len(results') : /\ results'[k].outcome = outcome'[results'[k].index]
                                   /\ results'[k].index \in Reported'
  BY <1>3, <1>5, <1>6, <1>7
<1>9. ASSUME NEW k \in 1 .. Len(results'), NEW l \in 1 .. Len(results'),
             results'[k].index = results'[l].index
      PROVE  k = l
  <2>1. \A i, h \in 1 .. Len(results) : results[i].index = results[h].index => i = h
    BY DEF IInv, EachJobInOnePlace
  <2> QED BY <2>1, <1>2, <1>3, <1>5, <1>6, <1>7, <1>9
<1> QED BY <1>1, <1>2, <1>5, <1>8, <1>9

\* A callback that throws leaves its job in activeJobs, reported.
LEMMA ThrowInv == IInv /\ CallbackThrows => IInv'
<1> SUFFICES ASSUME IInv, CallbackThrows PROVE IInv'
  OBVIOUS
<1> USE NAssumption DEF None
<1>1. /\ pc = "racing" /\ winner # None
      /\ results' = Append(results, Result(winner))
      /\ pc' = "rejected" /\ winner' = None
      /\ UNCHANGED <<next, active, outcome, settled, returned>>
  BY DEF CallbackThrows
<1>2. /\ winner \in active /\ winner \in Jobs /\ winner \notin Reported
      /\ results' \in Seq(ResultType)
      /\ Len(results) \in Nat /\ Len(results') = Len(results) + 1
      /\ Reported' = Reported \cup {winner}
      /\ \A k \in 1 .. Len(results') : /\ results'[k].outcome = outcome'[results'[k].index]
                                       /\ results'[k].index \in Reported'
      /\ \A k, l \in 1 .. Len(results') : results'[k].index = results'[l].index => k = l
  BY <1>1, WinnerPushed
<1>3. TypeOK'
  BY <1>1, <1>2 DEF IInv, TypeOK, ResultType
<1>4. EachJobInOnePlace'
  <2>1. \A j \in active : j < next
    BY DEF IInv, EachJobInOnePlace
  <2>2. \A i \in Reported' : i < next
    BY <2>1, <1>2, ResultTypes
  <2>3. \A j \in Jobs : j < next' => j \in active' \cup Reported'
    BY <1>1, <1>2 DEF IInv, EachJobInOnePlace
  <2> QED BY <2>1, <2>2, <2>3, <1>1, <1>2 DEF EachJobInOnePlace
<1>5. SlotsFull'
  BY <1>1 DEF IInv, SlotsFull
<1>6. ResultsAreOutcomes'
  BY <1>1, <1>2 DEF IInv, ResultsAreOutcomes
<1>7. Control' /\ NoLostWin'
  BY <1>1, <1>2 DEF IInv, Control, NoLostWin
<1> QED BY <1>3, <1>4, <1>5, <1>6, <1>7 DEF IInv

\* The loop's body: the winner's slot goes to the next job of the pool, or is given up.
LEMMA ResumeInv == IInv /\ Resume => IInv'
<1> SUFFICES ASSUME IInv, Resume PROVE IInv'
  OBVIOUS
<1> USE NAssumption, ConcurrencyAssumption DEF None
<1> DEFINE more == IF next <= N THEN {next} ELSE {}
<1>1. /\ pc = "racing" /\ winner # None
      /\ results' = Append(results, Result(winner))
      /\ active' = (active \ {winner}) \cup more
      /\ next' = IF next <= N THEN next + 1 ELSE next
      /\ LoopOrReturn(results', active')
      /\ UNCHANGED <<outcome, settled>>
  BY DEF Resume
<1>2. /\ winner \in active /\ winner \in Jobs /\ winner \notin Reported
      /\ results' \in Seq(ResultType)
      /\ Len(results) \in Nat /\ Len(results') = Len(results) + 1
      /\ Reported' = Reported \cup {winner}
      /\ \A k \in 1 .. Len(results') : /\ results'[k].outcome = outcome'[results'[k].index]
                                       /\ results'[k].index \in Reported'
      /\ \A k, l \in 1 .. Len(results') : results'[k].index = results'[l].index => k = l
  BY <1>1, WinnerPushed
<1>3. /\ TypeOK /\ next \in 1 .. N + 1 /\ active \in SUBSET Jobs
      /\ \A j \in active : j < next
      /\ \A i \in Reported : i < next
      /\ active \cap Reported = {}
      /\ Len(results) < N
      /\ returned = <<>>
  BY <1>1, ResultTypes DEF IInv, TypeOK, EachJobInOnePlace, Control
<1>4. /\ active' \in SUBSET Jobs /\ next' \in 1 .. N + 1
      /\ \A j \in active' : j < next'
  <2>1. \A j \in active' : j \in active \/ (next <= N /\ j = next)
    BY <1>1
  <2>2. ASSUME NEW j \in active'
        PROVE  j \in Jobs /\ j < next'
    BY <2>1, <1>1, <1>3 DEF Jobs
  <2> QED BY <2>2, <1>1, <1>3
<1>5. EachJobInOnePlace'
  <2>1. \A j \in Jobs : j < next' => j \in active' \cup Reported'
    <3> SUFFICES ASSUME NEW j \in Jobs, j < next', j \notin Reported'
                 PROVE  j \in active'
      OBVIOUS
    <3>1. CASE j < next
      <4>1. j \in active /\ j # winner
        BY <3>1, <1>2 DEF IInv, EachJobInOnePlace
      <4> QED BY <4>1, <1>1
    <3>2. CASE ~ (j < next)
      <4>1. next <= N /\ j = next
        BY <3>2, <1>1, <1>3 DEF Jobs
      <4> QED BY <4>1, <1>1
    <3> QED BY <3>1, <3>2
  <2>2. ASSUME NEW i \in Reported'
        PROVE  i < next'
    <3>1. i < next /\ i \in Jobs
      BY <1>2, <1>3, ResultTypes
    <3> QED BY <3>1, <1>1, <1>3 DEF Jobs
  <2>3. active' \cap Reported' = {}
    <3>1. ASSUME NEW j \in active', j \in Reported'
          PROVE  FALSE
      <4>1. CASE j \in active /\ j # winner
        BY <4>1, <3>1, <1>2, <1>3
      <4>2. CASE next <= N /\ j = next
        BY <4>2, <3>1, <1>2, <1>3
      <4> QED BY <4>1, <4>2, <1>1
    <3> QED BY <3>1
  <2> QED BY <2>1, <2>2, <2>3, <1>2, <1>4 DEF EachJobInOnePlace
<1>6. SlotsFull'
  <2>1. /\ IsFiniteSet(active) /\ Cardinality(active) \in Nat
        /\ IsFiniteSet(active \ {winner})
        /\ Cardinality(active \ {winner}) = Cardinality(active) - 1
    BY <1>2, <1>3, JobsFinite, FS_RemoveElement
  <2>2. /\ Cardinality(active) <= Concurrency
        /\ next <= N => Cardinality(active) = Concurrency
    BY <1>1 DEF IInv, SlotsFull
  <2>3. CASE next <= N
    <3>1. next \notin active \ {winner}
      BY <1>3
    <3> DEFINE rest == active \ {winner}
    <3>2. Cardinality(rest \cup {next}) = Cardinality(active)
      <4>1. next \notin rest /\ IsFiniteSet(rest) /\ Cardinality(rest) = Cardinality(active) - 1
        BY <3>1, <2>1
      <4> HIDE DEF rest
      <4>2. Cardinality(rest \cup {next}) = Cardinality(rest) + 1
        BY <4>1, FS_AddElement
      <4> QED BY <4>1, <4>2, <2>1
    <3> QED BY <3>2, <2>2, <2>3, <1>1 DEF SlotsFull
  <2>4. CASE ~ (next <= N)
    <3>1. active' = active \ {winner} /\ next' = next
      BY <2>4, <1>1
    <3>2. Cardinality(active') <= Concurrency
      BY <3>1, <2>1, <2>2
    <3> QED BY <3>1, <3>2, <2>4 DEF SlotsFull
  <2> QED BY <2>3, <2>4
<1>7. CASE Len(results') < N
  <2>1. pc' = "racing" /\ winner' = Race(active') /\ returned' = <<>>
    BY <1>1, <1>3, <1>7 DEF LoopOrReturn
  <2>2. \/ winner' = None /\ \A j \in active' : outcome'[j] = "pending"
        \/ winner' \in active' /\ outcome'[winner'] # "pending" /\ winner' # None
    BY <2>1, <1>1, <1>4, RaceWinner DEF Jobs
  <2>3. TypeOK'
    <3>1. winner' \in 0 .. N
      <4>1. winner' = 0 \/ winner' \in Jobs
        BY <2>2, <1>4
      <4> QED BY <4>1 DEF Jobs
    <3> QED BY <3>1, <2>1, <1>1, <1>2, <1>3, <1>4 DEF TypeOK, ResultType
  <2>4. ResultsAreOutcomes'
    <3>1. \A j \in Jobs : outcome'[j] # "pending" => j < next'
      BY <1>1, <1>3 DEF IInv, ResultsAreOutcomes, Jobs
    <3> QED BY <3>1, <2>2, <1>2 DEF ResultsAreOutcomes
  <2>5. Control' /\ NoLostWin'
    BY <2>1, <2>2, <1>7 DEF Control, NoLostWin
  <2> QED BY <2>3, <2>4, <2>5, <1>5, <1>6 DEF IInv
<1>8. CASE ~ (Len(results') < N)
  <2>1. pc' = "returned" /\ winner' = None /\ returned' = SortByIndex(results')
    BY <1>1, <1>8 DEF LoopOrReturn
  <2>2. Len(results') = N
    BY <1>2, <1>3, <1>8
  <2>3. returned' \in [Jobs -> ResultType]
    BY <2>1, <2>2, <1>2, SortedInPlace
  <2>4. TypeOK'
    BY <2>1, <2>3, <1>1, <1>2, <1>3, <1>4 DEF TypeOK, ResultType
  <2>5. ResultsAreOutcomes'
    <3>1. \A j \in Jobs : outcome'[j] # "pending" => j < next'
      BY <1>1, <1>3 DEF IInv, ResultsAreOutcomes, Jobs
    <3> QED BY <3>1, <2>1, <1>2 DEF ResultsAreOutcomes
  <2>6. Control' /\ NoLostWin'
    BY <2>1, <2>2 DEF Control, NoLostWin
  <2> QED BY <2>4, <2>5, <2>6, <1>5, <1>6 DEF IInv
<1> QED BY <1>7, <1>8

\* The invariant of a call, for every N and every Concurrency: each job is in the
\* pool, active or reported, the slots are full while jobs wait, and results holds
\* exactly what its jobs settled with.
THEOREM Invariant == Spec => []IInv
<1>1. IInv /\ [Next]_vars => IInv'
  <2> SUFFICES ASSUME IInv, [Next]_vars PROVE IInv'
    OBVIOUS
  <2>1. CASE Launch
    BY <2>1, LaunchInv
  <2>2. ASSUME NEW j \in Jobs, Settle(j)
        PROVE  IInv'
    BY <2>2, SettleInv
  <2>3. CASE Resume
    BY <2>3, ResumeInv
  <2>4. CASE CallbackThrows
    BY <2>4, ThrowInv
  <2>5. CASE UNCHANGED vars
    BY <2>5 DEF vars, IInv, TypeOK, EachJobInOnePlace, SlotsFull, ResultsAreOutcomes,
                NoLostWin, Control, Reported, Jobs
  <2> QED BY <2>1, <2>2, <2>3, <2>4, <2>5 DEF Next, Finished
<1> QED BY <1>1, InitInv, PTL DEF Spec

-----------------------------------------------------------------------------
(* What follows from the invariant. *)

\* ConcurrencyLimit: at most Concurrency jobs run at any time, for every number of
\* jobs, because a job that runs is active and the slots are bounded.
THEOREM Limit == Spec => []ConcurrencyLimit
<1>1. IInv => ConcurrencyLimit
  <2> SUFFICES ASSUME IInv PROVE ConcurrencyLimit
    OBVIOUS
  <2>1. ASSUME NEW j \in Running
        PROVE  j \in active
    <3>1. j \notin Reported
      <4> SUFFICES ASSUME NEW k \in 1 .. Len(results), results[k].index = j
                   PROVE  FALSE
        BY DEF Reported
      <4>1. results[k].outcome = outcome[j] /\ results[k].outcome \in Outcomes
        BY ResultTypes DEF IInv, ResultsAreOutcomes
      <4> QED BY <4>1 DEF Running, Outcomes
    <3> QED BY <3>1 DEF Running, IInv, EachJobInOnePlace
  <2>2. active \in SUBSET Jobs /\ IsFiniteSet(active)
    BY JobsFinite DEF IInv, TypeOK
  <2>3. Running \in SUBSET active
    BY <2>1
  <2>4. /\ Cardinality(Running) <= Cardinality(active)
        /\ Cardinality(Running) \in Nat /\ Cardinality(active) \in Nat
    BY <2>2, <2>3, FS_Subset, FS_CardinalityType
  <2> QED BY <2>4, ConcurrencyAssumption DEF IInv, SlotsFull, ConcurrencyLimit
<1> QED BY <1>1, Invariant, PTL

\* NeverRacesNothing: the await of the loop can always be won, so the call cannot
\* hang by itself.
THEOREM CanBeWon == Spec => []NeverRacesNothing
<1>1. IInv => NeverRacesNothing
  <2> SUFFICES ASSUME IInv, pc = "racing"
               PROVE  \E j \in active : outcome[j] = "pending" \/ j = winner
    BY DEF NeverRacesNothing
  <2> USE NAssumption, ConcurrencyAssumption
  <2>1. active # {}
    <3> SUFFICES ASSUME active = {} PROVE FALSE
      OBVIOUS
    <3>1. Cardinality(active) = 0
      BY FS_EmptySet
    <3>2. next > N
      BY <3>1 DEF IInv, SlotsFull, TypeOK
    <3>3. Jobs \subseteq Reported
      BY <3>2 DEF IInv, EachJobInOnePlace, TypeOK, Jobs
    <3> DEFINE at == [k \in 1 .. Len(results) |-> results[k].index]
    <3>4. /\ Len(results) \in Nat /\ Len(results) < N
          /\ \A k \in 1 .. Len(results) : results[k].index \in Jobs
      BY ResultTypes DEF IInv, Control
    <3>5. at \in [1 .. Len(results) -> Jobs]
      BY <3>4
    <3>6. at \in Surjection(1 .. Len(results), Jobs)
      BY <3>5, <3>3 DEF Surjection, Reported
    <3>7. IsFiniteSet(1 .. Len(results)) /\ Cardinality(1 .. Len(results)) = Len(results)
      BY <3>4, UpTo
    <3>8. Cardinality(Jobs) <= Cardinality(1 .. Len(results))
      <4> HIDE DEF at
      <4> QED BY <3>6, <3>7, FS_Surjection
    <3> QED BY <3>4, <3>7, <3>8, JobsFinite
  <2>2. ASSUME \A j \in active : outcome[j] # "pending"
        PROVE  winner \in active
    BY <2>2, <2>1 DEF IInv, NoLostWin, ResultsAreOutcomes
  <2> QED BY <2>1, <2>2
<1> QED BY <1>1, Invariant, PTL

\* In every state of the invariant the answer, if there is one, has each job's
\* outcome at the job's position.
LEMMA AnswerInOrder == IInv => ReturnsInJobOrder
<1> SUFFICES ASSUME IInv, pc = "returned"
             PROVE  returned = [j \in Jobs |-> [index |-> j, outcome |-> outcome[j]]]
  BY DEF ReturnsInJobOrder
<1>1. /\ results \in Seq(ResultType) /\ Len(results) = N
      /\ returned = SortByIndex(results)
      /\ \A k, l \in 1 .. N : results[k].index = results[l].index => k = l
      /\ \A k \in 1 .. N : results[k].outcome = outcome[results[k].index]
  BY ResultTypes DEF IInv, Control, EachJobInOnePlace, ResultsAreOutcomes
<1>2. /\ returned \in [Jobs -> ResultType]
      /\ \A i \in Jobs : \E k \in 1 .. N : results[k].index = i /\ returned[i] = results[k]
  BY <1>1, SortedInPlace
<1>3. ASSUME NEW i \in Jobs
      PROVE  returned[i] = [index |-> i, outcome |-> outcome[i]]
  <2>1. returned[i].index = i /\ returned[i].outcome = outcome[i]
    BY <1>1, <1>2
  <2>2. returned[i] \in [index : Jobs, outcome : Outcomes]
    BY <1>2 DEF ResultType
  <2> QED BY <2>1, <2>2
<1> QED BY <1>2, <1>3

\* ReturnsInJobOrder: whatever order the jobs finish in, the call resolves with the
\* result of job i at place i.
THEOREM InJobOrder == Spec => []ReturnsInJobOrder
BY AnswerInOrder, Invariant, PTL

\* The same after a step.
LEMMA AnswerInOrderNext == IInv' => ReturnsInJobOrder'
BY AnswerInOrder, PTL

-----------------------------------------------------------------------------
(* Refinement of the abstract batch. *)

\* The instance has its own name for the cardinality of FiniteSets.
LEMMA SameCardinality == \A S : Batch!Cardinality(S) = Cardinality(S)
BY DEF Cardinality, Batch!Cardinality, IsFiniteSet, Batch!IsFiniteSet

\* The jobs the abstract batch has started but not reported are active.
LEMMA OpenJobsActive ==
  ASSUME IInv, pc # "rejected"
  PROVE  {j \in Jobs : j < next} \ Reported = active
BY ResultTypes DEF IInv, TypeOK, EachJobInOnePlace

\* A call that has not begun is a batch that has not begun.
LEMMA InitBatch == Init => Batch!Init
BY NAssumption DEF Init, Batch!Init, Batch!Jobs, Jobs, Reported

\* The launch is an Advance that reports nothing.
LEMMA LaunchBatch == IInv /\ IInv' /\ Launch => Batch!Next
<1> SUFFICES ASSUME IInv, IInv', Launch PROVE Batch!Next
  OBVIOUS
<1> USE NAssumption
<1> DEFINE new == {j \in Jobs : j < next'}
<1>1. /\ pc = "called" /\ results = <<>> /\ next = 1 /\ returned = <<>>
      /\ UNCHANGED <<outcome, settled, results>>
      /\ pc' \in {"racing", "returned"}
      /\ pc' = "racing" => returned' = returned
  BY DEF Launch, LoopOrReturn, IInv, Control
<1>2. {j \in Jobs : j < next} = {} /\ Reported = {} /\ Reported' = {}
  BY <1>1 DEF Jobs, Reported
<1>3. new \ Reported' = active'
  BY <1>1, OpenJobsActive DEF IInv, TypeOK, EachJobInOnePlace, Reported
<1>4. Cardinality(new \ Reported') <= Concurrency
  BY <1>3 DEF IInv, SlotsFull
<1>5. pc' = "returned" => /\ Reported' = Jobs
                         /\ returned' = [j \in Jobs |-> [index |-> j, outcome |-> outcome[j]]]
  <2> SUFFICES ASSUME pc' = "returned"
               PROVE  /\ Reported' = Jobs
                      /\ returned' = [j \in Jobs |-> [index |-> j, outcome |-> outcome[j]]]
    OBVIOUS
  <2>1. N = 0
    BY <1>1 DEF IInv, Control
  <2>2. returned' = [j \in Jobs |-> [index |-> j, outcome |-> outcome'[j]]]
    BY AnswerInOrderNext DEF ReturnsInJobOrder
  <2> QED BY <2>1, <2>2, <1>1, <1>2 DEF Jobs
<1>6. PICK done, more \in SUBSET Batch!Jobs : done = {} /\ more = new
  BY DEF Batch!Jobs, Jobs
<1>7. Batch!Advance(done, more)
  BY <1>6, <1>1, <1>2, <1>4, <1>5, SameCardinality DEF Batch!Advance, Batch!Jobs, Jobs
<1> QED BY <1>7 DEF Batch!Next

\* The loop's body is an Advance that reports the winner, as is a callback that throws.
LEMMA ResumeBatch == IInv /\ IInv' /\ (Resume \/ CallbackThrows) => Batch!Next
<1> SUFFICES ASSUME IInv, IInv', Resume \/ CallbackThrows PROVE Batch!Next
  OBVIOUS
<1> USE NAssumption
<1> DEFINE old == {j \in Jobs : j < next}
           new == {j \in Jobs : j < next'}
<1>1. /\ pc = "racing" /\ winner # None
      /\ results' = Append(results, Result(winner))
      /\ UNCHANGED <<outcome, settled>>
      /\ \/ pc' \in {"racing", "rejected"} /\ returned' = returned
         \/ pc' = "returned"
      /\ next' \in {next, next + 1}
  BY DEF Resume, CallbackThrows, LoopOrReturn
<1>2. /\ winner \in active /\ winner \in Jobs /\ winner \notin Reported
      /\ Reported' = Reported \cup {winner}
  BY <1>1, WinnerPushed
<1>3. /\ winner < next /\ outcome[winner] # "pending"
      /\ next \in Nat /\ old \subseteq new
  BY <1>1, <1>2 DEF IInv, TypeOK, EachJobInOnePlace, ResultsAreOutcomes, Jobs
<1>4. Cardinality(new \ Reported') <= Concurrency
  <2>1. CASE pc' # "rejected"
    <3>1. new \ Reported' = active'
      BY <2>1, ResultTypes DEF IInv, TypeOK, EachJobInOnePlace, Reported, Jobs
    <3> QED BY <3>1 DEF IInv, SlotsFull
  <2>2. CASE pc' = "rejected"
    <3>1. next' = next /\ active' = active
      BY <2>2, <1>1 DEF Resume, CallbackThrows, LoopOrReturn
    <3>2. new \ Reported' \subseteq active
      BY <3>1, <1>1, <1>2 DEF IInv, EachJobInOnePlace
    <3>3. IsFiniteSet(active) /\ Cardinality(active) \in Nat
      BY JobsFinite DEF IInv, TypeOK
    <3> HIDE DEF new
    <3>4. /\ Cardinality(new \ Reported') <= Cardinality(active)
          /\ Cardinality(new \ Reported') \in Nat
      BY <3>2, <3>3, FS_Subset, FS_CardinalityType
    <3> QED BY <3>3, <3>4, ConcurrencyAssumption DEF IInv, SlotsFull
  <2> QED BY <2>1, <2>2
<1>5. pc' = "returned" => /\ Reported' = Jobs
                         /\ returned' = [j \in Jobs |-> [index |-> j, outcome |-> outcome[j]]]
  <2> SUFFICES ASSUME pc' = "returned"
               PROVE  /\ Reported' = Jobs
                      /\ returned' = [j \in Jobs |-> [index |-> j, outcome |-> outcome[j]]]
    OBVIOUS
  <2>1. returned' = [j \in Jobs |-> [index |-> j, outcome |-> outcome'[j]]]
    BY AnswerInOrderNext DEF ReturnsInJobOrder
  <2>2. /\ results' \in Seq(ResultType) /\ Len(results') = N
        /\ \A k, l \in 1 .. N : results'[k].index = results'[l].index => k = l
    BY ResultTypes DEF IInv, Control, EachJobInOnePlace, TypeOK, ResultType
  <2>3. \A i \in Jobs : \E k \in 1 .. N : results'[k].index = i
    BY <2>2, SortedInPlace
  <2>4. Jobs \subseteq Reported'
    BY <2>2, <2>3 DEF Reported
  <2>5. Reported' \subseteq Jobs
    BY <1>2, ResultTypes
  <2> QED BY <2>1, <2>4, <2>5, <1>1
<1>6. PICK done, more \in SUBSET Batch!Jobs : done = {winner} /\ more = new \ old
  BY <1>2 DEF Batch!Jobs, Jobs
<1>7. Batch!Advance(done, more)
  <2>1. old \cup (new \ old) = new
    BY <1>3
  <2>2. \/ pc' = "returned"
        \/ pc' = "racing" /\ returned' = returned
        \/ pc' = "rejected" /\ returned' = returned
    BY <1>1
  <2> QED BY <2>1, <2>2, <1>1, <1>2, <1>3, <1>4, <1>5, <1>6, SameCardinality DEF Batch!Advance, Batch!Jobs, Jobs
<1> QED BY <1>7 DEF Batch!Next

\* A job that settles in the code settles in the batch.
LEMMA SettleBatch ==
  ASSUME NEW j \in Jobs, IInv, Settle(j)
  PROVE  Batch!Next
<1>1. Batch!Settle(j)
  BY DEF Settle, Batch!Settle, Outcomes, Reported, Jobs, Batch!Jobs
<1> QED BY <1>1 DEF Batch!Next, Batch!Jobs, Jobs

\* ImplementsBatch: each step of the loop starts, reports or settles jobs as the
\* abstract batch allows, or changes nothing of it.
THEOREM Refinement == Spec => ImplementsBatch
<1>1. IInv /\ IInv' /\ [Next]_vars => [Batch!Next]_(Batch!vars)
  <2> SUFFICES ASSUME IInv, IInv', [Next]_vars
               PROVE  Batch!Next \/ UNCHANGED Batch!vars
    BY DEF Batch!vars
  <2>1. CASE UNCHANGED vars
    BY <2>1 DEF vars, Batch!vars, Reported, Jobs
  <2>2. CASE Launch
    BY <2>2, LaunchBatch
  <2>3. ASSUME NEW j \in Jobs, Settle(j)
        PROVE  Batch!Next
    BY <2>3, SettleBatch
  <2>4. CASE Resume \/ CallbackThrows
    BY <2>4, ResumeBatch
  <2> QED BY <2>1, <2>2, <2>3, <2>4 DEF Next, Finished
<1> QED BY <1>1, InitBatch, Invariant, PTL DEF Spec, ImplementsBatch, Batch!Spec
=============================================================================
